------------------------------ MODULE AudioDsp ------------------------------
(***************************************************************************)
(* /dev/dsp of the S3C2410 (code/17, the OSS driver of the UDA1341): each  *)
(* direction has a ring of buffers with a semaphore each, which a call     *)
(* holds while it fills or drains the buffer and the DMA while it plays or *)
(* records it. One processor, and processes that yield only when they wait *)
(* or copy from and to user memory, so a call is split there.              *)
(* Sound is counted in frames; a mono write arrives as the stereo frames   *)
(* it is turned into.                                                      *)
(***************************************************************************)
EXTENDS Naturals, Sequences

CONSTANTS
  AuThreads,  \* threads that share the files
  AuShapes,   \* <<nbfrags, fragsize>> of SETFRAGMENT
  AuDefault,  \* AUDIO_NBFRAGS_DEFAULT and AUDIO_FRAGSIZE_DEFAULT
  AuCounts,   \* frames of a write or a read
  AuModes,    \* how the device is opened: "r", "w", "rw"
  AuMaxOpens, AuMaxCalls   \* bounds on the opens and on the other calls

ASSUME AudioAssumption ==
  /\ AuShapes \cup {AuDefault} \subseteq (Nat \ {0, 1}) \X (Nat \ {0})
  /\ AuCounts \subseteq Nat \ {0} /\ AuModes \subseteq {"r", "w", "rw"}
  /\ AuMaxOpens \in Nat /\ AuMaxCalls \in Nat

VARIABLES
  au_files,   \* modes of the open files: audio_rd_refcount and audio_wr_refcount
  au_shape,   \* audio_nbfrags and audio_fragsize
  au_iis,     \* what the bus was set up for: "off", "tx", "rx"
  output_stream, input_stream,
  au_pc, au_b, au_left,  \* a thread's place in its call, its buffer, frames left
  au_close,   \* the last thread is in smdk2410_audio_release of the output
  au_written, au_played, au_taped, au_heard, \* history: frames written and played,
              \* and frames recorded and read
  au_ok,      \* history: all that was played and heard was so in order
  au_raced,   \* history: streams on which calls of two threads overlapped
  au_cut,     \* history: sound was dropped by a reset or a signal, or the DMA refused it
  au_failed,  \* history: s3c2410_dma_enqueue failed
  au_oops,    \* memory is in use that is freed, or not yet allocated
  au_opens, au_calls  \* opens and calls that are left

auCalls == <<au_pc, au_b, au_left>>
auSound == <<au_written, au_played, au_taped, au_heard, au_ok>>
auFlags == <<au_raced, au_cut, au_failed, au_oops>>
auLeft == <<au_opens, au_calls>>
auVars == <<au_files, au_shape, au_iis, output_stream, input_stream, auCalls,
            au_close, auSound, auFlags, auLeft>>

-----------------------------------------------------------------------------
(* Streams. A buffer has its size, its frames (by number) and its          *)
(* semaphore; the queue of the DMA holds buffers and what it was given of  *)
(* them.                                                                   *)

AuNoBuffers == [set |-> FALSE, idx |-> 0, nb |-> 0, frag |-> 0, buf |-> <<>>, q |-> <<>>]

(* audio_setup_buf.                                                        *)
AuSetup(shape) ==
  [set |-> TRUE, idx |-> 0, nb |-> shape[1], frag |-> shape[2], q |-> <<>>,
   buf |-> [i \in 0 .. shape[1] - 1 |-> [size |-> 0, data |-> <<>>, sem |-> 1]]]

AuFrames(first, n) == [i \in 1 .. n |-> first + i]
AuFewer(m, n) == IF m < n THEN m ELSE n
AuSem(s, b, n) == [s EXCEPT !.buf[b].sem = n]
AuNextBuf(s) == [s EXCEPT !.idx = (@ + 1) % s.nb]
AuPrev(s) == (s.nb + s.idx - 1) % s.nb

(* s3c2410_dma_enqueue of the current buffer's n frames, and NEXT_BUF.     *)
AuEnqueue(s, b, n) ==
  AuNextBuf([s EXCEPT !.q = Append(@, [b |-> b, n |-> n]), !.buf[b].size = 0])

AuPlayer(f) == f \in {"w", "rw"}
AuRecorder(f) == f \in {"r", "rw"}
AuPlaying == \E f \in au_files : AuPlayer(f)
AuRecording == \E f \in au_files : AuRecorder(f)

AuInit ==
  /\ au_files = {} /\ au_shape = AuDefault /\ au_iis = "off"
  /\ output_stream = AuNoBuffers /\ input_stream = AuNoBuffers
  /\ au_pc = [t \in AuThreads |-> "user"]
  /\ au_b = [t \in AuThreads |-> 0] /\ au_left = [t \in AuThreads |-> 0]
  /\ au_close = FALSE
  /\ au_written = 0 /\ au_played = 0 /\ au_taped = 0 /\ au_heard = 0 /\ au_ok = TRUE
  /\ au_raced = {} /\ au_cut = FALSE /\ au_failed = FALSE /\ au_oops = FALSE
  /\ au_opens = AuMaxOpens /\ au_calls = AuMaxCalls

-----------------------------------------------------------------------------
AuGo(t, pc, b, left) ==
  /\ au_pc' = [au_pc EXCEPT ![t] = pc]
  /\ au_b' = [au_b EXCEPT ![t] = b]
  /\ au_left' = [au_left EXCEPT ![t] = left]
AuReturn(t) == AuGo(t, "user", 0, 0)
AuIn(t, stream) ==
  au_pc[t] \in (IF stream = "out" THEN {"wdown", "wcopy", "sdown", "swait", "synced"}
                ELSE {"rdown", "rcopy"})
AuFreeOf(streams) == \A t \in AuThreads, stream \in streams : ~ AuIn(t, stream)
AuStreams(f) == CASE f = "r" -> {"in"} [] f = "w" -> {"out"} [] f = "rw" -> {"in", "out"}
AuReady(t) ==
  /\ au_pc[t] = "user" /\ au_calls > 0
  /\ au_calls' = au_calls - 1
(* No call comes on a file that is being released.                         *)
AuUsable(f) == au_close => f = "r"
AuCall(t, stream) ==
  /\ AuReady(t)
  /\ au_close => stream = "in" /\ "r" \in au_files
  /\ au_raced' = IF AuFreeOf({stream}) THEN au_raced ELSE au_raced \cup {stream}

(* smdk2410_audio_open: one writer and one reader, but a reader only       *)
(* first. The bus is set up by the first file only, and for recording last.*)
AuOpen(mode) ==
  /\ ~ au_close /\ au_opens > 0
  /\ AuPlayer(mode) => ~ AuPlaying
  /\ AuRecorder(mode) => au_files = {}
  /\ au_opens' = au_opens - 1
  /\ au_files' = au_files \cup {mode}
  /\ IF au_files = {}
       THEN /\ au_shape' = AuDefault
            /\ au_iis' = IF AuRecorder(mode) THEN "rx" ELSE "tx"
       ELSE UNCHANGED <<au_shape, au_iis>>
  /\ UNCHANGED <<output_stream, input_stream, auCalls, au_close, auSound, auFlags, au_calls>>

(* audio_clear_buf: what is queued for output is flushed, its semaphores   *)
(* raised and its sound dropped, before the buffers are freed.             *)
AuClearOut ==
  /\ output_stream' = AuNoBuffers
  /\ au_played' = au_written
  /\ au_cut' = (au_cut \/ au_played # au_written)

(* For input dma_ok is never set: the queue of the DMA stays, with buffers *)
(* that are freed (n = 0).                                                 *)
AuFreed(q) == [i \in DOMAIN q |-> [q[i] EXCEPT !.n = 0]]
AuClearIn ==
  /\ input_stream' = [AuNoBuffers EXCEPT !.q = AuFreed(input_stream.q)]
  /\ au_heard' = au_taped

(* smdk2410_audio_release of an input file.                                *)
AuReleaseIn ==
  /\ "r" \in au_files /\ AuFreeOf({"in"})
  /\ AuClearIn
  /\ au_files' = au_files \ {"r"}
  /\ au_raced' = au_raced \ {"in"}
  /\ UNCHANGED <<au_shape, au_iis, output_stream, auCalls, au_close, au_written,
                 au_played, au_taped, au_ok, au_cut, au_failed, au_oops, auLeft>>

AuReleaseDone ==
  /\ AuClearOut
  /\ au_files' = au_files \ {"w", "rw"}
  /\ au_close' = FALSE /\ au_raced' = au_raced \ {"out"}
  /\ UNCHANGED <<au_shape, au_iis, au_written, au_taped, au_ok, au_failed, au_oops, auLeft>>

(* audio_sync, begun: what is in the current buffer is played too.         *)
AuSyncFrom(t) ==
  LET s == output_stream
  IN  IF s.buf[s.idx].size # 0 THEN AuGo(t, "sdown", s.idx, 0)
      ELSE AuGo(t, "swait", AuPrev(s), 0)

(* SNDCTL_DSP_SYNC, and smdk2410_audio_release of an output file.          *)
AuSync(t) ==
  /\ AuCall(t, "out") /\ AuPlaying /\ output_stream.set
  /\ AuSyncFrom(t)
  /\ UNCHANGED <<au_files, au_shape, au_iis, output_stream, input_stream, au_close,
                 auSound, au_cut, au_failed, au_oops, au_opens>>

AuRelease(t) ==
  /\ au_pc[t] = "user" /\ ~ au_close
  /\ \E f \in au_files : AuPlayer(f) /\ AuFreeOf(AuStreams(f))
  /\ IF "rw" \in au_files THEN AuClearIn ELSE UNCHANGED <<input_stream, au_heard>>
  /\ IF output_stream.set
       THEN /\ AuSyncFrom(t) /\ au_close' = TRUE
            /\ UNCHANGED <<au_files, au_shape, au_iis, output_stream, au_written,
                           au_played, au_taped, au_ok, auFlags, auLeft>>
       ELSE AuReleaseDone /\ UNCHANGED auCalls

(* What the DMA refuses is lost, and the semaphore stays held.             *)
AuSyncDown(t) ==
  LET b == au_b[t]
      s == AuSem(output_stream, b, 0)
      sent == AuEnqueue(s, b, s.buf[b].size)
  IN  /\ au_pc[t] = "sdown" /\ output_stream.buf[b].sem = 1
      /\ \/ output_stream' = sent /\ UNCHANGED au_failed
         \/ output_stream' = [sent EXCEPT !.q = s.q] /\ au_failed' = TRUE
      /\ AuGo(t, "swait", AuPrev(sent), 0)
      /\ UNCHANGED <<au_files, au_shape, au_iis, input_stream, au_close,
                     auSound, au_raced, au_cut, au_oops, auLeft>>

(* The last buffer is free: all is played; or a signal ends the wait, and  *)
(* release goes on all the same.                                           *)
AuSyncDone(t) ==
  /\ au_pc[t] = "swait" /\ output_stream.buf[au_b[t]].sem = 1
  /\ AuGo(t, "synced", 0, 0)
  /\ UNCHANGED <<au_files, au_shape, au_iis, output_stream, input_stream, au_close,
                 auSound, auFlags, auLeft>>

AuSyncReturn(t) ==
  /\ au_pc[t] \in {"swait", "synced"}
  /\ AuReturn(t)
  /\ IF au_close THEN AuReleaseDone /\ UNCHANGED au_heard
     ELSE UNCHANGED <<au_files, au_shape, au_iis, output_stream, au_close,
                      auSound, auFlags, auLeft>>
  /\ UNCHANGED input_stream

-----------------------------------------------------------------------------
(* smdk2410_audio_write. Without memory for the buffers it is -ENOMEM.     *)
AuWrite(t, count) ==
  /\ AuCall(t, "out") /\ AuPlaying
  /\ \/ /\ output_stream' = IF output_stream.set THEN output_stream ELSE AuSetup(au_shape)
        /\ AuGo(t, "wdown", output_stream'.idx, count)
     \/ ~ output_stream.set /\ UNCHANGED <<output_stream, auCalls>>
  /\ UNCHANGED <<au_files, au_shape, au_iis, input_stream, au_close, auSound,
                 au_cut, au_failed, au_oops, au_opens>>

AuWriteDown(t) ==
  /\ au_pc[t] = "wdown" /\ output_stream.buf[au_b[t]].sem = 1
  /\ output_stream' = AuSem(output_stream, au_b[t], 0)
  /\ AuGo(t, "wcopy", au_b[t], au_left[t])
  /\ UNCHANGED <<au_files, au_shape, au_iis, input_stream, au_close, auSound, auFlags, auLeft>>

(* -EAGAIN or a signal; the frames that went before are reported.          *)
AuWriteStop(t) ==
  /\ au_pc[t] = "wdown"
  /\ AuReturn(t)
  /\ UNCHANGED <<au_files, au_shape, au_iis, output_stream, input_stream, au_close,
                 auSound, auFlags, auLeft>>

AuWriteFault(t) ==
  /\ au_pc[t] = "wcopy"
  /\ output_stream' = AuSem(output_stream, au_b[t], 1)
  /\ AuReturn(t)
  /\ UNCHANGED <<au_files, au_shape, au_iis, input_stream, au_close, auSound, auFlags, auLeft>>

(* Mutant: a full buffer is queued and its semaphore given back.           *)
AuQueueFull_up(s, b) == AuSem(AuEnqueue(s, b, s.frag), b, 1)
AuQueueFull(s, b) == AuEnqueue(s, b, s.frag)

(* A chunk has been copied into the buffer. A full buffer is queued and    *)
(* the next one waited for; if it cannot be queued, the call ends with its *)
(* semaphore held.                                                         *)
AuWriteCopy(t) ==
  LET b == au_b[t]
      s == output_stream
      n == AuFewer(s.frag - s.buf[b].size, au_left[t])
      data == SubSeq(s.buf[b].data, 1, s.buf[b].size) \o AuFrames(au_written, n)
      full == [s EXCEPT !.buf[b].size = @ + n, !.buf[b].data = data]
      sent == AuQueueFull(full, b)
  IN  /\ au_pc[t] = "wcopy"
      /\ au_written' = au_written + n
      /\ \/ /\ Len(data) < s.frag
            /\ output_stream' = AuSem(full, b, 1)
            /\ AuReturn(t) /\ UNCHANGED au_failed
         \/ /\ Len(data) = s.frag
            /\ output_stream' = sent
            /\ IF au_left[t] > n THEN AuGo(t, "wdown", sent.idx, au_left[t] - n) ELSE AuReturn(t)
            /\ UNCHANGED au_failed
         \/ /\ Len(data) = s.frag
            /\ output_stream' = full
            /\ AuReturn(t) /\ au_failed' = TRUE
      /\ UNCHANGED <<au_files, au_shape, au_iis, input_stream, au_close, au_played,
                     au_taped, au_heard, au_ok, au_raced, au_cut, au_oops, auLeft>>

(* External: the DMA has played a buffer, if the bus is set up for it;     *)
(* audio_dmaout_done_callback.                                             *)
AuDmaOut ==
  LET s == output_stream
      e == Head(s.q)
  IN  /\ au_iis = "tx" /\ s.q # <<>>
      /\ au_ok' = (au_ok /\ ("out" \in au_raced \/ SubSeq(s.buf[e.b].data, 1, e.n) = AuFrames(au_played, e.n)))
      /\ au_played' = au_played + e.n
      /\ output_stream' = [AuSem(s, e.b, s.buf[e.b].sem + 1) EXCEPT !.q = Tail(s.q)]
      /\ UNCHANGED <<au_files, au_shape, au_iis, input_stream, auCalls, au_close,
                     au_written, au_taped, au_heard, auFlags, auLeft>>

-----------------------------------------------------------------------------
(* smdk2410_audio_read. The first one gives every buffer to the DMA.       *)
AuRead(t, count) ==
  /\ AuCall(t, "in") /\ AuRecording
  /\ \/ /\ input_stream' =
             IF input_stream.set THEN input_stream
             ELSE LET s == AuSetup(au_shape)
                  IN  [s EXCEPT !.buf = [i \in DOMAIN s.buf |-> [s.buf[i] EXCEPT !.sem = 0]],
                                !.q = input_stream.q \o
                                      [i \in 1 .. s.nb |-> [b |-> i - 1, n |-> s.frag]]]
        /\ AuGo(t, "rdown", input_stream'.idx, count)
     \/ ~ input_stream.set /\ UNCHANGED <<input_stream, auCalls>>
  /\ UNCHANGED <<au_files, au_shape, au_iis, output_stream, au_close, auSound,
                 au_cut, au_failed, au_oops, au_opens>>

AuReadDown(t) ==
  /\ au_pc[t] = "rdown" /\ input_stream.buf[au_b[t]].sem = 1
  /\ input_stream' = AuSem(input_stream, au_b[t], 0)
  /\ AuGo(t, "rcopy", au_b[t], au_left[t])
  /\ UNCHANGED <<au_files, au_shape, au_iis, output_stream, au_close, auSound, auFlags, auLeft>>

AuReadStop(t) ==
  /\ au_pc[t] = "rdown"
  /\ AuReturn(t)
  /\ UNCHANGED <<au_files, au_shape, au_iis, output_stream, input_stream, au_close,
                 auSound, auFlags, auLeft>>

AuReadFault(t) ==
  /\ au_pc[t] = "rcopy"
  /\ input_stream' = AuSem(input_stream, au_b[t], 1)
  /\ AuReturn(t)
  /\ UNCHANGED <<au_files, au_shape, au_iis, output_stream, au_close, auSound, auFlags, auLeft>>

(* Mutant: the rest of a buffer is read from its start.                    *)
AuReadFrom_start(s, b, n) == SubSeq(s.buf[b].data, 1, n)
AuReadFrom(s, b, n) ==
  LET from == s.frag - s.buf[b].size
  IN  SubSeq(s.buf[b].data, from + 1, from + n)

(* A chunk has been copied to the user; a buffer that is read out goes     *)
(* back to the DMA.                                                        *)
AuReadCopy(t) ==
  LET b == au_b[t]
      s == input_stream
      n == AuFewer(s.buf[b].size, au_left[t])
      less == [s EXCEPT !.buf[b].size = @ - n]
  IN  /\ au_pc[t] = "rcopy"
      /\ au_heard' = au_heard + n
      /\ au_ok' = (au_ok /\ ("in" \in au_raced \/ AuReadFrom(s, b, n) = AuFrames(au_heard, n)))
      /\ IF n < s.buf[b].size
           THEN input_stream' = AuSem(less, b, 1) /\ AuReturn(t)
           ELSE /\ input_stream' = AuEnqueue(less, b, s.frag)
                /\ IF au_left[t] > n THEN AuGo(t, "rdown", input_stream'.idx, au_left[t] - n)
                   ELSE AuReturn(t)
      /\ UNCHANGED <<au_files, au_shape, au_iis, output_stream, au_close, au_written,
                     au_played, au_taped, auFlags, auLeft>>

(* External: the DMA has recorded a buffer; audio_dmain_done_callback. It  *)
(* does so after the close too, into freed memory.                         *)
AuDmaIn ==
  LET s == input_stream
      e == Head(s.q)
  IN  /\ au_iis = "rx" /\ s.q # <<>>
      /\ IF e.n # 0
           THEN /\ input_stream' =
                     [s EXCEPT !.q = Tail(s.q),
                               !.buf[e.b] = [size |-> e.n, data |-> AuFrames(au_taped, e.n),
                                             sem |-> @.sem + 1]]
                /\ au_taped' = au_taped + e.n
                /\ UNCHANGED au_oops
           ELSE au_oops' = TRUE /\ UNCHANGED <<input_stream, au_taped>>
      /\ UNCHANGED <<au_files, au_shape, au_iis, output_stream, auCalls, au_close,
                     au_written, au_played, au_heard, au_ok, au_raced, au_cut, au_failed, auLeft>>

-----------------------------------------------------------------------------
(* smdk2410_audio_poll of file f sets up what has no buffers, the input    *)
(* first; SETFRAGMENT, which is for streams that have none, the output     *)
(* first. Either ends at a stream that gets none.                          *)
AuSetupAs(f, shape, first) ==
  /\ \/ output_stream' = IF AuPlayer(f) /\ ~ output_stream.set THEN AuSetup(shape) ELSE output_stream
     \/ UNCHANGED output_stream
  /\ \/ input_stream' = IF AuRecorder(f) /\ ~ input_stream.set
                           THEN [AuSetup(shape) EXCEPT !.q = input_stream.q] ELSE input_stream
     \/ UNCHANGED input_stream
  /\ IF first = "in" THEN AuRecorder(f) /\ ~ input_stream'.set => output_stream' = output_stream
     ELSE AuPlayer(f) /\ ~ output_stream'.set => input_stream' = input_stream

AuPoll(t, f) ==
  /\ AuReady(t) /\ AuUsable(f)
  /\ AuSetupAs(f, au_shape, "in")
  /\ UNCHANGED <<au_files, au_shape, au_iis, auCalls, au_close, auSound, auFlags, au_opens>>

AuSetFragment(t, f, shape) ==
  /\ AuReady(t) /\ AuUsable(f)
  /\ IF AuPlayer(f) THEN ~ output_stream.set ELSE ~ input_stream.set
  /\ au_shape' = shape
  /\ AuSetupAs(f, shape, "out")
  /\ UNCHANGED <<au_files, au_iis, auCalls, au_close, auSound, auFlags, au_opens>>

(* SNDCTL_DSP_RESET frees the buffers, also those another thread uses.     *)
AuReset(t, f) ==
  /\ AuReady(t) /\ AuUsable(f)
  /\ au_oops' = ~ AuFreeOf(AuStreams(f))
  /\ IF AuPlayer(f) THEN AuClearOut ELSE UNCHANGED <<output_stream, au_played, au_cut>>
  /\ IF AuRecorder(f) THEN AuClearIn ELSE UNCHANGED <<input_stream, au_heard>>
  /\ UNCHANGED <<au_files, au_shape, au_iis, auCalls, au_close, au_written, au_taped,
                 au_ok, au_raced, au_failed, au_opens>>

(* A call of t comes while u's sleeps for memory in audio_setup_buf, with  *)
(* s->buf not yet set; or a SYNC of a reader's file, whose mode it does    *)
(* not look at, while the writer's is released and its buffers freed. The  *)
(* model ends there.                                                       *)
AuMeet(t) ==
  /\ AuReady(t)
  /\ \/ /\ au_calls > 1 /\ \E u \in AuThreads \ {t} : au_pc[u] = "user"
        /\ \E f \in au_files :
             /\ AuUsable(f)
             /\ (AuPlayer(f) /\ ~ output_stream.set) \/ (AuRecorder(f) /\ ~ input_stream.set)
     \/ au_close /\ "r" \in au_files
  /\ au_oops' = TRUE
  /\ UNCHANGED <<au_files, au_shape, au_iis, output_stream, input_stream, auCalls, au_close,
                 auSound, au_raced, au_cut, au_failed, au_opens>>

AuNext ==
  /\ ~ au_oops
  /\ \/ \E mode \in AuModes : AuOpen(mode)
     \/ AuReleaseIn \/ AuDmaOut \/ AuDmaIn
     \/ \E t \in AuThreads :
          \/ AuRelease(t) \/ AuSync(t) \/ AuSyncDown(t) \/ AuSyncDone(t) \/ AuSyncReturn(t)
          \/ AuWriteDown(t) \/ AuWriteStop(t) \/ AuWriteFault(t) \/ AuWriteCopy(t)
          \/ AuReadDown(t) \/ AuReadStop(t) \/ AuReadFault(t) \/ AuReadCopy(t) \/ AuMeet(t)
          \/ \E count \in AuCounts : AuWrite(t, count) \/ AuRead(t, count)
          \/ \E f \in au_files :
               AuPoll(t, f) \/ AuReset(t, f) \/ \E shape \in AuShapes : AuSetFragment(t, f, shape)

(* The DMA goes on, a copy ends, and a semaphore serves its waiters in turn.*)
AuFairness ==
  /\ WF_auVars(~ au_oops /\ AuDmaOut)
  /\ \A t \in AuThreads :
       /\ WF_auVars(~ au_oops /\ AuWriteCopy(t))
       /\ SF_auVars(~ au_oops /\ (AuWriteDown(t) \/ AuSyncDown(t) \/ AuSyncDone(t)))
AuSpec == AuInit /\ [][AuNext]_auVars /\ AuFairness

-----------------------------------------------------------------------------
(* A buffer belongs to one: to the call that holds its semaphore, or to    *)
(* the DMA, in whose queue it is once, or to nobody - also when threads    *)
(* share the file and a call outlives the turn of the ring.                *)
AuUsers(b) == {t \in AuThreads : au_pc[t] = "wcopy" /\ au_b[t] = b}
AuQueued(s, b) == {i \in DOMAIN s.q : s.q[i].b = b}
AuBufferOwned ==
  ~ au_oops /\ ~ au_failed =>
    \A b \in DOMAIN output_stream.buf :
      LET owners == (AuUsers(b) \X {"call"}) \cup (AuQueued(output_stream, b) \X {"dma"})
      IN  /\ \A x, y \in owners : x = y
          /\ (owners = {}) = (output_stream.buf[b].sem = 1)
          /\ output_stream.buf[b].sem \in {0, 1}

(* Played are the frames that were written, and read are those that were   *)
(* recorded, all of them and in order, for threads that take turns: short  *)
(* writes and reads, a sync in between, buffers polled for before the      *)
(* first read.                                                             *)
AuInOrder == au_cut \/ au_failed \/ au_oops \/ au_ok

(* A sync that returns 0 has waited for all that was written before; and   *)
(* nothing is lost by a close, unless a signal ended its wait.             *)
AuDrained ==
  "out" \notin au_raced /\ ~ au_failed /\ ~ au_cut /\ ~ au_oops =>
    /\ \A t \in AuThreads : au_pc[t] = "synced" => au_played = au_written
    /\ ~ AuPlaying => au_played = au_written

(* The sound is kept: none of it out of order, none of it dropped.         *)
SoundKept == AuInOrder /\ AuDrained

(* A thread that waits to write, to sync or to close gets on - if the bus  *)
(* was set up to play and no buffer was lost.                              *)
AuBlockedGoesOn ==
  \A t \in AuThreads :
    au_pc[t] \in {"wdown", "sdown", "swait"} /\ au_iis = "tx"
      ~> au_pc[t] \in {"user", "wcopy", "synced"} \/ au_failed \/ au_oops
=============================================================================
