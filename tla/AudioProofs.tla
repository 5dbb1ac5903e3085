----------------------------- MODULE AudioProofs -----------------------------
(***************************************************************************)
(* Theorems about the sound driver (AudioDsp), for any threads, modes,     *)
(* shapes of the rings and counts: whose the buffers are, and that the     *)
(* sound is played and read as it came.                                    *)
(***************************************************************************)
EXTENDS AudioDsp, SequenceTheorems, TLAPS

(***************************************************************************)
(* AudioDsp: the rings of buffers of both directions.                      *)
(***************************************************************************)
AuBuf == [size : Nat, data : Seq(Nat), sem : Nat]
AuEntry == [b : Nat, n : Nat]
AuFormed(s) ==
  /\ s \in [set : BOOLEAN, idx : Nat, nb : Nat, frag : Nat,
            buf : [0 .. s.nb - 1 -> AuBuf], q : Seq(AuEntry)]
  /\ IF s.set THEN s.idx < s.nb /\ s.nb >= 2 /\ s.frag >= 1 ELSE s = [AuNoBuffers EXCEPT !.q = s.q]

(* What a step makes of a ring, place by place: its buffers but for one,   *)
(* and that one.                                                           *)
AuSame(s, r) == r.set = s.set /\ r.nb = s.nb /\ r.frag = s.frag
AuOthers(s, r, b) == \A i \in 0 .. s.nb - 1 : i # b => r.buf[i] = s.buf[i]
AuAfter(s) == IF s.idx + 1 < s.nb THEN s.idx + 1 ELSE 0

LEMMA AuFormedIs ==
  ASSUME NEW s, AuFormed(s)
  PROVE  /\ s.set \in BOOLEAN /\ s.idx \in Nat /\ s.nb \in Nat /\ s.frag \in Nat /\ s.q \in Seq(AuEntry)
         /\ DOMAIN s.buf = 0 .. s.nb - 1
         /\ \A b \in 0 .. s.nb - 1 : s.buf[b] \in AuBuf
         /\ \A b \in 0 .. s.nb - 1 : s.buf[b].size \in Nat /\ s.buf[b].sem \in Nat /\ s.buf[b].data \in Seq(Nat)
         /\ \A i \in 1 .. Len(s.q) : s.q[i] \in AuEntry /\ s.q[i].b \in Nat /\ s.q[i].n \in Nat
         /\ DOMAIN s.q = 1 .. Len(s.q) /\ Len(s.q) \in Nat
         /\ s.set => s.idx < s.nb /\ s.nb >= 2 /\ s.frag >= 1
         /\ ~ s.set => s.nb = 0
<1>1. /\ s.set \in BOOLEAN /\ s.idx \in Nat /\ s.nb \in Nat /\ s.frag \in Nat /\ s.q \in Seq(AuEntry)
      /\ s.buf \in [0 .. s.nb - 1 -> AuBuf]
  BY DEF AuFormed
<1>2. \A b \in 0 .. s.nb - 1 : s.buf[b] \in AuBuf
  BY <1>1
<1>3. \A x \in AuBuf : x.size \in Nat /\ x.sem \in Nat /\ x.data \in Seq(Nat)
  BY DEF AuBuf
<1>4. \A b \in 0 .. s.nb - 1 : s.buf[b].size \in Nat /\ s.buf[b].sem \in Nat /\ s.buf[b].data \in Seq(Nat)
  BY <1>2, <1>3
<1>5. \A x \in AuEntry : x.b \in Nat /\ x.n \in Nat
  BY DEF AuEntry
<1>6. DOMAIN s.q = 1 .. Len(s.q) /\ Len(s.q) \in Nat /\ \A i \in 1 .. Len(s.q) : s.q[i] \in AuEntry
  BY <1>1
<1>7. ~ s.set => s.nb = 0
  BY DEF AuFormed, AuNoBuffers
<1>8. s.set => s.idx < s.nb /\ s.nb >= 2 /\ s.frag >= 1
  BY DEF AuFormed
<1>. QED BY <1>1, <1>2, <1>4, <1>5, <1>6, <1>7, <1>8

LEMMA AuEmptyFormed == AuFormed(AuNoBuffers)
<1>1. <<>> \in [0 .. 0 - 1 -> AuBuf]
  OBVIOUS
<1>2. <<>> \in Seq(AuEntry)
  OBVIOUS
<1>. QED BY <1>1, <1>2 DEF AuFormed, AuNoBuffers

LEMMA AuQueueFormed ==
  ASSUME NEW s, AuFormed(s), NEW q \in Seq(AuEntry)
  PROVE  AuFormed([s EXCEPT !.q = q]) /\ [s EXCEPT !.q = q].q = q
BY DEF AuFormed, AuNoBuffers

LEMMA AuSetupFormed ==
  ASSUME NEW shape \in (Nat \ {0, 1}) \X (Nat \ {0})
  PROVE  /\ AuFormed(AuSetup(shape)) /\ AuSetup(shape).set /\ AuSetup(shape).idx = 0 /\ AuSetup(shape).q = <<>>
         /\ AuSetup(shape).nb = shape[1] /\ AuSetup(shape).frag = shape[2]
         /\ \A b \in 0 .. shape[1] - 1 : AuSetup(shape).buf[b] = [size |-> 0, data |-> <<>>, sem |-> 1]
<1>1. shape[1] \in Nat /\ shape[1] >= 2 /\ shape[2] \in Nat /\ shape[2] >= 1
  OBVIOUS
<1>2. <<>> \in Seq(Nat) /\ <<>> \in Seq(AuEntry)
  OBVIOUS
<1>3. [size |-> 0, data |-> <<>>, sem |-> 1] \in AuBuf
  BY <1>2 DEF AuBuf
<1>4. [i \in 0 .. shape[1] - 1 |-> [size |-> 0, data |-> <<>>, sem |-> 1]] \in [0 .. shape[1] - 1 -> AuBuf]
  BY <1>3
<1>. QED BY <1>1, <1>2, <1>4 DEF AuFormed, AuSetup

(* A buffer, and the queue, exchanged.                                     *)
AuPut(s, b, x) == [s EXCEPT !.buf[b] = x]
LEMMA AuBufChanged ==
  ASSUME NEW s, AuFormed(s), NEW b \in 0 .. s.nb - 1, NEW x \in AuBuf, NEW r, r = AuPut(s, b, x)
  PROVE  /\ AuFormed(r) /\ AuSame(s, r) /\ r.idx = s.idx /\ r.q = s.q /\ AuOthers(s, r, b)
         /\ r.buf[b] = x
<1>. DEFINE B == [s.buf EXCEPT ![b] = x]
<1>1. s.buf \in [0 .. s.nb - 1 -> AuBuf]
  BY DEF AuFormed
<1>2. B \in [0 .. s.nb - 1 -> AuBuf]
  BY <1>1
<1>3. r = [s EXCEPT !.buf = B]
  BY DEF AuFormed, AuPut
<1>. HIDE DEF B
<1>4. /\ r \in [set : BOOLEAN, idx : Nat, nb : Nat, frag : Nat, buf : [0 .. s.nb - 1 -> AuBuf], q : Seq(AuEntry)]
      /\ r.set = s.set /\ r.nb = s.nb /\ r.frag = s.frag /\ r.idx = s.idx /\ r.q = s.q /\ r.buf = B
  BY <1>2, <1>3 DEF AuFormed
<1>5. s.set /\ s.idx < s.nb /\ s.nb >= 2 /\ s.frag >= 1
  <2>1. s.nb # 0
    BY DEF AuFormed
  <2>. QED BY <2>1, AuFormedIs
<1>6. AuFormed(r)
  BY <1>4, <1>5 DEF AuFormed
<1>7. AuOthers(s, r, b) /\ B[b] = x
  BY <1>1, <1>4 DEF AuOthers, B
<1>. QED BY <1>4, <1>6, <1>7 DEF AuSame

LEMMA AuSemIs ==
  ASSUME NEW s, AuFormed(s), NEW b \in 0 .. s.nb - 1, NEW n \in Nat, NEW r, r = AuSem(s, b, n)
  PROVE  /\ AuFormed(r) /\ AuSame(s, r) /\ r.idx = s.idx /\ r.q = s.q /\ AuOthers(s, r, b)
         /\ r.buf[b].size = s.buf[b].size /\ r.buf[b].data = s.buf[b].data /\ r.buf[b].sem = n
<1>. DEFINE x == [s.buf[b] EXCEPT !.sem = n]
<1>1. s.buf[b] \in AuBuf
  BY AuFormedIs
<1>2. x \in AuBuf /\ x.size = s.buf[b].size /\ x.data = s.buf[b].data /\ x.sem = n
  BY <1>1 DEF AuBuf
<1>3. r = AuPut(s, b, x)
  BY <1>1 DEF AuSem, AuFormed, AuPut
<1>. HIDE DEF x
<1>4. AuFormed(r) /\ AuSame(s, r) /\ r.idx = s.idx /\ r.q = s.q /\ AuOthers(s, r, b) /\ r.buf[b] = x
  BY <1>2, <1>3, AuBufChanged
<1>. QED BY <1>2, <1>4

LEMMA AuNext1 ==
  ASSUME NEW n \in Nat, NEW i \in Nat, i < n
  PROVE  (i + 1) % n = IF i + 1 < n THEN i + 1 ELSE 0
OBVIOUS

LEMMA AuEnqueueIs ==
  ASSUME NEW s, AuFormed(s), NEW b \in 0 .. s.nb - 1, NEW n \in Nat, NEW r, r = AuEnqueue(s, b, n)
  PROVE  /\ AuFormed(r) /\ AuSame(s, r) /\ r.idx = AuAfter(s) /\ r.q = Append(s.q, [b |-> b, n |-> n])
         /\ AuOthers(s, r, b)
         /\ r.buf[b].size = 0 /\ r.buf[b].data = s.buf[b].data /\ r.buf[b].sem = s.buf[b].sem
<1>. DEFINE x == [s.buf[b] EXCEPT !.size = 0]
            q == Append(s.q, [b |-> b, n |-> n])
            u == [s EXCEPT !.buf[b] = x]
<1>1. s.buf[b] \in AuBuf /\ s.q \in Seq(AuEntry) /\ s.idx \in Nat /\ s.nb \in Nat /\ s.nb > 0
  BY AuFormedIs
<1>2. x \in AuBuf /\ x.size = 0 /\ x.data = s.buf[b].data /\ x.sem = s.buf[b].sem
  BY <1>1 DEF AuBuf
<1>3. [b |-> b, n |-> n] \in AuEntry
  BY <1>1 DEF AuEntry
<1>4. q \in Seq(AuEntry)
  BY <1>1, <1>3
<1>5. r = [u EXCEPT !.q = q, !.idx = (s.idx + 1) % s.nb]
  BY <1>1 DEF AuEnqueue, AuNextBuf, AuFormed
<1>. HIDE DEF x, q, u
<1>6. /\ AuFormed(u) /\ AuSame(s, u) /\ u.idx = s.idx /\ u.q = s.q /\ AuOthers(s, u, b) /\ u.buf[b] = x
  <2>1. u = AuPut(s, b, x)
    BY DEF u, AuPut
  <2>. QED BY <1>2, <2>1, AuBufChanged
<1>7. s.set /\ s.idx < s.nb
  BY <1>1, AuFormedIs
<1>8. (s.idx + 1) % s.nb = AuAfter(s)
  BY <1>1, <1>7, AuNext1 DEF AuAfter
<1>9. AuAfter(s) \in Nat /\ AuAfter(s) < s.nb
  BY <1>1, <1>7 DEF AuAfter
<1>10. /\ r.set = u.set /\ r.nb = u.nb /\ r.frag = u.frag /\ r.buf = u.buf /\ r.idx = AuAfter(s) /\ r.q = q
       /\ AuFormed(r)
  <2>1. r = [u EXCEPT !.q = q, !.idx = AuAfter(s)]
    BY <1>5, <1>8
  <2>2. u \in [set : BOOLEAN, idx : Nat, nb : Nat, frag : Nat, buf : [0 .. u.nb - 1 -> AuBuf], q : Seq(AuEntry)]
    BY <1>6 DEF AuFormed
  <2>3. r.set = u.set /\ r.nb = u.nb /\ r.frag = u.frag /\ r.buf = u.buf /\ r.idx = AuAfter(s) /\ r.q = q
    BY <2>1, <2>2
  <2>4. r \in [set : BOOLEAN, idx : Nat, nb : Nat, frag : Nat, buf : [0 .. u.nb - 1 -> AuBuf], q : Seq(AuEntry)]
    BY <1>4, <1>9, <2>1, <2>2
  <2>5. u.set /\ u.nb = s.nb /\ u.nb >= 2 /\ u.frag >= 1
    BY <1>6, <1>7, AuFormedIs DEF AuSame
  <2>. QED BY <1>9, <2>3, <2>4, <2>5 DEF AuFormed
<1>. QED BY <1>2, <1>6, <1>10 DEF AuSame, AuOthers, q

(* The frames of a piece of sound, by their numbers.                       *)
LEMMA AuFramesAre ==
  ASSUME NEW p \in Nat, NEW n \in Nat
  PROVE  /\ AuFrames(p, n) \in Seq(Nat) /\ Len(AuFrames(p, n)) = n
         /\ \A k \in 1 .. n : AuFrames(p, n)[k] = p + k
BY DEF AuFrames

LEMMA AuFramesEq ==
  ASSUME NEW p \in Nat, NEW n \in Nat, NEW d \in Seq(Nat), NEW m \in Nat,
         n = 0 \/ m + n <= Len(d), \A k \in 1 .. n : d[m + k] = p + k
  PROVE  SubSeq(d, m + 1, m + n) = AuFrames(p, n)
<1>. DEFINE D == SubSeq(d, m + 1, m + n) F == AuFrames(p, n)
<1>1. D \in Seq(Nat) /\ Len(D) = n /\ \A k \in 1 .. n : D[k] = d[m + k]
  <2>1. \A i \in m + 1 .. m + n : i \in 1 .. Len(d)
    OBVIOUS
  <2>2. /\ D \in Seq(Nat)
        /\ Len(D) = IF m + 1 <= m + n THEN (m + n) - (m + 1) + 1 ELSE 0
        /\ \A i \in 1 .. (m + n) - (m + 1) + 1 : D[i] = d[m + 1 + i - 1]
    BY <2>1, SubSeqProperties
  <2>. HIDE DEF D
  <2>3. Len(D) = n
    BY <2>2
  <2>4. \A k \in 1 .. n : D[k] = d[m + k]
    <3>. SUFFICES ASSUME NEW k \in 1 .. n PROVE D[k] = d[m + k]
      OBVIOUS
    <3>1. k \in 1 .. (m + n) - (m + 1) + 1 /\ m + 1 + k - 1 = m + k
      OBVIOUS
    <3>. QED BY <2>2, <3>1
  <2>. QED BY <2>2, <2>3, <2>4
<1>2. F \in Seq(Nat) /\ Len(F) = n /\ \A k \in 1 .. n : F[k] = p + k
  BY AuFramesAre
<1>. HIDE DEF D, F
<1>3. D = F
  <2>1. Len(D) = Len(F) /\ \A k \in 1 .. Len(D) : D[k] = F[k]
    BY <1>1, <1>2
  <2>. QED BY <1>1, <1>2, <2>1, SeqEqual
<1>. QED BY <1>3 DEF D, F

LEMMA AuFreedIs ==
  ASSUME NEW q \in Seq(AuEntry)
  PROVE  /\ AuFreed(q) \in Seq(AuEntry) /\ Len(AuFreed(q)) = Len(q)
         /\ \A i \in 1 .. Len(q) : AuFreed(q)[i].n = 0
<1>. DEFINE f(e) == [e EXCEPT !.n = 0]
<1>1. \A e \in AuEntry : f(e) \in AuEntry /\ f(e).n = 0
  BY DEF AuEntry
<1>2. DOMAIN q = 1 .. Len(q) /\ Len(q) \in Nat /\ \A i \in 1 .. Len(q) : q[i] \in AuEntry
  OBVIOUS
<1>3. AuFreed(q) = [i \in 1 .. Len(q) |-> f(q[i])]
  BY <1>2 DEF AuFreed
<1>. HIDE DEF f
<1>4. \A i \in 1 .. Len(q) : f(q[i]) \in AuEntry /\ f(q[i]).n = 0
  BY <1>1, <1>2
<1>. QED BY <1>2, <1>3, <1>4

(* The types, and bounds of the sizes in the output.                       *)
AuOut == {"wdown", "wcopy", "sdown", "swait", "synced"}
AuInput == {"rdown", "rcopy"}
AuPlaces == {"user"} \cup AuOut \cup AuInput
AuSizes(s) == \A b \in 0 .. s.nb - 1 : s.buf[b].size <= s.frag /\ s.buf[b].size <= Len(s.buf[b].data)
AuTyped ==
  /\ au_files \subseteq {"r", "w", "rw"} /\ au_shape \in (Nat \ {0, 1}) \X (Nat \ {0})
  /\ AuFormed(output_stream) /\ AuFormed(input_stream) /\ AuSizes(output_stream)
  /\ au_pc \in [AuThreads -> AuPlaces] /\ au_b \in [AuThreads -> Nat] /\ au_left \in [AuThreads -> Nat]
  /\ au_written \in Nat /\ au_played \in Nat /\ au_taped \in Nat /\ au_heard \in Nat

(* Who is in which ring, and that only the threads of an open file are. At *)
(* most one is, unless calls have overlapped.                              *)
AuHeld ==
  /\ "rw" \in au_files => au_files = {"rw"}
  /\ output_stream.set => AuPlaying
  /\ input_stream.set => AuRecording /\ (au_close => "r" \in au_files)
  /\ \A t \in AuThreads : au_pc[t] \in AuOut => output_stream.set /\ au_b[t] < output_stream.nb
  /\ \A t \in AuThreads : au_pc[t] \in AuInput => input_stream.set /\ au_b[t] < input_stream.nb
  /\ au_close \/ "out" \notin au_raced =>
       \A t, u \in AuThreads : au_pc[t] \in AuOut /\ au_pc[u] \in AuOut => t = u
  /\ "in" \notin au_raced => \A t, u \in AuThreads : au_pc[t] \in AuInput /\ au_pc[u] \in AuInput => t = u
  /\ \A i \in 1 .. Len(output_stream.q) : output_stream.q[i].b < output_stream.nb
AuBase == AuTyped /\ (~ au_oops => AuHeld)

LEMMA AuWent ==
  ASSUME AuTyped, NEW t \in AuThreads, NEW p, NEW b, NEW left, AuGo(t, p, b, left)
  PROVE  /\ au_pc'[t] = p /\ au_b'[t] = b /\ au_left'[t] = left
         /\ \A u \in AuThreads : u # t => au_pc'[u] = au_pc[u] /\ au_b'[u] = au_b[u] /\ au_left'[u] = au_left[u]
         /\ p \in AuPlaces /\ b \in Nat /\ left \in Nat =>
              /\ au_pc' \in [AuThreads -> AuPlaces] /\ au_b' \in [AuThreads -> Nat]
              /\ au_left' \in [AuThreads -> Nat]
BY DEF AuGo, AuTyped

LEMMA AuPlace ==
  /\ \A t \in AuThreads : (AuIn(t, "out") <=> au_pc[t] \in AuOut) /\ (AuIn(t, "in") <=> au_pc[t] \in AuInput)
  /\ AuFreeOf({"out"}) <=> \A t \in AuThreads : au_pc[t] \notin AuOut
  /\ AuFreeOf({"in"}) <=> \A t \in AuThreads : au_pc[t] \notin AuInput
  /\ \A f \in {"r", "w", "rw"} : AuFreeOf(AuStreams(f)) <=>
       \A t \in AuThreads : (AuPlayer(f) => au_pc[t] \notin AuOut) /\ (AuRecorder(f) => au_pc[t] \notin AuInput)
<1>1. \A t \in AuThreads : (AuIn(t, "out") <=> au_pc[t] \in AuOut) /\ (AuIn(t, "in") <=> au_pc[t] \in AuInput)
  BY DEF AuIn, AuOut, AuInput
<1>. QED BY <1>1 DEF AuFreeOf, AuStreams, AuPlayer, AuRecorder

LEMMA AuSizesKept ==
  ASSUME NEW s, AuFormed(s), AuSizes(s), NEW b \in 0 .. s.nb - 1, NEW r, AuFormed(r), AuSame(s, r),
         AuOthers(s, r, b), r.buf[b].size <= s.frag, r.buf[b].size <= Len(r.buf[b].data)
  PROVE  AuSizes(r)
BY DEF AuSame, AuOthers, AuSizes

LEMMA AuSetupSizes ==
  ASSUME NEW shape \in (Nat \ {0, 1}) \X (Nat \ {0})
  PROVE  AuSizes(AuSetup(shape))
<1>1. Len(<<>>) = 0 /\ shape[2] \in Nat
  OBVIOUS
<1>. QED BY <1>1, AuSetupFormed DEF AuSizes

LEMMA AuEmpty ==
  /\ AuFormed(AuNoBuffers) /\ AuSizes(AuNoBuffers) /\ ~ AuNoBuffers.set /\ AuNoBuffers.q = <<>>
  /\ AuNoBuffers.nb = 0
BY AuEmptyFormed DEF AuNoBuffers, AuSizes

LEMMA AuClearedIn ==
  ASSUME AuFormed(input_stream), AuClearIn
  PROVE  /\ AuFormed(input_stream') /\ ~ input_stream'.set /\ au_heard' = au_taped
         /\ input_stream'.q \in Seq(AuEntry) /\ \A i \in 1 .. Len(input_stream'.q) : input_stream'.q[i].n = 0
<1>1. input_stream.q \in Seq(AuEntry)
  BY AuFormedIs
<1>. DEFINE q == AuFreed(input_stream.q)
<1>2. q \in Seq(AuEntry) /\ Len(q) = Len(input_stream.q) /\ \A i \in 1 .. Len(input_stream.q) : q[i].n = 0
  BY <1>1, AuFreedIs
<1>3. input_stream' = [AuNoBuffers EXCEPT !.q = q]
  BY DEF AuClearIn
<1>. HIDE DEF q
<1>4. AuFormed(input_stream') /\ input_stream'.q = q
  BY <1>2, <1>3, AuEmptyFormed, AuQueueFormed
<1>5. ~ input_stream'.set
  BY <1>3 DEF AuNoBuffers
<1>. QED BY <1>2, <1>4, <1>5 DEF AuClearIn

(* What a piece of a write, and of a read, is.                             *)
LEMMA AuPiece ==
  ASSUME NEW m \in Nat, NEW n \in Nat
  PROVE  AuFewer(m, n) \in Nat /\ AuFewer(m, n) <= m /\ AuFewer(m, n) <= n
BY DEF AuFewer

(* A chunk of n frames has been copied into buffer b: the buffer is not     *)
(* full yet, it is queued, or it cannot be.                                *)
AuCopied(t, s, b, n) ==
  /\ n <= au_left[t] /\ s.buf[b].size + n <= s.frag
  /\ au_written' = au_written + n
  /\ Len(output_stream'.buf[b].data) = s.buf[b].size + n
  /\ \A k \in 1 .. s.buf[b].size : output_stream'.buf[b].data[k] = s.buf[b].data[k]
  /\ \A k \in 1 .. n : output_stream'.buf[b].data[s.buf[b].size + k] = au_written + k
  /\ \/ /\ s.buf[b].size + n < s.frag
        /\ output_stream'.idx = s.idx /\ output_stream'.q = s.q
        /\ output_stream'.buf[b].size = s.buf[b].size + n /\ output_stream'.buf[b].sem = 1
        /\ AuReturn(t) /\ au_failed' = au_failed
     \/ /\ s.buf[b].size + n = s.frag
        /\ output_stream'.idx = AuAfter(s)
        /\ output_stream'.q = Append(s.q, [b |-> b, n |-> s.frag])
        /\ output_stream'.buf[b].size = 0 /\ output_stream'.buf[b].sem = s.buf[b].sem
        /\ au_failed' = au_failed
        /\ \/ AuReturn(t)
           \/ \E left \in Nat : AuGo(t, "wdown", AuAfter(s), left)
     \/ /\ output_stream'.idx = s.idx /\ output_stream'.q = s.q
        /\ output_stream'.buf[b].size = s.buf[b].size + n
        /\ output_stream'.buf[b].sem = s.buf[b].sem
        /\ AuReturn(t) /\ au_failed' = TRUE

LEMMA AuWriteCopyIs ==
  ASSUME AuTyped, AuHeld, NEW t \in AuThreads, AuWriteCopy(t), NEW s, s = output_stream, NEW b, b = au_b[t]
  PROVE  /\ au_pc[t] = "wcopy" /\ b \in 0 .. s.nb - 1
         /\ AuFormed(output_stream') /\ AuSame(s, output_stream') /\ AuOthers(s, output_stream', b)
         /\ \E n \in Nat : AuCopied(t, s, b, n)
<1>. DEFINE x == s.buf[b]
            n == AuFewer(s.frag - x.size, au_left[t])
            old == SubSeq(x.data, 1, x.size)
            data == old \o AuFrames(au_written, n)
            y == [size |-> x.size + n, data |-> data, sem |-> x.sem]
            full == AuPut(s, b, y)
            r == output_stream'
<1>1. au_pc[t] = "wcopy" /\ au_pc[t] \in AuOut /\ AuFormed(s) /\ b \in Nat /\ b < s.nb
  BY DEF AuTyped, AuHeld, AuWriteCopy, AuOut
<1>2. b \in 0 .. s.nb - 1
  BY <1>1, AuFormedIs
<1>3. x \in AuBuf /\ x.size \in Nat /\ x.sem \in Nat /\ x.data \in Seq(Nat) /\ s.frag \in Nat /\ s.idx \in Nat
  BY <1>1, <1>2, AuFormedIs
<1>4. x.size <= s.frag /\ x.size <= Len(x.data)
  BY <1>2 DEF AuTyped, AuSizes
<1>5. au_left[t] \in Nat /\ au_written \in Nat
  BY DEF AuTyped
<1>6. n \in Nat /\ n <= s.frag - x.size /\ n <= au_left[t]
  <2>1. s.frag - x.size \in Nat
    BY <1>3, <1>4
  <2>. QED BY <1>5, <2>1, AuPiece
<1>7. old \in Seq(Nat) /\ Len(old) = x.size /\ \A k \in 1 .. x.size : old[k] = x.data[k]
  <2>1. \A i \in 1 .. x.size : x.data[i] \in Nat
    <3>. DEFINE d == x.data m == x.size
    <3>1. d \in Seq(Nat) /\ m \in Nat /\ m <= Len(d)
      BY <1>3, <1>4
    <3>. HIDE DEF d, m
    <3>2. \A i \in 1 .. m : d[i] \in Nat
      BY <3>1
    <3>. QED BY <3>2 DEF d, m
  <2>2. /\ old \in Seq(Nat) /\ Len(old) = IF 1 <= x.size THEN x.size - 1 + 1 ELSE 0
        /\ \A k \in 1 .. x.size - 1 + 1 : old[k] = x.data[1 + k - 1]
    BY <1>3, <2>1, SubSeqProperties
  <2>. HIDE DEF old, x
  <2>3. Len(old) = x.size
    BY <1>3, <2>2
  <2>4. \A k \in 1 .. x.size : old[k] = x.data[k]
    BY <1>3, <2>2
  <2>. QED BY <2>2, <2>3, <2>4
<1>8. /\ AuFrames(au_written, n) \in Seq(Nat) /\ Len(AuFrames(au_written, n)) = n
      /\ \A k \in 1 .. n : AuFrames(au_written, n)[k] = au_written + k
  BY <1>5, <1>6, AuFramesAre
<1>. HIDE DEF old, n, x
<1>9. /\ data \in Seq(Nat) /\ Len(data) = x.size + n
      /\ \A k \in 1 .. x.size : data[k] = x.data[k]
      /\ \A k \in 1 .. n : data[x.size + k] = au_written + k
  <2>. DEFINE new == AuFrames(au_written, n) m == x.size
  <2>1. /\ old \in Seq(Nat) /\ Len(old) = m /\ m \in Nat /\ new \in Seq(Nat) /\ Len(new) = n
        /\ \A k \in 1 .. m : old[k] = x.data[k]
        /\ \A k \in 1 .. n : new[k] = au_written + k
    BY <1>3, <1>7, <1>8
  <2>2. data = old \o new
    OBVIOUS
  <2>. HIDE DEF new, m, data
  <2>3. data \in Seq(Nat) /\ Len(data) = m + n
    BY <1>6, <2>1, <2>2, ConcatProperties
  <2>4. \A k \in 1 .. m : data[k] = old[k]
    BY <1>6, <2>1, <2>2, ConcatProperties
  <2>5. \A k \in 1 .. n : data[m + k] = new[k]
    <3>1. \A k \in 1 .. n : m + k \in 1 .. m + n /\ ~ m + k <= m /\ m + k - m = k
      BY <1>6, <2>1
    <3>. QED BY <1>6, <2>1, <2>2, <3>1
  <2>. QED BY <2>1, <2>3, <2>4, <2>5 DEF m
<1>10. y \in AuBuf /\ y.size = x.size + n /\ y.data = data /\ y.sem = x.sem
  BY ONLY <1>3, <1>6, <1>9 DEF AuBuf
<1>11. full = [s EXCEPT !.buf[b].size = @ + n, !.buf[b].data = data]
  <2>1. s \in [set : BOOLEAN, idx : Nat, nb : Nat, frag : Nat, buf : [0 .. s.nb - 1 -> AuBuf], q : Seq(AuEntry)]
    BY <1>1 DEF AuFormed
  <2>2. [[x EXCEPT !.size = @ + n] EXCEPT !.data = data] = y
    <3>. HIDE DEF data
    <3>1. x = [size |-> x.size, data |-> x.data, sem |-> x.sem]
      BY <1>3 DEF AuBuf
    <3>. DEFINE z == [x EXCEPT !.size = x.size + n]
    <3>2. z = [size |-> x.size + n, data |-> x.data, sem |-> x.sem]
      BY <3>1
    <3>. HIDE DEF z
    <3>3. [z EXCEPT !.data = data] = y
      BY <3>2
    <3>. QED BY <3>3 DEF z
  <2>. HIDE DEF data, y
  <2>. QED BY <1>2, <2>1, <2>2 DEF AuPut, x
<1>. HIDE DEF data, y
<1>12. /\ AuFormed(full) /\ AuSame(s, full) /\ full.idx = s.idx /\ full.q = s.q /\ AuOthers(s, full, b)
       /\ full.buf[b] = y
  BY <1>1, <1>2, <1>10, AuBufChanged
<1>13. full.nb = s.nb /\ full.frag = s.frag /\ full.set = s.set
  BY <1>12 DEF AuSame
<1>14. /\ au_written' = au_written + n
       /\ \/ /\ Len(data) < s.frag
             /\ r = AuSem(full, b, 1) /\ AuReturn(t) /\ au_failed' = au_failed
          \/ /\ Len(data) = s.frag
             /\ r = AuQueueFull(full, b)
             /\ IF au_left[t] > n THEN AuGo(t, "wdown", AuQueueFull(full, b).idx, au_left[t] - n) ELSE AuReturn(t)
             /\ au_failed' = au_failed
          \/ Len(data) = s.frag /\ r = full /\ AuReturn(t) /\ au_failed' = TRUE
  BY <1>11, Zenon DEF AuWriteCopy, data, old, n, x
<1>. HIDE DEF full
<1>15. CASE Len(data) < s.frag /\ r = AuSem(full, b, 1) /\ AuReturn(t) /\ au_failed' = au_failed
  <2>1. /\ AuFormed(r) /\ AuSame(full, r) /\ r.idx = full.idx /\ r.q = full.q /\ AuOthers(full, r, b)
        /\ r.buf[b].size = full.buf[b].size /\ r.buf[b].data = full.buf[b].data /\ r.buf[b].sem = 1
    BY <1>2, <1>12, <1>13, <1>15, AuSemIs
  <2>2. AuSame(s, r) /\ AuOthers(s, r, b)
    BY <1>12, <1>13, <2>1 DEF AuSame, AuOthers
  <2>3. /\ r.idx = s.idx /\ r.q = s.q /\ r.buf[b].size = x.size + n /\ r.buf[b].data = data /\ r.buf[b].sem = 1
        /\ x.size + n < s.frag
    BY <1>9, <1>10, <1>12, <1>15, <2>1
  <2>4. n \in Nat /\ n <= au_left[t] /\ x.size + n <= s.frag
    BY <1>3, <1>6, <2>3
  <2>. HIDE DEF r
  <2>. QED BY <1>1, <1>2, <1>9, <1>14, <1>15, <2>1, <2>2, <2>3, <2>4, Zenon DEF AuCopied, x, r
<1>16. CASE /\ Len(data) = s.frag /\ r = AuQueueFull(full, b)
            /\ IF au_left[t] > n THEN AuGo(t, "wdown", AuQueueFull(full, b).idx, au_left[t] - n) ELSE AuReturn(t)
            /\ au_failed' = au_failed
  <2>1. r = AuEnqueue(full, b, s.frag)
    BY <1>13, <1>16 DEF AuQueueFull
  <2>2. /\ AuFormed(r) /\ AuSame(full, r) /\ r.idx = AuAfter(full) /\ r.q = Append(full.q, [b |-> b, n |-> s.frag])
        /\ AuOthers(full, r, b)
        /\ r.buf[b].size = 0 /\ r.buf[b].data = full.buf[b].data /\ r.buf[b].sem = full.buf[b].sem
    <3>1. AuFormed(full) /\ b \in 0 .. full.nb - 1 /\ s.frag \in Nat /\ r = AuEnqueue(full, b, s.frag)
      BY <1>2, <1>3, <1>12, <1>13, <2>1
    <3>. HIDE DEF r
    <3>. QED BY <3>1, AuEnqueueIs
  <2>3. AuSame(s, r) /\ AuOthers(s, r, b)
    BY <1>12, <1>13, <2>2 DEF AuSame, AuOthers
  <2>4. AuAfter(full) = AuAfter(s)
    BY <1>12, <1>13 DEF AuAfter
  <2>5. AuReturn(t) \/ \E left \in Nat : AuGo(t, "wdown", AuAfter(s), left)
    <3>1. CASE au_left[t] > n
      <4>1. au_left[t] - n \in Nat /\ AuGo(t, "wdown", AuAfter(s), au_left[t] - n)
        BY <1>5, <1>6, <1>16, <2>2, <2>4, <3>1
      <4>. QED BY <4>1
    <3>. QED BY <1>16, <3>1
  <2>6. /\ r.idx = AuAfter(s) /\ r.q = Append(s.q, [b |-> b, n |-> s.frag])
        /\ r.buf[b].size = 0 /\ r.buf[b].data = data /\ r.buf[b].sem = x.sem /\ x.size + n = s.frag
    BY <1>9, <1>10, <1>12, <1>16, <2>2, <2>4
  <2>7. n \in Nat /\ n <= au_left[t] /\ x.size + n <= s.frag
    BY <1>3, <1>6, <2>6
  <2>. HIDE DEF r
  <2>. QED BY <1>1, <1>2, <1>9, <1>14, <1>16, <2>2, <2>3, <2>5, <2>6, <2>7, Zenon DEF AuCopied, x, r
<1>17. CASE Len(data) = s.frag /\ r = full /\ AuReturn(t) /\ au_failed' = TRUE
  <2>1. /\ AuFormed(r) /\ AuSame(s, r) /\ AuOthers(s, r, b) /\ r.idx = s.idx /\ r.q = s.q
        /\ r.buf[b].size = x.size + n /\ r.buf[b].data = data /\ r.buf[b].sem = x.sem
    BY <1>10, <1>12, <1>17
  <2>2. n \in Nat /\ n <= au_left[t] /\ x.size + n <= s.frag
    BY <1>6, <1>9, <1>17
  <2>. HIDE DEF r
  <2>. QED BY <1>1, <1>2, <1>9, <1>14, <1>17, <2>1, <2>2, Zenon DEF AuCopied, x, r
<1>. QED BY <1>14, <1>15, <1>16, <1>17

LEMMA AuDmaOutIs ==
  ASSUME AuTyped, AuHeld, AuDmaOut, NEW s, s = output_stream, NEW b, b = s.q[1].b
  PROVE  /\ s.q # <<>> /\ b \in 0 .. s.nb - 1 /\ s.q[1].n \in Nat
         /\ AuFormed(output_stream') /\ AuSame(s, output_stream') /\ AuOthers(s, output_stream', b)
         /\ output_stream'.idx = s.idx /\ output_stream'.q = Tail(s.q)
         /\ output_stream'.buf[b].size = s.buf[b].size /\ output_stream'.buf[b].data = s.buf[b].data
         /\ output_stream'.buf[b].sem = s.buf[b].sem + 1
         /\ au_played' = au_played + s.q[1].n
         /\ au_ok' = (au_ok /\ ("out" \in au_raced \/
                        SubSeq(s.buf[b].data, 1, s.q[1].n) = AuFrames(au_played, s.q[1].n)))
<1>. DEFINE m == s.buf[b].sem + 1
            u == AuSem(s, b, m)
            q == Tail(s.q)
            r == output_stream'
<1>1. AuFormed(s) /\ s.q \in Seq(AuEntry) /\ s.q # <<>>
  BY AuFormedIs, Zenon DEF AuTyped, AuDmaOut
<1>2. s.q[1] = Head(s.q) /\ Len(s.q) \in Nat /\ Len(s.q) >= 1 /\ 1 \in 1 .. Len(s.q) /\ q \in Seq(AuEntry)
  BY <1>1
<1>3. b \in Nat /\ s.q[1].n \in Nat /\ b < s.nb /\ s.nb \in Nat
  BY <1>1, <1>2, AuFormedIs DEF AuHeld
<1>4. b \in 0 .. s.nb - 1 /\ s.buf[b].sem + 1 \in Nat
  <2>1. b \in 0 .. s.nb - 1
    BY <1>3
  <2>2. s.buf[b].sem \in Nat
    BY <1>1, <2>1, AuFormedIs
  <2>. QED BY <2>1, <2>2
<1>5. r = [u EXCEPT !.q = q]
  BY <1>2, Zenon DEF AuDmaOut
<1>6. /\ AuFormed(u) /\ AuSame(s, u) /\ u.idx = s.idx /\ u.q = s.q /\ AuOthers(s, u, b)
      /\ u.buf[b].size = s.buf[b].size /\ u.buf[b].data = s.buf[b].data /\ u.buf[b].sem = m
  <2>1. AuFormed(s) /\ b \in 0 .. s.nb - 1 /\ m \in Nat /\ u = AuSem(s, b, m)
    BY <1>1, <1>4
  <2>. HIDE DEF u, m
  <2>. QED BY <2>1, AuSemIs
<1>7. au_played' = au_played + s.q[1].n /\
      au_ok' = (au_ok /\ ("out" \in au_raced \/
                        SubSeq(s.buf[b].data, 1, s.q[1].n) = AuFrames(au_played, s.q[1].n)))
  BY <1>2, Zenon DEF AuDmaOut
<1>. HIDE DEF u, q
<1>8. AuFormed(r) /\ r.q = q
  BY <1>2, <1>5, <1>6, AuQueueFormed
<1>9. r.set = u.set /\ r.nb = u.nb /\ r.frag = u.frag /\ r.buf = u.buf /\ r.idx = u.idx
  BY <1>5, <1>6 DEF AuFormed
<1>10. AuSame(s, r) /\ AuOthers(s, r, b)
  BY <1>6, <1>9 DEF AuSame, AuOthers
<1>11. r.buf[b].size = s.buf[b].size /\ r.buf[b].data = s.buf[b].data /\ r.buf[b].sem = s.buf[b].sem + 1
  BY <1>6, <1>9
<1>12. r.idx = s.idx /\ r.q = Tail(s.q)
  BY <1>6, <1>8, <1>9 DEF q
<1>. QED BY ONLY <1>1, <1>3, <1>4, <1>7, <1>8, <1>10, <1>11, <1>12

(* n frames of buffer b have been read: some are left in it, or it goes     *)
(* back to the DMA.                                                        *)
AuReadOut(t, s, b, n) ==
  /\ n <= s.buf[b].size /\ au_heard' = au_heard + n
  /\ au_ok' = (au_ok /\ ("in" \in au_raced \/ AuReadFrom(s, b, n) = AuFrames(au_heard, n)))
  /\ \/ /\ n < s.buf[b].size
        /\ input_stream'.idx = s.idx /\ input_stream'.q = s.q
        /\ input_stream'.buf[b].size = s.buf[b].size - n /\ input_stream'.buf[b].sem = 1
        /\ AuReturn(t)
     \/ /\ n = s.buf[b].size
        /\ input_stream'.idx = AuAfter(s)
        /\ input_stream'.q = Append(s.q, [b |-> b, n |-> s.frag])
        /\ input_stream'.buf[b].size = 0 /\ input_stream'.buf[b].sem = s.buf[b].sem
        /\ \/ AuReturn(t)
           \/ \E left \in Nat : AuGo(t, "rdown", AuAfter(s), left)

LEMMA AuReadCopyIs ==
  ASSUME AuTyped, AuHeld, NEW t \in AuThreads, AuReadCopy(t), NEW s, s = input_stream, NEW b, b = au_b[t]
  PROVE  /\ au_pc[t] = "rcopy" /\ b \in 0 .. s.nb - 1
         /\ AuFormed(input_stream') /\ AuSame(s, input_stream') /\ AuOthers(s, input_stream', b)
         /\ input_stream'.buf[b].data = s.buf[b].data
         /\ \E n \in Nat : AuReadOut(t, s, b, n)
<1>. DEFINE x == s.buf[b]
            n == AuFewer(x.size, au_left[t])
            y == [x EXCEPT !.size = x.size - n]
            less == AuPut(s, b, y)
            r == input_stream'
<1>1. au_pc[t] = "rcopy" /\ au_pc[t] \in AuInput /\ AuFormed(s) /\ b \in Nat /\ b < s.nb
  BY DEF AuTyped, AuHeld, AuReadCopy, AuInput
<1>2. b \in 0 .. s.nb - 1
  BY <1>1, AuFormedIs
<1>3. x \in AuBuf /\ x.size \in Nat /\ x.sem \in Nat /\ x.data \in Seq(Nat) /\ s.frag \in Nat /\ s.idx \in Nat
  BY <1>1, <1>2, AuFormedIs
<1>4. au_left[t] \in Nat /\ au_heard \in Nat
  BY DEF AuTyped
<1>5. n \in Nat /\ n <= x.size /\ n <= au_left[t]
  BY <1>3, <1>4, AuPiece
<1>. HIDE DEF n, x
<1>6. y \in AuBuf /\ y.size = x.size - n /\ y.data = x.data /\ y.sem = x.sem
  <2>1. x.size - n \in Nat
    BY <1>3, <1>5
  <2>. QED BY <1>3, <2>1 DEF AuBuf
<1>7. less = [s EXCEPT !.buf[b].size = @ - n]
  <2>1. s \in [set : BOOLEAN, idx : Nat, nb : Nat, frag : Nat, buf : [0 .. s.nb - 1 -> AuBuf], q : Seq(AuEntry)]
    BY <1>1 DEF AuFormed
  <2>. QED BY <1>2, <2>1 DEF AuPut, x
<1>. HIDE DEF y
<1>8. /\ AuFormed(less) /\ AuSame(s, less) /\ less.idx = s.idx /\ less.q = s.q /\ AuOthers(s, less, b)
      /\ less.buf[b] = y
  BY <1>1, <1>2, <1>6, AuBufChanged
<1>9. less.nb = s.nb /\ less.frag = s.frag /\ less.set = s.set
  BY <1>8 DEF AuSame
<1>10. /\ au_heard' = au_heard + n
       /\ au_ok' = (au_ok /\ ("in" \in au_raced \/ AuReadFrom(s, b, n) = AuFrames(au_heard, n)))
       /\ IF n < x.size
            THEN r = AuSem(less, b, 1) /\ AuReturn(t)
            ELSE /\ r = AuEnqueue(less, b, s.frag)
                 /\ IF au_left[t] > n THEN AuGo(t, "rdown", r.idx, au_left[t] - n) ELSE AuReturn(t)
  BY <1>7 DEF AuReadCopy, n, x
<1>. HIDE DEF less
<1>11. CASE n < x.size
  <2>1. /\ AuFormed(r) /\ AuSame(less, r) /\ r.idx = less.idx /\ r.q = less.q /\ AuOthers(less, r, b)
        /\ r.buf[b].size = less.buf[b].size /\ r.buf[b].data = less.buf[b].data /\ r.buf[b].sem = 1
    BY ONLY <1>2, <1>8, <1>9, <1>10, <1>11, AuSemIs
  <2>2. AuSame(s, r) /\ AuOthers(s, r, b)
    BY <1>8, <1>9, <2>1 DEF AuSame, AuOthers
  <2>. HIDE DEF r
  <2>. QED BY <1>1, <1>2, <1>5, <1>6, <1>8, <1>10, <1>11, <2>1, <2>2 DEF AuReadOut, x, r
<1>12. CASE ~ n < x.size
  <2>1. n = x.size
    BY <1>3, <1>5, <1>12
  <2>2. /\ AuFormed(r) /\ AuSame(less, r) /\ r.idx = AuAfter(less) /\ r.q = Append(less.q, [b |-> b, n |-> s.frag])
        /\ AuOthers(less, r, b)
        /\ r.buf[b].size = 0 /\ r.buf[b].data = less.buf[b].data /\ r.buf[b].sem = less.buf[b].sem
    <3>1. AuFormed(less) /\ b \in 0 .. less.nb - 1 /\ s.frag \in Nat /\ r = AuEnqueue(less, b, s.frag)
      BY <1>2, <1>3, <1>8, <1>9, <1>10, <1>12
    <3>. HIDE DEF r
    <3>. QED BY ONLY <3>1, AuEnqueueIs
  <2>3. AuSame(s, r) /\ AuOthers(s, r, b)
    BY <1>8, <1>9, <2>2 DEF AuSame, AuOthers
  <2>4. AuAfter(less) = AuAfter(s)
    BY <1>8, <1>9 DEF AuAfter
  <2>5. AuReturn(t) \/ \E left \in Nat : AuGo(t, "rdown", AuAfter(s), left)
    <3>1. CASE au_left[t] > n
      <4>1. au_left[t] - n \in Nat /\ AuGo(t, "rdown", AuAfter(s), au_left[t] - n)
        BY <1>4, <1>5, <1>10, <1>12, <2>2, <2>4, <3>1
      <4>. QED BY <4>1
    <3>. QED BY <1>10, <1>12, <3>1
  <2>. HIDE DEF r
  <2>. QED BY <1>1, <1>2, <1>5, <1>6, <1>8, <1>10, <2>1, <2>2, <2>3, <2>4, <2>5 DEF AuReadOut, x, r
<1>. QED BY <1>11, <1>12

LEMMA AuDmaInIs ==
  ASSUME AuTyped, AuDmaIn, ~ au_oops', NEW s, s = input_stream, NEW b, b = s.q[1].b, NEW n, n = s.q[1].n
  PROVE  /\ s.q # <<>> /\ b \in Nat /\ n \in Nat /\ n # 0
         /\ au_taped' = au_taped + n
         /\ AuFormed(input_stream') /\ AuSame(s, input_stream') /\ AuOthers(s, input_stream', b)
         /\ input_stream'.idx = s.idx /\ input_stream'.q = Tail(s.q)
         /\ b \in 0 .. s.nb - 1 =>
              input_stream'.buf[b] = [size |-> n, data |-> AuFrames(au_taped, n), sem |-> s.buf[b].sem + 1]
<1>. DEFINE x == s.buf[b]
            y == [size |-> n, data |-> AuFrames(au_taped, n), sem |-> x.sem + 1]
            q == Tail(s.q)
            r == input_stream'
<1>1. AuFormed(s) /\ s.q \in Seq(AuEntry) /\ s.q # <<>>
  BY AuFormedIs DEF AuTyped, AuDmaIn
<1>2. s.q[1] = Head(s.q) /\ Len(s.q) \in Nat /\ Len(s.q) >= 1 /\ 1 \in 1 .. Len(s.q) /\ q \in Seq(AuEntry)
  BY <1>1
<1>3. b \in Nat /\ n \in Nat /\ s.nb \in Nat /\ au_taped \in Nat
  BY <1>1, <1>2, AuFormedIs DEF AuTyped
<1>4. n # 0 /\ au_taped' = au_taped + n /\ r = [s EXCEPT !.q = q, !.buf[b] = [size |-> n, data |-> AuFrames(au_taped, n), sem |-> @.sem + 1]]
  BY <1>2 DEF AuDmaIn
<1>5. s \in [set : BOOLEAN, idx : Nat, nb : Nat, frag : Nat, buf : [0 .. s.nb - 1 -> AuBuf], q : Seq(AuEntry)]
  BY <1>1 DEF AuFormed
<1>6. AuFrames(au_taped, n) \in Seq(Nat)
  BY <1>3, AuFramesAre
<1>7. CASE b \in 0 .. s.nb - 1
  <2>1. y \in AuBuf
    <3>1. x.sem + 1 \in Nat
      BY ONLY <1>1, <1>7, AuFormedIs
    <3>. QED BY <1>3, <1>6, <3>1 DEF AuBuf
  <2>2. r = [AuPut(s, b, y) EXCEPT !.q = q]
    BY <1>4, <1>5, <1>7 DEF AuPut
  <2>. DEFINE u == AuPut(s, b, y)
  <2>. HIDE DEF y, q
  <2>3. AuFormed(u) /\ AuSame(s, u) /\ u.idx = s.idx /\ u.q = s.q /\ AuOthers(s, u, b) /\ u.buf[b] = y
    BY <1>1, <1>7, <2>1, AuBufChanged
  <2>. HIDE DEF u
  <2>4. AuFormed(r) /\ r.q = q
    BY <1>2, <2>2, <2>3, AuQueueFormed DEF u
  <2>5. r.set = u.set /\ r.nb = u.nb /\ r.frag = u.frag /\ r.buf = u.buf /\ r.idx = u.idx
    BY <2>2, <2>3 DEF AuFormed, u
  <2>6. AuSame(s, r) /\ AuOthers(s, r, b)
    BY <2>3, <2>5 DEF AuSame, AuOthers
  <2>7. r.buf[b] = [size |-> n, data |-> AuFrames(au_taped, n), sem |-> s.buf[b].sem + 1] /\ r.idx = s.idx
    BY <2>3, <2>5 DEF y, x
  <2>8. r.q = Tail(s.q)
    BY ONLY <2>4, Zenon DEF q
  <2>. QED BY ONLY <1>1, <1>3, <1>4, <2>4, <2>6, <2>7, <2>8
<1>8. CASE b \notin 0 .. s.nb - 1
  <2>1. r = [s EXCEPT !.q = q]
    <3>. DEFINE z == [size |-> n, data |-> AuFrames(au_taped, n), sem |-> s.buf[b].sem + 1]
    <3>1. r = [[s EXCEPT !.q = q] EXCEPT !.buf = [s.buf EXCEPT ![b] = z]]
      BY <1>4, <1>5
    <3>2. [s.buf EXCEPT ![b] = z] = s.buf
      BY <1>5, <1>8
    <3>. HIDE DEF z
    <3>. QED BY <1>5, <3>1, <3>2
  <2>. HIDE DEF q
  <2>2. AuFormed(r) /\ r.q = q
    BY <1>1, <1>2, <2>1, AuQueueFormed
  <2>3. r.set = s.set /\ r.nb = s.nb /\ r.frag = s.frag /\ r.buf = s.buf /\ r.idx = s.idx
    BY <1>5, <2>1
  <2>. QED BY <1>1, <1>3, <1>4, <1>8, <2>2, <2>3 DEF AuSame, AuOthers, q
<1>. QED BY <1>7, <1>8

LEMMA AuPrevious ==
  ASSUME NEW n \in Nat, NEW i \in Nat, i < n
  PROVE  (n + i - 1) % n = IF i = 0 THEN n - 1 ELSE i - 1
<1>1. CASE i = 0
  BY <1>1
<1>2. CASE i # 0
  <2>1. n + i - 1 = (i - 1) + 1 * n /\ i - 1 \in 0 .. n - 1
    BY <1>2
  <2>. QED BY <1>2, <2>1
<1>. QED BY <1>1, <1>2

LEMMA AuPrevIs ==
  ASSUME NEW s, AuFormed(s), s.set
  PROVE  /\ AuPrev(s) = IF s.idx = 0 THEN s.nb - 1 ELSE s.idx - 1
         /\ AuPrev(s) \in 0 .. s.nb - 1 /\ s.idx \in 0 .. s.nb - 1
         /\ AuAfter(s) \in 0 .. s.nb - 1
         /\ \A r : r.nb = s.nb /\ r.idx = AuAfter(s) => AuPrev(r) = s.idx
<1>1. s.nb \in Nat /\ s.idx \in Nat /\ s.idx < s.nb /\ s.nb >= 2
  BY AuFormedIs
<1>2. AuPrev(s) = IF s.idx = 0 THEN s.nb - 1 ELSE s.idx - 1
  BY <1>1, AuPrevious DEF AuPrev
<1>3. AuAfter(s) \in Nat /\ AuAfter(s) < s.nb
  BY <1>1 DEF AuAfter
<1>4. ASSUME NEW r, r.nb = s.nb, r.idx = AuAfter(s)
      PROVE  AuPrev(r) = s.idx
  <2>1. AuPrev(r) = IF AuAfter(s) = 0 THEN s.nb - 1 ELSE AuAfter(s) - 1
    BY <1>1, <1>3, <1>4, AuPrevious DEF AuPrev
  <2>. QED BY <1>1, <2>1 DEF AuAfter
<1>. QED BY <1>1, <1>2, <1>3, <1>4

LEMMA AuSyncDownIs ==
  ASSUME AuTyped, AuHeld, NEW t \in AuThreads, AuSyncDown(t), NEW s, s = output_stream, NEW b, b = au_b[t]
  PROVE  /\ au_pc[t] = "sdown" /\ b \in 0 .. s.nb - 1 /\ s.buf[b].sem = 1 /\ s.set
         /\ AuFormed(output_stream') /\ AuSame(s, output_stream') /\ AuOthers(s, output_stream', b)
         /\ output_stream'.idx = AuAfter(s)
         /\ \/ output_stream'.q = Append(s.q, [b |-> b, n |-> s.buf[b].size])
            \/ output_stream'.q = s.q /\ au_failed'
         /\ output_stream'.buf[b].size = 0 /\ output_stream'.buf[b].data = s.buf[b].data
         /\ output_stream'.buf[b].sem = 0
         /\ AuGo(t, "swait", s.idx, 0)
<1>. DEFINE u == AuSem(s, b, 0)
            m == u.buf[b].size
            r == AuEnqueue(u, b, m)
<1>1. au_pc[t] = "sdown" /\ au_pc[t] \in AuOut /\ AuFormed(s) /\ b \in Nat /\ b < s.nb /\ s.set /\ s.buf[b].sem = 1
  BY DEF AuTyped, AuHeld, AuSyncDown, AuOut
<1>2. b \in 0 .. s.nb - 1
  BY <1>1, AuFormedIs
<1>3. s.buf[b].size \in Nat
  BY <1>1, <1>2, AuFormedIs
<1>4. /\ output_stream' = r \/ (output_stream' = [r EXCEPT !.q = u.q] /\ au_failed')
      /\ AuGo(t, "swait", AuPrev(r), 0)
  BY DEF AuSyncDown
<1>. HIDE DEF u
<1>5. /\ AuFormed(u) /\ AuSame(s, u) /\ u.idx = s.idx /\ u.q = s.q /\ AuOthers(s, u, b)
      /\ u.buf[b].size = s.buf[b].size /\ u.buf[b].data = s.buf[b].data /\ u.buf[b].sem = 0
  <2>1. u = AuSem(s, b, 0)
    BY DEF u
  <2>. QED BY <1>1, <1>2, <2>1, AuSemIs
<1>6. u.nb = s.nb /\ u.frag = s.frag /\ u.set = s.set /\ AuAfter(u) = AuAfter(s)
  BY <1>5 DEF AuSame, AuAfter
<1>7. b \in 0 .. u.nb - 1 /\ m \in Nat /\ m = s.buf[b].size
  BY <1>2, <1>3, <1>5, <1>6
<1>. HIDE DEF m
<1>8. /\ AuFormed(r) /\ AuSame(u, r) /\ r.idx = AuAfter(u) /\ r.q = Append(u.q, [b |-> b, n |-> m])
      /\ AuOthers(u, r, b)
      /\ r.buf[b].size = 0 /\ r.buf[b].data = u.buf[b].data /\ r.buf[b].sem = u.buf[b].sem
  <2>1. AuFormed(u) /\ b \in 0 .. u.nb - 1 /\ m \in Nat
    BY <1>5, <1>7
  <2>. QED BY <2>1, AuEnqueueIs
<1>. HIDE DEF r
<1>9. AuSame(s, r) /\ AuOthers(s, r, b) /\ r.nb = s.nb
  BY <1>5, <1>6, <1>8 DEF AuSame, AuOthers
<1>10. AuPrev(r) = s.idx
  BY <1>1, <1>6, <1>8, <1>9, AuPrevIs
<1>11. CASE output_stream' = r
  BY <1>1, <1>2, <1>4, <1>5, <1>6, <1>7, <1>8, <1>9, <1>10, <1>11, Zenon
<1>12. CASE output_stream' = [r EXCEPT !.q = u.q] /\ au_failed'
  <2>. DEFINE z == output_stream'
  <2>1. s.q \in Seq(AuEntry)
    BY <1>1, AuFormedIs
  <2>2. AuFormed(z) /\ z.q = s.q
    BY <1>5, <1>8, <1>12, <2>1, AuQueueFormed
  <2>3. z.set = r.set /\ z.nb = r.nb /\ z.frag = r.frag /\ z.idx = r.idx /\ z.buf = r.buf
    BY <1>8, <1>12 DEF AuFormed
  <2>. HIDE DEF z
  <2>4. AuSame(s, z) /\ AuOthers(s, z, b) /\ z.idx = AuAfter(s)
    BY <1>6, <1>8, <1>9, <2>3 DEF AuSame, AuOthers
  <2>. QED BY <1>1, <1>2, <1>4, <1>5, <1>8, <1>10, <1>12, <2>2, <2>3, <2>4, Zenon DEF z
<1>. QED BY <1>4, <1>11, <1>12

(* The first read: all buffers are the DMA's.                              *)
LEMMA AuFirstReadIs ==
  ASSUME AuTyped, NEW t \in AuThreads, NEW count, AuRead(t, count), ~ input_stream.set,
         ~ UNCHANGED <<input_stream, auCalls>>,
         NEW s, s = input_stream, NEW r, r = input_stream'
  PROVE  /\ AuFormed(r) /\ r.set /\ r.idx = 0
         /\ r.q \in Seq(AuEntry) /\ Len(r.q) = Len(s.q) + r.nb
         /\ \A i \in 1 .. Len(s.q) : r.q[i] = s.q[i]
         /\ \A i \in 1 .. r.nb : r.q[Len(s.q) + i] = [b |-> i - 1, n |-> r.frag]
         /\ \A b \in 0 .. r.nb - 1 : r.buf[b].sem = 0 /\ r.buf[b].size = 0
<1>. DEFINE z == AuSetup(au_shape)
            B == [i \in DOMAIN z.buf |-> [z.buf[i] EXCEPT !.sem = 0]]
            new == [i \in 1 .. z.nb |-> [b |-> i - 1, n |-> z.frag]]
            q == s.q \o new
            x == [size |-> 0, data |-> <<>>, sem |-> 0]
<1>1. au_shape \in (Nat \ {0, 1}) \X (Nat \ {0}) /\ AuFormed(s)
  BY DEF AuTyped
<1>2. r = [z EXCEPT !.buf = B, !.q = q]
  BY DEF AuRead
<1>3. /\ AuFormed(z) /\ z.set /\ z.idx = 0 /\ z.nb = au_shape[1] /\ z.frag = au_shape[2]
      /\ \A b \in 0 .. z.nb - 1 : z.buf[b] = [size |-> 0, data |-> <<>>, sem |-> 1]
  BY <1>1, AuSetupFormed
<1>. HIDE DEF z
<1>4. s.q \in Seq(AuEntry) /\ z.nb \in Nat /\ z.frag \in Nat /\ DOMAIN z.buf = 0 .. z.nb - 1
      /\ z.nb >= 2 /\ z.frag >= 1
  BY <1>1, <1>3, AuFormedIs
<1>5. \A b \in 0 .. z.nb - 1 : B[b] = x
  BY <1>3, <1>4
<1>6. x \in AuBuf
  <2>1. <<>> \in Seq(Nat)
    OBVIOUS
  <2>. QED BY <2>1 DEF AuBuf
<1>7. B \in [0 .. z.nb - 1 -> AuBuf]
  <2>1. B = [i \in 0 .. z.nb - 1 |-> x]
    BY <1>4, <1>5
  <2>. HIDE DEF B, x
  <2>. QED BY <1>6, <2>1
<1>8. new \in Seq(AuEntry) /\ Len(new) = z.nb /\ \A i \in 1 .. z.nb : new[i] = [b |-> i - 1, n |-> z.frag]
  <2>1. \A i \in 1 .. z.nb : [b |-> i - 1, n |-> z.frag] \in AuEntry
    BY <1>4 DEF AuEntry
  <2>. QED BY <1>4, <2>1
<1>. HIDE DEF B, new
<1>9. /\ q \in Seq(AuEntry) /\ Len(q) = Len(s.q) + z.nb
      /\ \A i \in 1 .. Len(s.q) : q[i] = s.q[i]
      /\ \A i \in 1 .. z.nb : q[Len(s.q) + i] = new[i]
  <2>1. /\ q \in Seq(AuEntry) /\ Len(q) = Len(s.q) + Len(new)
        /\ \A i \in 1 .. Len(s.q) + Len(new) : q[i] = IF i <= Len(s.q) THEN s.q[i] ELSE new[i - Len(s.q)]
    <3>1. s.q \in Seq(AuEntry) /\ new \in Seq(AuEntry)
      BY <1>4, <1>8
    <3>. QED BY <3>1, ConcatProperties
  <2>2. Len(s.q) \in Nat
    BY <1>4
  <2>. HIDE DEF q
  <2>. DEFINE m == Len(s.q)
  <2>. HIDE DEF m
  <2>3. \A i \in 1 .. z.nb : m + i \in 1 .. m + z.nb /\ ~ m + i <= m /\ m + i - m = i
    BY <1>4, <2>2 DEF m
  <2>4. \A i \in 1 .. m : q[i] = s.q[i]
    BY <1>4, <1>8, <2>1, <2>2 DEF m
  <2>5. \A i \in 1 .. z.nb : q[m + i] = new[i]
    BY <1>8, <2>1, <2>3 DEF m
  <2>. QED BY <1>8, <2>1, <2>4, <2>5 DEF m
<1>. HIDE DEF q
<1>10. r \in [set : BOOLEAN, idx : Nat, nb : Nat, frag : Nat, buf : [0 .. z.nb - 1 -> AuBuf], q : Seq(AuEntry)]
       /\ r.set /\ r.idx = 0 /\ r.nb = z.nb /\ r.frag = z.frag /\ r.buf = B /\ r.q = q
  BY <1>2, <1>3, <1>7, <1>9 DEF AuFormed
<1>11. AuFormed(r)
  BY <1>4, <1>10 DEF AuFormed
<1>12. r.q \in Seq(AuEntry) /\ Len(r.q) = Len(s.q) + r.nb /\ \A i \in 1 .. Len(s.q) : r.q[i] = s.q[i]
  BY <1>9, <1>10
<1>13. \A i \in 1 .. r.nb : r.q[Len(s.q) + i] = [b |-> i - 1, n |-> r.frag]
  BY <1>8, <1>9, <1>10
<1>14. \A b \in 0 .. r.nb - 1 : r.buf[b].sem = 0 /\ r.buf[b].size = 0
  BY <1>5, <1>10
<1>. QED BY <1>10, <1>11, <1>12, <1>13, <1>14

LEMMA AuSetupAsIs ==
  ASSUME AuTyped, NEW f, NEW first, NEW shape \in (Nat \ {0, 1}) \X (Nat \ {0}), AuSetupAs(f, shape, first)
  PROVE  /\ AuFormed(output_stream') /\ AuSizes(output_stream') /\ AuFormed(input_stream')
         /\ \/ output_stream' = output_stream
            \/ ~ output_stream.set /\ AuPlayer(f) /\ output_stream' = AuSetup(shape)
         /\ \/ input_stream' = input_stream
            \/ /\ ~ input_stream.set /\ AuRecorder(f)
               /\ input_stream'.set /\ input_stream'.idx = 0 /\ input_stream'.q = input_stream.q
               /\ \A b \in 0 .. input_stream'.nb - 1 : input_stream'.buf[b].size = 0
<1>1. AuFormed(output_stream) /\ AuSizes(output_stream) /\ AuFormed(input_stream)
  BY DEF AuTyped
<1>. DEFINE z == AuSetup(shape)
<1>2. /\ AuFormed(z) /\ AuSizes(z) /\ z.set /\ z.idx = 0
      /\ \A b \in 0 .. shape[1] - 1 : z.buf[b] = [size |-> 0, data |-> <<>>, sem |-> 1]
      /\ z.nb = shape[1]
  BY AuSetupFormed, AuSetupSizes
<1>3. /\ output_stream' = output_stream \/ (~ output_stream.set /\ AuPlayer(f) /\ output_stream' = z)
      /\ \/ input_stream' = input_stream
         \/ ~ input_stream.set /\ AuRecorder(f) /\ input_stream' = [z EXCEPT !.q = input_stream.q]
  BY DEF AuSetupAs
<1>. HIDE DEF z
<1>4. CASE ~ input_stream.set /\ AuRecorder(f) /\ input_stream' = [z EXCEPT !.q = input_stream.q]
  <2>1. input_stream.q \in Seq(AuEntry)
    BY <1>1, AuFormedIs
  <2>2. input_stream' = [z EXCEPT !.q = input_stream.q]
    BY <1>3, <1>4
  <2>3. AuFormed(input_stream') /\ input_stream'.q = input_stream.q
    BY <1>2, <2>1, <2>2, AuQueueFormed
  <2>4. input_stream'.set /\ input_stream'.idx = 0 /\ input_stream'.nb = z.nb /\ input_stream'.buf = z.buf
    BY <1>2, <2>2 DEF AuFormed
  <2>5. \A b \in 0 .. input_stream'.nb - 1 : input_stream'.buf[b].size = 0
    BY <1>2, <2>4
  <2>. QED BY <1>1, <1>2, <1>3, <1>4, <2>3, <2>4, <2>5 DEF z
<1>5. CASE input_stream' = input_stream
  BY <1>1, <1>2, <1>3, <1>5 DEF z
<1>. QED BY <1>3, <1>4, <1>5

LEMMA AuTypedNext == AuBase /\ [AuNext]_auVars => AuTyped'
<1>. SUFFICES ASSUME AuBase, [AuNext]_auVars PROVE AuTyped'
  OBVIOUS
<1>. DEFINE Threads == /\ au_pc' \in [AuThreads -> AuPlaces] /\ au_b' \in [AuThreads -> Nat]
                       /\ au_left' \in [AuThreads -> Nat]
            Out == AuFormed(output_stream') /\ AuSizes(output_stream')
<1>1. AuTyped
  BY DEF AuBase
<1>2. /\ au_files \subseteq {"r", "w", "rw"} /\ au_shape \in (Nat \ {0, 1}) \X (Nat \ {0})
      /\ AuFormed(output_stream) /\ AuFormed(input_stream) /\ AuSizes(output_stream)
      /\ au_pc \in [AuThreads -> AuPlaces] /\ au_b \in [AuThreads -> Nat] /\ au_left \in [AuThreads -> Nat]
      /\ au_written \in Nat /\ au_played \in Nat /\ au_taped \in Nat /\ au_heard \in Nat
  BY <1>1 DEF AuTyped
<1>3. {"user", "wdown", "wcopy", "sdown", "swait", "synced", "rdown", "rcopy"} \subseteq AuPlaces
  BY DEF AuPlaces, AuOut, AuInput
<1>4. \A t \in AuThreads : au_b[t] \in Nat /\ au_left[t] \in Nat
  BY <1>2
<1>5. \A t \in AuThreads, p \in AuPlaces, b \in Nat, left \in Nat : AuGo(t, p, b, left) => Threads
  BY <1>1, AuWent
<1>6. \A t \in AuThreads : AuReturn(t) => Threads
  BY <1>3, <1>5 DEF AuReturn
<1>7. AuClearOut => Out /\ au_played' \in Nat
  BY <1>2, AuEmpty DEF AuClearOut
<1>8. AuClearIn => AuFormed(input_stream') /\ au_heard' \in Nat
  BY <1>2, AuClearedIn
<1>9. AuReleaseDone => Out /\ au_played' \in Nat /\ au_files' \subseteq au_files /\ UNCHANGED <<au_shape, au_written, au_taped>>
  BY <1>7 DEF AuReleaseDone
<1>10. ASSUME NEW t \in AuThreads, AuSyncFrom(t), output_stream.set PROVE Threads
  <2>1. AuPrev(output_stream) \in Nat /\ output_stream.idx \in Nat
    BY <1>2, <1>10, AuPrevIs, AuFormedIs
  <2>2. AuGo(t, "sdown", output_stream.idx, 0) \/ AuGo(t, "swait", AuPrev(output_stream), 0)
    BY <1>10 DEF AuSyncFrom
  <2>. QED BY <1>3, <1>5, <2>1, <2>2
<1>. HIDE DEF Threads, Out
<1>11. CASE UNCHANGED auVars
  BY <1>11, <1>1 DEF auVars, auCalls, auSound, AuTyped
<1>12. CASE AuNext
  <2>1. AuHeld
    BY <1>12 DEF AuBase, AuNext
  <2>2. ASSUME NEW mode \in AuModes, AuOpen(mode) PROVE AuTyped'
    <3>1. mode \in {"r", "w", "rw"} /\ AuDefault \in (Nat \ {0, 1}) \X (Nat \ {0})
      BY AudioAssumption
    <3>. QED BY <1>2, <2>2, <3>1 DEF AuOpen, AuTyped, auCalls, auSound
  <2>3. CASE AuReleaseIn
    BY <1>2, <1>8, <2>3 DEF AuReleaseIn, AuTyped, auCalls
  <2>4. CASE AuDmaOut
    <3>. DEFINE s == output_stream b == output_stream.q[1].b
    <3>1. /\ b \in 0 .. s.nb - 1 /\ s.q[1].n \in Nat /\ AuFormed(s') /\ AuSame(s, s') /\ AuOthers(s, s', b)
          /\ s'.buf[b].size = s.buf[b].size /\ s'.buf[b].data = s.buf[b].data
          /\ au_played' = au_played + s.q[1].n
      BY <1>1, <2>1, <2>4, AuDmaOutIs
    <3>2. s'.buf[b].size <= s.frag /\ s'.buf[b].size <= Len(s'.buf[b].data)
      BY <1>2, <3>1 DEF AuSizes
    <3>3. AuSizes(s')
      BY <1>2, <3>1, <3>2, AuSizesKept
    <3>4. au_played' \in Nat
      BY <1>2, <3>1
    <3>. QED BY <1>2, <2>4, <3>1, <3>3, <3>4, Zenon DEF AuDmaOut, AuTyped, auCalls
  <2>5. CASE AuDmaIn
    <3>1. CASE au_oops'
      <4>1. ~ au_oops
        BY <1>12 DEF AuNext
      <4>. QED BY <1>2, <2>5, <3>1, <4>1 DEF AuDmaIn, AuTyped, auCalls
    <3>2. CASE ~ au_oops'
      <4>1. AuFormed(input_stream') /\ au_taped' \in Nat
        <5>. DEFINE n == input_stream.q[1].n
        <5>1. AuFormed(input_stream') /\ n \in Nat /\ au_taped' = au_taped + n
          BY <1>1, <2>5, <3>2, AuDmaInIs
        <5>. QED BY <1>2, <5>1
      <4>. QED BY <1>2, <2>5, <4>1 DEF AuDmaIn, AuTyped, auCalls
    <3>. QED BY <3>1, <3>2
  <2>6. ASSUME NEW t \in AuThreads, AuRelease(t) PROVE AuTyped'
    <3>1. AuFormed(input_stream') /\ au_heard' \in Nat
      BY <1>2, <1>8, <2>6 DEF AuRelease
    <3>2. CASE output_stream.set
      <4>1. Threads
        BY <1>10, <2>6, <3>2 DEF AuRelease
      <4>. QED BY <1>2, <2>6, <3>1, <3>2, <4>1 DEF AuRelease, AuTyped, Threads
    <3>3. CASE ~ output_stream.set
      BY <1>2, <1>9, <2>6, <3>1, <3>3 DEF AuRelease, AuTyped, auCalls, Out
    <3>. QED BY <3>2, <3>3
  <2>7. ASSUME NEW t \in AuThreads, AuSync(t) PROVE AuTyped'
    BY <1>2, <1>10, <2>7 DEF AuSync, AuTyped, Threads, auSound
  <2>8. ASSUME NEW t \in AuThreads, AuSyncDown(t) PROVE AuTyped'
    <3>. DEFINE s == output_stream b == au_b[t]
    <3>1. /\ b \in 0 .. s.nb - 1 /\ AuFormed(s') /\ AuSame(s, s') /\ AuOthers(s, s', b)
          /\ s'.buf[b].size = 0 /\ AuGo(t, "swait", s.idx, 0)
      BY <1>1, <2>1, <2>8, AuSyncDownIs
    <3>2. s'.buf[b].size <= s.frag /\ s'.buf[b].size <= Len(s'.buf[b].data) /\ s.idx \in Nat
      <4>1. s'.nb = s.nb /\ s.frag \in Nat /\ s.idx \in Nat
        BY <1>2, <3>1, AuFormedIs DEF AuSame
      <4>2. s'.buf[b].data \in Seq(Nat)
        BY <3>1, <4>1, AuFormedIs
      <4>. QED BY <3>1, <4>1, <4>2
    <3>3. AuSizes(s')
      BY <1>2, <3>1, <3>2, AuSizesKept
    <3>4. Threads
      BY <1>3, <1>5, <3>1, <3>2
    <3>. QED BY <1>2, <2>8, <3>1, <3>3, <3>4 DEF AuSyncDown, AuTyped, auSound, Threads
  <2>9. ASSUME NEW t \in AuThreads, AuSyncDone(t) PROVE AuTyped'
    BY <1>2, <1>3, <1>5, <2>9 DEF AuSyncDone, AuTyped, auSound, Threads
  <2>10. ASSUME NEW t \in AuThreads, AuSyncReturn(t) PROVE AuTyped'
    BY <1>2, <1>6, <1>9, <2>10 DEF AuSyncReturn, AuTyped, auSound, Threads, Out
  <2>11. ASSUME NEW t \in AuThreads, AuWriteDown(t) \/ AuWriteFault(t) PROVE AuTyped'
    <3>. DEFINE s == output_stream b == au_b[t]
    <3>1. b \in 0 .. s.nb - 1
      <4>1. au_pc[t] \in AuOut /\ s.nb \in Nat
        BY <1>2, <2>11, AuFormedIs DEF AuWriteDown, AuWriteFault, AuOut
      <4>. QED BY <1>4, <2>1, <4>1 DEF AuHeld
    <3>2. PICK n \in {0, 1} : s' = AuSem(s, b, n)
      BY <2>11 DEF AuWriteDown, AuWriteFault
    <3>3. /\ AuFormed(s') /\ AuSame(s, s') /\ AuOthers(s, s', b)
          /\ s'.buf[b].size = s.buf[b].size /\ s'.buf[b].data = s.buf[b].data
      <4>1. AuFormed(s) /\ n \in Nat
        BY <1>2
      <4>. QED BY <3>1, <3>2, <4>1, AuSemIs
    <3>4. AuSizes(s')
      <4>1. s'.buf[b].size <= s.frag /\ s'.buf[b].size <= Len(s'.buf[b].data)
        BY <1>2, <3>1, <3>3 DEF AuSizes
      <4>. QED BY <1>2, <3>1, <3>3, <4>1, AuSizesKept
    <3>5. Threads
      BY <1>3, <1>4, <1>5, <1>6, <2>11 DEF AuWriteDown, AuWriteFault
    <3>. QED BY <1>2, <2>11, <3>3, <3>4, <3>5 DEF AuWriteDown, AuWriteFault, AuTyped, auSound, Threads
  <2>12. ASSUME NEW t \in AuThreads, AuWriteStop(t) \/ AuReadStop(t) PROVE AuTyped'
    BY <1>2, <1>6, <2>12, Zenon DEF AuWriteStop, AuReadStop, AuTyped, auSound, Threads
  <2>13. ASSUME NEW t \in AuThreads, AuWriteCopy(t) PROVE AuTyped'
    <3>. DEFINE s == output_stream b == au_b[t]
    <3>1. /\ b \in 0 .. s.nb - 1 /\ AuFormed(s') /\ AuSame(s, s') /\ AuOthers(s, s', b)
      BY <1>1, <2>1, <2>13, AuWriteCopyIs
    <3>0. PICK n \in Nat : AuCopied(t, s, b, n)
      BY ONLY <1>1, <2>1, <2>13, AuWriteCopyIs
    <3>2. /\ s.buf[b].size + n <= s.frag /\ au_written' = au_written + n
          /\ Len(s'.buf[b].data) = s.buf[b].size + n
          /\ s'.buf[b].size \in {0, s.buf[b].size + n}
          /\ AuReturn(t) \/ \E left \in Nat : AuGo(t, "wdown", AuAfter(s), left)
      BY <3>0 DEF AuCopied
    <3>3. s.buf[b].size \in Nat /\ s.frag \in Nat /\ s.idx \in Nat
      BY <1>2, <3>1, AuFormedIs
    <3>4. s'.buf[b].size <= s.frag /\ s'.buf[b].size <= Len(s'.buf[b].data)
      BY <3>2, <3>3
    <3>5. AuSizes(s')
      BY <1>2, <3>1, <3>4, AuSizesKept
    <3>6. Threads
      <4>1. AuAfter(s) \in Nat
        BY <3>3 DEF AuAfter
      <4>. QED BY <1>3, <1>5, <1>6, <3>2, <4>1
    <3>7. au_written' \in Nat
      BY <1>2, <3>2
    <3>. QED BY <1>2, <2>13, <3>1, <3>5, <3>6, <3>7, Zenon DEF AuWriteCopy, AuTyped, Threads
  <2>14. ASSUME NEW t \in AuThreads, AuReadDown(t) \/ AuReadFault(t) PROVE AuTyped'
    <3>. DEFINE s == input_stream b == au_b[t]
    <3>1. b \in 0 .. s.nb - 1
      <4>1. au_pc[t] \in AuInput /\ s.nb \in Nat
        BY <1>2, <2>14, AuFormedIs DEF AuReadDown, AuReadFault, AuInput
      <4>. QED BY <1>4, <2>1, <4>1 DEF AuHeld
    <3>2. PICK n \in {0, 1} : s' = AuSem(s, b, n)
      BY <2>14 DEF AuReadDown, AuReadFault
    <3>3. AuFormed(s')
      <4>1. AuFormed(s) /\ n \in Nat
        BY <1>2
      <4>. QED BY <3>1, <3>2, <4>1, AuSemIs
    <3>4. Threads
      BY <1>3, <1>4, <1>5, <1>6, <2>14 DEF AuReadDown, AuReadFault
    <3>. QED BY <1>2, <2>14, <3>3, <3>4 DEF AuReadDown, AuReadFault, AuTyped, auSound, Threads
  <2>15. ASSUME NEW t \in AuThreads, AuReadCopy(t) PROVE AuTyped'
    <3>1. AuFormed(input_stream')
      BY <1>1, <2>1, <2>15, AuReadCopyIs
    <3>2. PICK n \in Nat :
            /\ au_heard' = au_heard + n
            /\ AuReturn(t) \/ \E left \in Nat : AuGo(t, "rdown", AuAfter(input_stream), left)
      BY <1>1, <2>1, <2>15, AuReadCopyIs DEF AuReadOut
    <3>3. Threads
      <4>1. AuAfter(input_stream) \in Nat
        BY <1>2, AuFormedIs DEF AuAfter
      <4>. QED BY <1>3, <1>5, <1>6, <3>2, <4>1
    <3>4. au_heard' \in Nat
      BY <1>2, <3>2
    <3>. QED BY <1>2, <2>15, <3>1, <3>3, <3>4 DEF AuReadCopy, AuTyped, Threads
  <2>16. ASSUME NEW t \in AuThreads, NEW count \in AuCounts, AuWrite(t, count) PROVE AuTyped'
    <3>1. Out
      BY <1>2, <2>16, AuSetupFormed, AuSetupSizes DEF AuWrite, Out
    <3>2. Threads
      <4>1. output_stream'.idx \in Nat /\ count \in Nat
        BY <3>1, AuFormedIs, AudioAssumption DEF Out
      <4>2. CASE UNCHANGED auCalls
        BY <1>2, <4>2 DEF Threads, auCalls
      <4>. QED BY <1>3, <1>5, <2>16, <4>1, <4>2 DEF AuWrite
    <3>. QED BY <1>2, <2>16, <3>1, <3>2 DEF AuWrite, AuTyped, auSound, Threads, Out
  <2>17. ASSUME NEW t \in AuThreads, NEW count \in AuCounts, AuRead(t, count) PROVE AuTyped'
    <3>1. AuFormed(input_stream')
      <4>1. CASE input_stream.set \/ UNCHANGED <<input_stream, auCalls>>
        BY <1>2, <2>17, <4>1 DEF AuRead
      <4>2. CASE ~ input_stream.set /\ ~ UNCHANGED <<input_stream, auCalls>>
        BY <1>1, <2>17, <4>2, AuFirstReadIs
      <4>. QED BY <4>1, <4>2
    <3>2. Threads
      <4>1. input_stream'.idx \in Nat /\ count \in Nat
        BY <3>1, AuFormedIs, AudioAssumption
      <4>2. CASE AuGo(t, "rdown", input_stream'.idx, count)
        BY <1>3, <1>5, <4>1, <4>2
      <4>3. CASE UNCHANGED auCalls
        BY <1>2, <4>3 DEF Threads, auCalls
      <4>. QED BY <2>17, <4>2, <4>3 DEF AuRead
    <3>. QED BY <1>2, <2>17, <3>1, <3>2 DEF AuRead, AuTyped, auSound, Threads
  <2>18. ASSUME NEW t \in AuThreads, NEW f \in au_files, AuPoll(t, f) PROVE AuTyped'
    <3>1. Out /\ AuFormed(input_stream')
      BY <1>1, <1>2, <2>18, AuSetupAsIs DEF AuPoll, Out
    <3>. QED BY <1>2, <2>18, <3>1 DEF AuPoll, AuTyped, auSound, auCalls, Out
  <2>19. ASSUME NEW t \in AuThreads, NEW f \in au_files, AuReset(t, f) PROVE AuTyped'
    BY <1>2, <1>7, <1>8, <2>19 DEF AuReset, AuTyped, auCalls, Out
  <2>20. ASSUME NEW t \in AuThreads, NEW f \in au_files, NEW shape \in AuShapes, AuSetFragment(t, f, shape)
         PROVE  AuTyped'
    <3>1. shape \in (Nat \ {0, 1}) \X (Nat \ {0})
      BY AudioAssumption
    <3>2. Out /\ AuFormed(input_stream')
      BY <1>1, <2>20, <3>1, AuSetupAsIs DEF AuSetFragment, Out
    <3>. QED BY <1>2, <2>20, <3>1, <3>2 DEF AuSetFragment, AuTyped, auSound, auCalls, Out
  <2>21. ASSUME NEW t \in AuThreads, AuMeet(t) PROVE AuTyped'
    BY <1>2, <2>21 DEF AuMeet, AuTyped, auSound, auCalls
  <2>. QED BY <1>12, <2>2, <2>3, <2>4, <2>5, <2>6, <2>7, <2>8, <2>9, <2>10, <2>11, <2>12, <2>13, <2>14, <2>15,
              <2>16, <2>17, <2>18, <2>19, <2>20, <2>21 DEF AuNext
<1>. QED BY <1>11, <1>12

LEMMA AuHeldNext == AuBase /\ AuNext /\ ~ au_oops' => AuHeld'
<1>. SUFFICES ASSUME AuBase, AuNext, ~ au_oops' PROVE AuHeld'
  OBVIOUS
<1>1. AuTyped /\ AuHeld
  BY DEF AuBase, AuNext
<1>2. /\ au_files \subseteq {"r", "w", "rw"}
      /\ AuFormed(output_stream) /\ AuFormed(input_stream)
      /\ au_pc \in [AuThreads -> AuPlaces] /\ au_b \in [AuThreads -> Nat] /\ au_left \in [AuThreads -> Nat]
  BY <1>1 DEF AuTyped
<1>3. /\ output_stream.nb \in Nat /\ input_stream.nb \in Nat /\ ~ AuNoBuffers.set /\ AuNoBuffers.q = <<>>
      /\ output_stream.q \in Seq(AuEntry)
  BY <1>2, AuFormedIs, AuEmpty
<1>4. AuPlaying <=> \E f \in au_files : f \in {"w", "rw"}
  BY DEF AuPlaying, AuPlayer
<1>5. AuRecording <=> \E f \in au_files : f \in {"r", "rw"}
  BY DEF AuRecording, AuRecorder
<1>6. AuPlaying' <=> \E f \in au_files' : f \in {"w", "rw"}
  BY DEF AuPlaying, AuPlayer
<1>7. AuRecording' <=> \E f \in au_files' : f \in {"r", "rw"}
  BY DEF AuRecording, AuRecorder
<1>8. \A p \in AuOut : p \notin AuInput /\ p # "user"
  BY DEF AuOut, AuInput
<1>9. "user" \notin AuOut /\ "user" \notin AuInput
  BY DEF AuOut, AuInput
<1>10. {"wdown", "wcopy", "sdown", "swait", "synced"} = AuOut /\ {"rdown", "rcopy"} = AuInput
  BY DEF AuOut, AuInput
<1>11. ASSUME NEW t \in AuThreads, NEW p, NEW b, NEW left, AuGo(t, p, b, left)
       PROVE  /\ au_pc'[t] = p /\ au_b'[t] = b
              /\ \A u \in AuThreads : u # t => au_pc'[u] = au_pc[u] /\ au_b'[u] = au_b[u]
  BY <1>1, <1>11, AuWent
<1>12. ASSUME NEW t \in AuThreads, AuReturn(t)
       PROVE  /\ au_pc'[t] = "user"
              /\ \A u \in AuThreads : u # t => au_pc'[u] = au_pc[u] /\ au_b'[u] = au_b[u]
  <2>1. AuGo(t, "user", 0, 0)
    BY <1>12 DEF AuReturn
  <2>. QED BY <1>11, <2>1
<1>13. ASSUME NEW t \in AuThreads, AuSyncFrom(t), output_stream.set
       PROVE  /\ au_pc'[t] \in AuOut /\ au_b'[t] < output_stream.nb
              /\ \A u \in AuThreads : u # t => au_pc'[u] = au_pc[u] /\ au_b'[u] = au_b[u]
  <2>1. AuPrev(output_stream) < output_stream.nb /\ output_stream.idx < output_stream.nb
    BY <1>2, <1>3, <1>13, AuPrevIs
  <2>2. CASE AuGo(t, "sdown", output_stream.idx, 0)
    BY <1>10, <1>11, <2>1, <2>2
  <2>3. CASE AuGo(t, "swait", AuPrev(output_stream), 0)
    BY <1>10, <1>11, <2>1, <2>3
  <2>. QED BY <1>13, <2>2, <2>3 DEF AuSyncFrom
<1>14. AuHeld
  BY <1>1
<1>. DEFINE OutAlone == \A t, u \in AuThreads : au_pc'[t] \in AuOut /\ au_pc'[u] \in AuOut => t = u
            InAlone == \A t, u \in AuThreads : au_pc'[t] \in AuInput /\ au_pc'[u] \in AuInput => t = u
            SameOut == output_stream'.set = output_stream.set /\ output_stream'.nb = output_stream.nb
            SameIn == input_stream'.set = input_stream.set /\ input_stream'.nb = input_stream.nb
            Queue == \A i \in 1 .. Len(output_stream'.q) : output_stream'.q[i].b < output_stream'.nb
<1>15. output_stream' = output_stream => SameOut /\ Queue
  BY <1>1 DEF AuHeld
<1>16. input_stream' = input_stream => SameIn
  OBVIOUS
<1>17. output_stream' = AuNoBuffers => ~ output_stream'.set /\ Queue
  BY <1>3
<1>18. SameOut /\ output_stream'.q = output_stream.q => Queue
  BY <1>1 DEF AuHeld
<1>19. ASSUME NEW b, NEW n, b < output_stream.nb, SameOut, output_stream'.q = Append(output_stream.q, [b |-> b, n |-> n])
       PROVE  Queue
  <2>1. \A i \in 1 .. Len(output_stream.q) : output_stream.q[i].b < output_stream.nb
    BY <1>1 DEF AuHeld
  <2>2. Len(output_stream'.q) = Len(output_stream.q) + 1 /\ Len(output_stream.q) \in Nat
    BY <1>3, <1>19
  <2>3. output_stream'.q[Len(output_stream.q) + 1] = [b |-> b, n |-> n]
    BY <1>3, <1>19
  <2>4. \A i \in 1 .. Len(output_stream.q) : output_stream'.q[i] = output_stream.q[i]
    BY <1>3, <1>19
  <2>5. \A i \in 1 .. Len(output_stream'.q) : i \in 1 .. Len(output_stream.q) \/ i = Len(output_stream.q) + 1
    BY <2>2
  <2>. QED BY <1>19, <2>1, <2>3, <2>4, <2>5
<1>20. ASSUME NEW shape \in (Nat \ {0, 1}) \X (Nat \ {0}), output_stream' = AuSetup(shape)
       PROVE  output_stream'.set /\ Queue /\ output_stream'.idx < output_stream'.nb
  <2>1. AuFormed(output_stream') /\ output_stream'.set /\ output_stream'.q = <<>>
    BY <1>20, AuSetupFormed
  <2>2. output_stream'.idx < output_stream'.nb
    BY <2>1, AuFormedIs
  <2>. QED BY <2>1, <2>2
<1>21. /\ au_shape \in (Nat \ {0, 1}) \X (Nat \ {0})
       /\ \A shape \in AuShapes : shape \in (Nat \ {0, 1}) \X (Nat \ {0})
  BY <1>1, AudioAssumption DEF AuTyped
<1>. HIDE DEF OutAlone, InAlone, SameOut, SameIn, Queue
<1>22. ASSUME NEW mode \in AuModes, AuOpen(mode) PROVE AuHeld'
  <2>1. mode \in {"r", "w", "rw"}
    BY AudioAssumption
  <2>2. /\ au_files' = au_files \cup {mode} /\ (mode \in {"w", "rw"} => ~ AuPlaying) /\ (mode \in {"r", "rw"} => au_files = {})
        /\ UNCHANGED <<output_stream, input_stream, au_pc, au_b, au_close, au_raced>>
    BY <1>22 DEF AuOpen, auCalls, auFlags, AuPlayer, AuRecorder
  <2>3. "rw" \in au_files' => au_files' = {"rw"}
    BY <1>4, <2>1, <2>2
  <2>. QED BY <1>4, <1>5, <1>6, <1>7, <1>14, <2>2, <2>3 DEF AuHeld
<1>23. CASE AuReleaseIn
  <2>1. /\ "r" \in au_files /\ au_files' = au_files \ {"r"} /\ ~ input_stream'.set
        /\ \A t \in AuThreads : au_pc[t] \notin AuInput
        /\ au_raced' = au_raced \ {"in"}
        /\ UNCHANGED <<output_stream, au_pc, au_b, au_close>>
    BY <1>2, <1>23, AuClearedIn, AuPlace DEF AuReleaseIn, auCalls
  <2>. QED BY <1>4, <1>6, <1>14, <2>1 DEF AuHeld
<1>24. CASE AuDmaOut
  <2>1. /\ output_stream.q # <<>> /\ AuSame(output_stream, output_stream') /\ output_stream'.q = Tail(output_stream.q)
    BY <1>1, <1>24, AuDmaOutIs
  <2>2. UNCHANGED <<input_stream, au_files, au_pc, au_b, au_close, au_raced>>
    BY <1>24, Zenon DEF AuDmaOut, auCalls, auFlags
  <2>3. output_stream'.set = output_stream.set /\ output_stream'.nb = output_stream.nb
    BY <2>1 DEF AuSame
  <2>4. \A i \in 1 .. Len(output_stream'.q) : i + 1 \in 1 .. Len(output_stream.q) /\ output_stream'.q[i] = output_stream.q[i + 1]
    BY <1>3, <2>1
  <2>5. \A i \in 1 .. Len(output_stream'.q) : output_stream'.q[i].b < output_stream'.nb
    BY <1>14, <2>3, <2>4 DEF AuHeld
  <2>6. (AuPlaying' <=> AuPlaying) /\ (AuRecording' <=> AuRecording)
    BY <1>4, <1>5, <1>6, <1>7, <2>2
  <2>. QED BY <1>14, <2>2, <2>3, <2>5, <2>6 DEF AuHeld
<1>25. CASE AuDmaIn
  <2>1. AuSame(input_stream, input_stream')
    BY <1>1, <1>25, AuDmaInIs
  <2>2. UNCHANGED <<output_stream, au_files, au_pc, au_b, au_close, au_raced>>
    BY <1>25 DEF AuDmaIn, auCalls
  <2>3. input_stream'.set = input_stream.set /\ input_stream'.nb = input_stream.nb
    BY <2>1 DEF AuSame
  <2>4. (AuPlaying' <=> AuPlaying) /\ (AuRecording' <=> AuRecording)
    BY <1>4, <1>5, <1>6, <1>7, <2>2
  <2>. QED BY <1>14, <2>2, <2>3, <2>4 DEF AuHeld
<1>26. ASSUME NEW t \in AuThreads, AuRelease(t) PROVE AuHeld'
  <2>1. PICK f \in au_files : AuPlayer(f) /\ AuFreeOf(AuStreams(f))
    BY <1>26 DEF AuRelease
  <2>2. f \in {"w", "rw"} /\ \A u \in AuThreads : au_pc[u] \notin AuOut /\ (f = "rw" => au_pc[u] \notin AuInput)
    BY <1>2, <2>1, AuPlace DEF AuPlayer, AuRecorder
  <2>3. f = "rw" <=> "rw" \in au_files
    BY <1>14, <2>2 DEF AuHeld
  <2>4. IF f = "rw" THEN ~ input_stream'.set ELSE input_stream' = input_stream
    BY <1>2, <1>26, <2>3, AuClearedIn DEF AuRelease
  <2>5. input_stream'.set => "r" \in au_files /\ input_stream' = input_stream /\ f # "rw"
    BY <1>5, <1>14, <2>3, <2>4 DEF AuHeld
  <2>6. CASE output_stream.set
    <3>1. AuSyncFrom(t) /\ UNCHANGED <<output_stream, au_files, au_raced>> /\ au_pc[t] = "user"
      BY <1>26, <2>6 DEF AuRelease, auFlags
    <3>2. /\ au_pc'[t] \in AuOut /\ au_b'[t] < output_stream.nb
          /\ \A u \in AuThreads : u # t => au_pc'[u] = au_pc[u] /\ au_b'[u] = au_b[u]
      BY <1>13, <2>6, <3>1
    <3>3. \A u \in AuThreads : au_pc'[u] \in AuOut => u = t
      BY <2>2, <3>2
    <3>4. \A u \in AuThreads : au_pc'[u] \in AuInput => u # t /\ au_pc[u] \in AuInput /\ au_b'[u] = au_b[u] /\ f # "rw"
      BY <1>8, <2>2, <3>2
    <3>5. AuPlaying' /\ (input_stream'.set => AuRecording')
      BY <1>6, <1>7, <2>2, <2>5, <3>1
    <3>. QED BY <1>14, <2>2, <2>4, <2>5, <2>6, <3>1, <3>2, <3>3, <3>4, <3>5 DEF AuHeld
  <2>7. CASE ~ output_stream.set
    <3>1. /\ output_stream' = AuNoBuffers /\ au_files' = au_files \ {"w", "rw"} /\ au_close' = FALSE
          /\ au_raced' = au_raced \ {"out"} /\ UNCHANGED <<au_pc, au_b>>
      BY <1>26, <2>7 DEF AuRelease, AuReleaseDone, AuClearOut, auCalls
    <3>2. input_stream'.set => AuRecording'
      BY <1>7, <2>5, <3>1
    <3>3. "rw" \notin au_files' /\ ~ output_stream'.set /\ output_stream'.q = <<>>
      BY <1>3, <3>1
    <3>4. \A i \in 1 .. Len(output_stream'.q) : output_stream'.q[i].b < output_stream'.nb
      BY <3>3
    <3>. QED BY <1>14, <2>2, <2>4, <3>1, <3>2, <3>3, <3>4 DEF AuHeld
  <2>. QED BY <2>6, <2>7
<1>27. ASSUME NEW t \in AuThreads, AuSync(t) PROVE AuHeld'
  <2>1. /\ au_pc[t] = "user" /\ ~ au_close /\ AuPlaying /\ output_stream.set /\ AuSyncFrom(t)
        /\ au_raced' = IF AuFreeOf({"out"}) THEN au_raced ELSE au_raced \cup {"out"}
        /\ UNCHANGED <<au_files, output_stream, input_stream, au_close>>
    BY <1>27 DEF AuSync, AuCall, AuReady
  <2>2. /\ au_pc'[t] \in AuOut /\ au_b'[t] < output_stream.nb
        /\ \A u \in AuThreads : u # t => au_pc'[u] = au_pc[u] /\ au_b'[u] = au_b[u]
    BY <1>13, <2>1
  <2>3. "out" \notin au_raced' => OutAlone
    BY <2>1, <2>2, AuPlace DEF OutAlone
  <2>4. "in" \notin au_raced' => InAlone
    BY <1>8, <1>14, <2>1, <2>2 DEF InAlone, AuHeld
  <2>5. (AuPlaying' <=> AuPlaying) /\ (AuRecording' <=> AuRecording)
    BY <1>4, <1>5, <1>6, <1>7, <2>1
  <2>. QED BY <1>8, <1>14, <2>1, <2>2, <2>3, <2>4, <2>5 DEF AuHeld, OutAlone, InAlone
(* A thread in the output goes on there, or returns.                       *)
<1>28. ASSUME NEW t \in AuThreads, au_pc[t] \in AuOut,
              au_pc'[t] \in AuOut => au_b'[t] < output_stream.nb, au_pc'[t] \notin AuInput,
              \A u \in AuThreads : u # t => au_pc'[u] = au_pc[u] /\ au_b'[u] = au_b[u],
              SameOut, Queue, UNCHANGED <<au_files, au_raced, au_close, input_stream>>
       PROVE  AuHeld'
  <2>1. (AuPlaying' <=> AuPlaying) /\ (AuRecording' <=> AuRecording)
    BY <1>4, <1>5, <1>6, <1>7, <1>28
  <2>2. (au_close \/ "out" \notin au_raced => OutAlone) /\ ("in" \notin au_raced => InAlone)
    BY <1>8, <1>14, <1>28 DEF AuHeld, OutAlone, InAlone
  <2>3. \A u \in AuThreads : au_pc'[u] \in AuInput => au_pc[u] \in AuInput /\ au_b'[u] = au_b[u]
    BY <1>28
  <2>4. \A u \in AuThreads : au_pc'[u] \in AuOut => output_stream.set /\ au_b'[u] < output_stream.nb
    BY <1>14, <1>28 DEF AuHeld
  <2>. QED BY <1>14, <1>28, <2>1, <2>2, <2>3, <2>4 DEF AuHeld, OutAlone, InAlone, SameOut, Queue
(* And a thread in the input.                                              *)
<1>29. ASSUME NEW t \in AuThreads, au_pc[t] \in AuInput,
              au_pc'[t] \in AuInput => au_b'[t] < input_stream.nb, au_pc'[t] \notin AuOut,
              \A u \in AuThreads : u # t => au_pc'[u] = au_pc[u] /\ au_b'[u] = au_b[u],
              SameIn, UNCHANGED <<au_files, au_raced, au_close, output_stream>>
       PROVE  AuHeld'
  <2>1. (AuPlaying' <=> AuPlaying) /\ (AuRecording' <=> AuRecording)
    BY <1>4, <1>5, <1>6, <1>7, <1>29
  <2>2. (au_close \/ "out" \notin au_raced => OutAlone) /\ ("in" \notin au_raced => InAlone)
    BY <1>8, <1>14, <1>29 DEF AuHeld, OutAlone, InAlone
  <2>3. \A u \in AuThreads : au_pc'[u] \in AuOut => au_pc[u] \in AuOut /\ au_b'[u] = au_b[u]
    BY <1>29
  <2>4. \A u \in AuThreads : au_pc'[u] \in AuInput => input_stream.set /\ au_b'[u] < input_stream.nb
    BY <1>14, <1>29 DEF AuHeld
  <2>. QED BY <1>14, <1>29, <2>1, <2>2, <2>3, <2>4 DEF AuHeld, OutAlone, InAlone, SameIn
<1>30. ASSUME NEW t \in AuThreads, AuSyncDown(t) PROVE AuHeld'
  <2>. DEFINE s == output_stream b == au_b[t]
  <2>1. /\ au_pc[t] = "sdown" /\ b \in 0 .. s.nb - 1 /\ AuSame(s, s') /\ s.set
        /\ s'.q = Append(s.q, [b |-> b, n |-> s.buf[b].size]) \/ s'.q = s.q
        /\ AuGo(t, "swait", s.idx, 0)
    BY <1>1, <1>30, AuSyncDownIs
  <2>2. s.idx < s.nb /\ SameOut /\ b < s.nb
    BY <1>2, <1>3, <2>1, AuFormedIs DEF AuSame, SameOut
  <2>3. Queue
    BY <1>18, <1>19, <2>1, <2>2
  <2>4. UNCHANGED <<au_files, au_raced, au_close, input_stream>>
    BY <1>30 DEF AuSyncDown
  <2>5. au_pc'[t] = "swait" /\ au_b'[t] = s.idx /\ \A u \in AuThreads : u # t => au_pc'[u] = au_pc[u] /\ au_b'[u] = au_b[u]
    BY <1>11, <2>1
  <2>. QED BY <1>8, <1>10, <1>28, <2>1, <2>2, <2>3, <2>4, <2>5
<1>31. ASSUME NEW t \in AuThreads, AuSyncDone(t) PROVE AuHeld'
  <2>1. au_pc[t] = "swait" /\ AuGo(t, "synced", 0, 0) /\ UNCHANGED <<au_files, au_raced, au_close, input_stream, output_stream>>
    BY <1>31 DEF AuSyncDone, auFlags
  <2>2. au_pc'[t] = "synced" /\ au_b'[t] = 0 /\ \A u \in AuThreads : u # t => au_pc'[u] = au_pc[u] /\ au_b'[u] = au_b[u]
    BY <1>11, <2>1
  <2>3. 0 < output_stream.nb
    <3>1. output_stream.set
      BY <1>10, <1>14, <2>1 DEF AuHeld
    <3>. QED BY <1>2, <3>1, AuFormedIs
  <2>. QED BY <1>8, <1>10, <1>15, <1>28, <2>1, <2>2, <2>3
<1>32. ASSUME NEW t \in AuThreads, AuSyncReturn(t) PROVE AuHeld'
  <2>1. /\ au_pc[t] \in AuOut /\ au_pc'[t] = "user"
        /\ \A u \in AuThreads : u # t => au_pc'[u] = au_pc[u] /\ au_b'[u] = au_b[u]
    <3>1. au_pc[t] \in {"swait", "synced"} /\ AuReturn(t)
      BY <1>32 DEF AuSyncReturn
    <3>. QED BY <1>10, <1>12, <3>1
  <2>2. CASE ~ au_close
    <3>1. UNCHANGED <<au_files, au_raced, au_close, input_stream, output_stream>>
      BY <1>32, <2>2 DEF AuSyncReturn, auFlags
    <3>. QED BY <1>9, <1>15, <1>28, <2>1, <3>1
  <2>3. CASE au_close
    <3>1. /\ output_stream' = AuNoBuffers /\ au_files' = au_files \ {"w", "rw"} /\ au_close' = FALSE
          /\ au_raced' = au_raced \ {"out"} /\ input_stream' = input_stream
      BY <1>32, <2>3 DEF AuSyncReturn, AuReleaseDone, AuClearOut
    <3>2. \A u \in AuThreads : au_pc'[u] \notin AuOut
      BY <1>9, <1>14, <2>1, <2>3 DEF AuHeld
    <3>3. "rw" \notin au_files' /\ ~ output_stream'.set /\ output_stream'.q = <<>>
      BY <1>3, <3>1
    <3>4. \A i \in 1 .. Len(output_stream'.q) : output_stream'.q[i].b < output_stream'.nb
      BY <3>3
    <3>5. input_stream'.set => AuRecording'
      BY <1>7, <1>14, <2>3, <3>1 DEF AuHeld
    <3>6. \A u \in AuThreads : au_pc'[u] \in AuInput => au_pc[u] \in AuInput /\ au_b'[u] = au_b[u]
      BY <1>9, <2>1
    <3>. QED BY <1>14, <3>1, <3>2, <3>3, <3>4, <3>5, <3>6 DEF AuHeld
  <2>. QED BY <2>2, <2>3
<1>33. ASSUME NEW t \in AuThreads, AuWriteDown(t) \/ AuWriteFault(t) PROVE AuHeld'
  <2>. DEFINE s == output_stream b == au_b[t]
  <2>1. /\ AuGo(t, "wcopy", b, au_left[t]) \/ AuReturn(t)
        /\ UNCHANGED <<au_files, au_raced, au_close, input_stream>>
    BY <1>10, <1>33 DEF AuWriteDown, AuWriteFault, auFlags
  <2>2. au_pc[t] \in AuOut /\ b < s.nb /\ b \in Nat
    BY <1>2, <1>10, <1>14, <1>33 DEF AuHeld, AuWriteDown, AuWriteFault
  <2>3. PICK n \in {0, 1} : s' = AuSem(s, b, n)
    BY <1>33 DEF AuWriteDown, AuWriteFault
  <2>4. AuSame(s, s') /\ s'.q = s.q
    <3>1. b \in 0 .. s.nb - 1 /\ n \in Nat
      BY <1>3, <2>2
    <3>. QED BY <1>2, <2>3, <3>1, AuSemIs
  <2>5. SameOut
    BY <2>4 DEF AuSame, SameOut
  <2>6. Queue
    BY <1>18, <2>4, <2>5
  <2>7. CASE AuGo(t, "wcopy", b, au_left[t])
    <3>1. au_pc'[t] = "wcopy" /\ au_b'[t] = b /\ \A u \in AuThreads : u # t => au_pc'[u] = au_pc[u] /\ au_b'[u] = au_b[u]
      BY <1>11, <2>7
    <3>. QED BY <1>8, <1>10, <1>28, <2>1, <2>2, <2>5, <2>6, <3>1
  <2>8. CASE AuReturn(t)
    <3>1. au_pc'[t] = "user" /\ \A u \in AuThreads : u # t => au_pc'[u] = au_pc[u] /\ au_b'[u] = au_b[u]
      BY <1>12, <2>8
    <3>. QED BY <1>9, <1>28, <2>1, <2>2, <2>5, <2>6, <3>1
  <2>. QED BY <2>1, <2>7, <2>8
<1>34. ASSUME NEW t \in AuThreads, AuWriteStop(t) PROVE AuHeld'
  <2>1. au_pc[t] \in AuOut /\ AuReturn(t) /\ UNCHANGED <<au_files, au_raced, au_close, input_stream, output_stream>>
    BY <1>10, <1>34 DEF AuWriteStop, auFlags
  <2>2. au_pc'[t] = "user" /\ \A u \in AuThreads : u # t => au_pc'[u] = au_pc[u] /\ au_b'[u] = au_b[u]
    BY <1>12, <2>1
  <2>. QED BY <1>9, <1>15, <1>28, <2>1, <2>2
<1>35. ASSUME NEW t \in AuThreads, AuWriteCopy(t) PROVE AuHeld'
  <2>. DEFINE s == output_stream b == au_b[t]
  <2>1. au_pc[t] = "wcopy" /\ b \in 0 .. s.nb - 1 /\ AuSame(s, s')
    BY <1>1, <1>35, AuWriteCopyIs
  <2>2. /\ s'.q = s.q \/ s'.q = Append(s.q, [b |-> b, n |-> s.frag])
        /\ AuReturn(t) \/ \E left \in Nat : AuGo(t, "wdown", AuAfter(s), left)
    <3>1. PICK n \in Nat :
            /\ s.buf[b].size + n <= s.frag
            /\ s'.q = s.q \/ s'.q = Append(s.q, [b |-> b, n |-> s.frag])
            /\ AuReturn(t) \/ \E left \in Nat : AuGo(t, "wdown", AuAfter(s), left)
      BY <1>1, <1>35, AuWriteCopyIs DEF AuCopied
    <3>. QED BY <3>1
  <2>3. SameOut /\ b < s.nb /\ s.set
    BY <1>3, <1>10, <1>14, <2>1 DEF AuSame, SameOut, AuHeld
  <2>4. Queue
    BY <1>18, <1>19, <2>2, <2>3
  <2>5. UNCHANGED <<au_files, au_raced, au_close, input_stream>>
    BY <1>35 DEF AuWriteCopy
  <2>6. AuAfter(s) < s.nb
    BY <1>2, <1>3, <2>3, AuPrevIs
  <2>7. CASE AuReturn(t)
    <3>1. au_pc'[t] = "user" /\ \A u \in AuThreads : u # t => au_pc'[u] = au_pc[u] /\ au_b'[u] = au_b[u]
      BY <1>12, <2>7
    <3>. QED BY <1>9, <1>10, <1>28, <2>1, <2>3, <2>4, <2>5, <3>1
  <2>8. ASSUME NEW left \in Nat, AuGo(t, "wdown", AuAfter(s), left) PROVE AuHeld'
    <3>1. au_pc'[t] = "wdown" /\ au_b'[t] = AuAfter(s) /\ \A u \in AuThreads : u # t => au_pc'[u] = au_pc[u] /\ au_b'[u] = au_b[u]
      BY <1>11, <2>8
    <3>. QED BY <1>8, <1>10, <1>28, <2>1, <2>3, <2>4, <2>5, <2>6, <3>1
  <2>. QED BY <2>2, <2>7, <2>8
<1>36. ASSUME NEW t \in AuThreads, AuWriteCopy(t) \/ AuReadCopy(t) \/ AuReadDown(t) \/ AuReadFault(t) \/ AuReadStop(t) PROVE AuHeld'
  <2>. DEFINE s == input_stream b == au_b[t]
  <2>1. CASE AuWriteCopy(t)
    BY <1>35, <2>1
  <2>2. ASSUME AuReadCopy(t) \/ AuReadDown(t) \/ AuReadFault(t) \/ AuReadStop(t)
        PROVE  au_pc[t] \in AuInput /\ s.set /\ b \in 0 .. s.nb - 1 /\ UNCHANGED <<au_files, au_raced, au_close, output_stream>>
    <3>1. au_pc[t] \in AuInput /\ UNCHANGED <<au_files, au_raced, au_close, output_stream>>
      BY <1>10, <2>2 DEF AuReadCopy, AuReadDown, AuReadFault, AuReadStop, auFlags
    <3>. QED BY <1>2, <1>3, <1>14, <3>1 DEF AuHeld
  <2>3. CASE AuReadCopy(t)
    <3>1. AuSame(s, s') /\ (AuReturn(t) \/ \E left \in Nat : AuGo(t, "rdown", AuAfter(s), left))
      BY <1>1, <2>3, AuReadCopyIs DEF AuReadOut
    <3>2. SameIn /\ AuAfter(s) < s.nb
      BY <1>2, <1>3, <2>2, <2>3, <3>1, AuPrevIs DEF AuSame, SameIn
    <3>3. CASE AuReturn(t)
      <4>1. au_pc'[t] = "user" /\ \A u \in AuThreads : u # t => au_pc'[u] = au_pc[u] /\ au_b'[u] = au_b[u]
        BY <1>12, <3>3
      <4>. QED BY <1>9, <1>29, <2>2, <2>3, <3>2, <4>1
    <3>4. ASSUME NEW left \in Nat, AuGo(t, "rdown", AuAfter(s), left) PROVE AuHeld'
      <4>1. au_pc'[t] = "rdown" /\ au_b'[t] = AuAfter(s) /\ \A u \in AuThreads : u # t => au_pc'[u] = au_pc[u] /\ au_b'[u] = au_b[u]
        BY <1>11, <3>4
      <4>. QED BY <1>8, <1>10, <1>29, <2>2, <2>3, <3>2, <4>1
    <3>. QED BY <3>1, <3>3, <3>4
  <2>4. CASE AuReadDown(t) \/ AuReadFault(t)
    <3>1. AuGo(t, "rcopy", b, au_left[t]) \/ AuReturn(t)
      BY <2>4 DEF AuReadDown, AuReadFault
    <3>2. PICK n \in {0, 1} : s' = AuSem(s, b, n)
      BY <2>4 DEF AuReadDown, AuReadFault
    <3>3. AuSame(s, s')
      <4>1. b \in 0 .. s.nb - 1 /\ n \in Nat
        BY <2>2, <2>4
      <4>. QED BY <1>2, <3>2, <4>1, AuSemIs
    <3>4. SameIn /\ b < s.nb
      BY <1>3, <2>2, <2>4, <3>3 DEF AuSame, SameIn
    <3>5. CASE AuReturn(t)
      <4>1. au_pc'[t] = "user" /\ \A u \in AuThreads : u # t => au_pc'[u] = au_pc[u] /\ au_b'[u] = au_b[u]
        BY <1>12, <3>5
      <4>. QED BY <1>9, <1>29, <2>2, <2>4, <3>4, <4>1
    <3>6. CASE AuGo(t, "rcopy", b, au_left[t])
      <4>1. au_pc'[t] = "rcopy" /\ au_b'[t] = b /\ \A u \in AuThreads : u # t => au_pc'[u] = au_pc[u] /\ au_b'[u] = au_b[u]
        BY <1>11, <3>6
      <4>. QED BY <1>8, <1>10, <1>29, <2>2, <2>4, <3>4, <4>1
    <3>. QED BY <3>1, <3>5, <3>6
  <2>5. CASE AuReadStop(t)
    <3>1. AuReturn(t) /\ input_stream' = input_stream
      BY <2>5 DEF AuReadStop
    <3>2. au_pc'[t] = "user" /\ \A u \in AuThreads : u # t => au_pc'[u] = au_pc[u] /\ au_b'[u] = au_b[u]
      BY <1>12, <3>1
    <3>. QED BY <1>9, <1>16, <1>29, <2>2, <2>5, <3>1, <3>2
  <2>. QED BY <1>36, <2>1, <2>3, <2>4, <2>5
<1>37. ASSUME NEW t \in AuThreads, NEW count \in AuCounts, AuWrite(t, count) PROVE AuHeld'
  <2>0. CASE UNCHANGED <<output_stream, auCalls>>
    <3>1. /\ UNCHANGED <<output_stream, au_files, input_stream, au_close, au_pc, au_b>>
          /\ \A x : x \notin au_raced' => x \notin au_raced
      BY <1>37, <2>0 DEF AuWrite, AuCall, auCalls
    <3>2. (AuPlaying' <=> AuPlaying) /\ (AuRecording' <=> AuRecording)
      BY <1>4, <1>5, <1>6, <1>7, <3>1
    <3>. QED BY <1>14, <3>1, <3>2 DEF AuHeld
  <2>. SUFFICES ASSUME ~ UNCHANGED <<output_stream, auCalls>> PROVE AuHeld'
    BY <2>0
  <2>1. /\ au_pc[t] = "user" /\ ~ au_close /\ AuPlaying /\ AuGo(t, "wdown", output_stream'.idx, count)
        /\ output_stream' = IF output_stream.set THEN output_stream ELSE AuSetup(au_shape)
        /\ au_raced' = IF AuFreeOf({"out"}) THEN au_raced ELSE au_raced \cup {"out"}
        /\ UNCHANGED <<au_files, input_stream, au_close>>
    BY <1>37 DEF AuWrite, AuCall, AuReady
  <2>2. /\ au_pc'[t] = "wdown" /\ au_b'[t] = output_stream'.idx
        /\ \A u \in AuThreads : u # t => au_pc'[u] = au_pc[u] /\ au_b'[u] = au_b[u]
    BY <1>11, <2>1
  <2>3. "out" \notin au_raced' => OutAlone
    BY <2>1, <2>2, AuPlace DEF OutAlone
  <2>4. "in" \notin au_raced' => InAlone
    BY <1>8, <1>10, <1>14, <2>1, <2>2 DEF InAlone, AuHeld
  <2>5. (AuPlaying' <=> AuPlaying) /\ (AuRecording' <=> AuRecording)
    BY <1>4, <1>5, <1>6, <1>7, <2>1
  <2>6. /\ output_stream'.set /\ output_stream'.idx < output_stream'.nb /\ Queue
        /\ \A u \in AuThreads : u # t /\ au_pc'[u] \in AuOut => au_b'[u] < output_stream'.nb
    <3>1. CASE output_stream.set
      BY <1>2, <1>14, <1>15, <2>1, <2>2, <3>1, AuFormedIs DEF AuHeld
    <3>2. CASE ~ output_stream.set
      BY <1>14, <1>20, <1>21, <2>1, <2>2, <3>2 DEF AuHeld
    <3>. QED BY <3>1, <3>2
  <2>. QED BY <1>8, <1>10, <1>14, <2>1, <2>2, <2>3, <2>4, <2>5, <2>6 DEF AuHeld, OutAlone, InAlone, Queue
<1>38. ASSUME NEW t \in AuThreads, NEW count \in AuCounts, AuRead(t, count) PROVE AuHeld'
  <2>0. CASE UNCHANGED <<input_stream, auCalls>>
    <3>1. /\ UNCHANGED <<output_stream, au_files, input_stream, au_close, au_pc, au_b>>
          /\ \A x : x \notin au_raced' => x \notin au_raced
      BY <1>38, <2>0 DEF AuRead, AuCall, auCalls
    <3>2. (AuPlaying' <=> AuPlaying) /\ (AuRecording' <=> AuRecording)
      BY <1>4, <1>5, <1>6, <1>7, <3>1
    <3>. QED BY <1>14, <3>1, <3>2 DEF AuHeld
  <2>. SUFFICES ASSUME ~ UNCHANGED <<input_stream, auCalls>> PROVE AuHeld'
    BY <2>0
  <2>1. /\ au_pc[t] = "user" /\ AuRecording /\ (au_close => "r" \in au_files)
        /\ AuGo(t, "rdown", input_stream'.idx, count)
        /\ input_stream.set => input_stream' = input_stream
        /\ au_raced' = IF AuFreeOf({"in"}) THEN au_raced ELSE au_raced \cup {"in"}
        /\ UNCHANGED <<au_files, output_stream, au_close>>
    BY <1>38 DEF AuRead, AuCall, AuReady
  <2>2. /\ au_pc'[t] = "rdown" /\ au_b'[t] = input_stream'.idx
        /\ \A u \in AuThreads : u # t => au_pc'[u] = au_pc[u] /\ au_b'[u] = au_b[u]
    BY <1>11, <2>1
  <2>3. "in" \notin au_raced' => InAlone
    BY <2>1, <2>2, AuPlace DEF InAlone
  <2>4. au_close \/ "out" \notin au_raced' => OutAlone
    BY <1>8, <1>10, <1>14, <2>1, <2>2 DEF OutAlone, AuHeld
  <2>5. (AuPlaying' <=> AuPlaying) /\ (AuRecording' <=> AuRecording)
    BY <1>4, <1>5, <1>6, <1>7, <2>1
  <2>6. input_stream'.set /\ input_stream'.idx < input_stream'.nb
    <3>1. CASE input_stream.set
      BY <1>2, <2>1, <3>1, AuFormedIs
    <3>2. CASE ~ input_stream.set
      <4>1. AuFormed(input_stream') /\ input_stream'.set
        BY <1>1, <1>38, <3>2, AuFirstReadIs
      <4>. QED BY <4>1, AuFormedIs
    <3>. QED BY <3>1, <3>2
  <2>7. \A u \in AuThreads : u # t /\ au_pc'[u] \in AuInput => au_b'[u] < input_stream'.nb
    BY <1>14, <2>1, <2>2 DEF AuHeld
  <2>8. \A u \in AuThreads : au_pc'[u] \in AuOut => u # t
    BY <1>8, <1>10, <2>2
  <2>. QED BY <1>14, <2>1, <2>2, <2>3, <2>4, <2>5, <2>6, <2>7, <2>8 DEF AuHeld, OutAlone, InAlone
<1>39. ASSUME NEW t \in AuThreads, NEW f \in au_files, NEW first, NEW shape \in (Nat \ {0, 1}) \X (Nat \ {0}),
              AuUsable(f), AuSetupAs(f, shape, first), UNCHANGED <<au_files, au_pc, au_b, au_close, au_raced>>
       PROVE  AuHeld'
  <2>1. /\ \/ output_stream' = output_stream
           \/ ~ output_stream.set /\ AuPlayer(f) /\ output_stream' = AuSetup(shape)
        /\ input_stream' = input_stream \/ (~ input_stream.set /\ AuRecorder(f))
    BY <1>1, <1>39, AuSetupAsIs
  <2>2. (AuPlaying' <=> AuPlaying) /\ (AuRecording' <=> AuRecording)
    BY <1>4, <1>5, <1>6, <1>7, <1>39
  <2>3. input_stream' # input_stream => AuRecording /\ (au_close => "r" \in au_files) /\ ~ input_stream.set
    BY <1>39, <2>1 DEF AuRecording, AuUsable
  <2>4. output_stream' # output_stream => AuPlaying /\ ~ output_stream.set /\ output_stream'.set
    BY <1>20, <1>39, <2>1 DEF AuPlaying
  <2>5. Queue
    BY <1>15, <1>20, <2>1
  <2>6. \A u \in AuThreads : au_pc[u] \in AuOut => output_stream' = output_stream
    BY <1>14, <2>4 DEF AuHeld
  <2>7. \A u \in AuThreads : au_pc[u] \in AuInput => input_stream' = input_stream
    BY <1>14, <2>3 DEF AuHeld
  <2>. QED BY <1>14, <1>39, <2>2, <2>3, <2>4, <2>5, <2>6, <2>7 DEF AuHeld, Queue
<1>40. ASSUME NEW t \in AuThreads, NEW f \in au_files, AuReset(t, f) PROVE AuHeld'
  <2>1. /\ UNCHANGED <<au_files, au_pc, au_b, au_close, au_raced>> /\ AuFreeOf(AuStreams(f))
        /\ IF AuPlayer(f) THEN output_stream' = AuNoBuffers ELSE output_stream' = output_stream
        /\ IF AuRecorder(f) THEN AuClearIn ELSE input_stream' = input_stream
    BY <1>40 DEF AuReset, auCalls, AuClearOut
  <2>2. \A u \in AuThreads : (AuPlayer(f) => au_pc[u] \notin AuOut) /\ (AuRecorder(f) => au_pc[u] \notin AuInput)
    BY <1>2, <2>1, AuPlace
  <2>3. AuRecorder(f) => ~ input_stream'.set
    BY <1>2, <2>1, AuClearedIn
  <2>4. (AuPlaying' <=> AuPlaying) /\ (AuRecording' <=> AuRecording)
    BY <1>4, <1>5, <1>6, <1>7, <2>1
  <2>5. Queue /\ (AuPlayer(f) => ~ output_stream'.set)
    BY <1>15, <1>17, <2>1
  <2>. QED BY <1>14, <2>1, <2>2, <2>3, <2>4, <2>5 DEF AuHeld, Queue
<1>41. ASSUME NEW t \in AuThreads, NEW f \in au_files, AuPoll(t, f) PROVE AuHeld'
  BY <1>21, <1>39, <1>41 DEF AuPoll, auCalls, auFlags
<1>42. ASSUME NEW t \in AuThreads, NEW f \in au_files, NEW shape \in AuShapes, AuSetFragment(t, f, shape)
       PROVE  AuHeld'
  BY <1>21, <1>39, <1>42 DEF AuSetFragment, auCalls, auFlags
<1>43. ASSUME NEW t \in AuThreads, AuMeet(t) PROVE AuHeld'
  BY <1>43 DEF AuMeet
<1>. QED BY <1>22, <1>23, <1>24, <1>25, <1>26, <1>27, <1>30, <1>31, <1>32, <1>33, <1>34, <1>36, <1>37, <1>38,
            <1>40, <1>41, <1>42, <1>43 DEF AuNext

-----------------------------------------------------------------------------
(* Whose the buffers of the output are.                                    *)
AuCopies(t, b) == au_pc[t] = "wcopy" /\ au_b[t] = b
AuOwned ==
  /\ \A b \in 0 .. output_stream.nb - 1 : output_stream.buf[b].sem \in {0, 1}
  /\ \A t, u \in AuThreads : au_pc[t] = "wcopy" /\ AuCopies(u, au_b[t]) => t = u
  /\ \A t \in AuThreads : au_pc[t] = "wcopy" =>
       /\ output_stream.buf[au_b[t]].sem = 0
       /\ \A i \in 1 .. Len(output_stream.q) : output_stream.q[i].b # au_b[t]
  /\ \A i \in 1 .. Len(output_stream.q) : output_stream.buf[output_stream.q[i].b].sem = 0
  /\ \A i, j \in 1 .. Len(output_stream.q) : output_stream.q[i].b = output_stream.q[j].b => i = j
  /\ \A b \in 0 .. output_stream.nb - 1 : output_stream.buf[b].sem = 0 =>
       \/ \E t \in AuThreads : AuCopies(t, b)
       \/ \E i \in 1 .. Len(output_stream.q) : output_stream.q[i].b = b

LEMMA AuOwnedSame ==
  ASSUME AuOwned, output_stream' = output_stream,
         \A u \in AuThreads : au_pc'[u] = "wcopy" <=> au_pc[u] = "wcopy",
         \A u \in AuThreads : au_pc'[u] = "wcopy" => au_b'[u] = au_b[u]
  PROVE  AuOwned'
BY DEF AuOwned, AuCopies

LEMMA AuOwnedFresh ==
  ASSUME AuFormed(output_stream'), output_stream'.q = <<>>,
         \A b \in 0 .. output_stream'.nb - 1 : output_stream'.buf[b].sem = 1,
         \A u \in AuThreads : au_pc'[u] # "wcopy"
  PROVE  AuOwned'
<1>1. Len(output_stream'.q) = 0
  OBVIOUS
<1>. QED BY <1>1 DEF AuOwned, AuCopies

(* A buffer that nobody had gets into the queue.                           *)
LEMMA AuOwnedQueued ==
  ASSUME NEW s, s = output_stream, AuTyped, NEW b \in 0 .. s.nb - 1, NEW n,
         \A i \in 1 .. Len(s.q) : s.q[i].b # b,
         AuOwned, output_stream'.nb = s.nb, AuOthers(s, output_stream', b), output_stream'.buf[b].sem = 0,
         output_stream'.q = Append(s.q, [b |-> b, n |-> n]),
         \A u \in AuThreads : au_pc'[u] = "wcopy" <=> au_pc[u] = "wcopy" /\ au_b[u] # b,
         \A u \in AuThreads : au_pc'[u] = "wcopy" => au_b'[u] = au_b[u],
         \A i \in 1 .. Len(s.q) : s.q[i].b < s.nb,
         \A u \in AuThreads : au_pc[u] = "wcopy" => au_b[u] < s.nb
  PROVE  AuOwned'
<1>. DEFINE r == output_stream' m == Len(output_stream.q)
<1>1. s.q \in Seq(AuEntry) /\ s.nb \in Nat /\ au_b \in [AuThreads -> Nat] /\ AuFormed(s)
  BY AuFormedIs DEF AuTyped
<1>2. m \in Nat /\ Len(r.q) = m + 1 /\ r.q[m + 1] = [b |-> b, n |-> n] /\ \A i \in 1 .. m : r.q[i] = s.q[i]
  BY <1>1
<1>3. \A i \in 1 .. m : s.q[i].b \in 0 .. s.nb - 1 /\ s.q[i].b # b
  BY <1>1, AuFormedIs
<1>4. \A u \in AuThreads : au_pc[u] = "wcopy" => au_b[u] \in 0 .. s.nb - 1
  BY <1>1
<1>5. \A i \in 1 .. m + 1 : i \in 1 .. m \/ i = m + 1
  BY <1>2
<1>. HIDE DEF r, m
<1>6. \A c \in 0 .. s.nb - 1 : r.buf[c].sem = IF c = b THEN 0 ELSE s.buf[c].sem
  BY DEF AuOthers, r
<1>7. \A i \in 1 .. m + 1 : r.q[i].b = IF i = m + 1 THEN b ELSE s.q[i].b
  BY <1>2, <1>5
<1>8. \A c \in 0 .. s.nb - 1 : r.buf[c].sem \in {0, 1}
  BY <1>6 DEF AuOwned
<1>9. \A t, u \in AuThreads : au_pc'[t] = "wcopy" /\ au_pc'[u] = "wcopy" /\ au_b'[u] = au_b'[t] => t = u
  BY DEF AuOwned, AuCopies
<1>10. \A t \in AuThreads : au_pc'[t] = "wcopy" => r.buf[au_b'[t]].sem = 0 /\ \A i \in 1 .. m + 1 : r.q[i].b # au_b'[t]
  BY <1>4, <1>5, <1>6, <1>7 DEF AuOwned, m
<1>11. ASSUME NEW i \in 1 .. m + 1 PROVE r.buf[r.q[i].b].sem = 0
  <2>1. CASE i = m + 1
    BY <1>6, <1>7, <2>1
  <2>2. CASE i # m + 1
    <3>1. i \in 1 .. m
      BY <1>5, <2>2
    <3>2. s.buf[s.q[i].b].sem = 0
      BY <3>1 DEF AuOwned, m
    <3>. QED BY <1>3, <1>6, <1>7, <2>2, <3>1, <3>2
  <2>. QED BY <2>1, <2>2
<1>12. \A i, j \in 1 .. m + 1 : r.q[i].b = r.q[j].b => i = j
  BY <1>3, <1>5, <1>7 DEF AuOwned, m
<1>13. ASSUME NEW c \in 0 .. s.nb - 1, r.buf[c].sem = 0
       PROVE  (\E t \in AuThreads : au_pc'[t] = "wcopy" /\ au_b'[t] = c) \/ \E i \in 1 .. m + 1 : r.q[i].b = c
  <2>1. CASE c = b
    <3>1. m + 1 \in 1 .. m + 1
      BY <1>2
    <3>. QED BY <1>7, <2>1, <3>1
  <2>2. CASE c # b
    <3>1. s.buf[c].sem = 0
      BY <1>6, <1>13, <2>2
    <3>2. CASE \E t \in AuThreads : AuCopies(t, c)
      BY <2>2, <3>2 DEF AuCopies
    <3>3. CASE \E i \in 1 .. m : s.q[i].b = c
      <4>1. PICK i \in 1 .. m : s.q[i].b = c
        BY <3>3
      <4>2. i \in 1 .. m + 1 /\ i # m + 1
        BY <1>2
      <4>. QED BY <1>7, <4>1, <4>2
    <3>. QED BY <3>1, <3>2, <3>3 DEF AuOwned, m
  <2>. QED BY <2>1, <2>2
<1>. QED BY <1>2, <1>8, <1>9, <1>10, <1>11, <1>12, <1>13 DEF AuOwned, AuCopies, r

(* A buffer is taken by a thread, or given back by one.                    *)
LEMMA AuOwnedTaken ==
  ASSUME NEW s, s = output_stream, AuTyped, AuOwned, NEW t \in AuThreads, NEW b \in 0 .. s.nb - 1,
         output_stream'.nb = s.nb, AuOthers(s, output_stream', b), output_stream'.q = s.q,
         \A u \in AuThreads : u # t => au_pc'[u] = au_pc[u] /\ au_b'[u] = au_b[u],
         au_b[t] = b,
         \/ /\ s.buf[b].sem = 1 /\ output_stream'.buf[b].sem = 0
            /\ au_pc[t] # "wcopy" /\ au_pc'[t] = "wcopy" /\ au_b'[t] = b
         \/ /\ au_pc[t] = "wcopy" /\ output_stream'.buf[b].sem = 1 /\ au_pc'[t] # "wcopy",
         \A i \in 1 .. Len(s.q) : s.q[i].b < s.nb,
         \A u \in AuThreads : au_pc[u] = "wcopy" => au_b[u] < s.nb
  PROVE  AuOwned'
<1>. DEFINE r == output_stream' m == Len(output_stream.q)
<1>1. s.q \in Seq(AuEntry) /\ s.nb \in Nat /\ au_b \in [AuThreads -> Nat] /\ AuFormed(s)
  BY AuFormedIs DEF AuTyped
<1>2. \A i \in 1 .. m : s.q[i].b \in 0 .. s.nb - 1
  BY <1>1, AuFormedIs
<1>3. \A u \in AuThreads : au_pc[u] = "wcopy" => au_b[u] \in 0 .. s.nb - 1
  BY <1>1
<1>. HIDE DEF r, m
<1>4. \A c \in 0 .. s.nb - 1 : c # b => r.buf[c].sem = s.buf[c].sem
  BY DEF AuOthers, r
<1>5. r.nb = s.nb /\ r.q = s.q /\ m = Len(s.q)
  BY DEF r, m
<1>6. CASE /\ s.buf[b].sem = 1 /\ r.buf[b].sem = 0
           /\ au_pc[t] # "wcopy" /\ au_pc'[t] = "wcopy" /\ au_b'[t] = b
  <2>1. \A u \in AuThreads : ~ AuCopies(u, b)
    BY <1>6 DEF AuOwned, AuCopies
  <2>2. \A i \in 1 .. m : s.q[i].b # b
    BY <1>6 DEF AuOwned, m
  <2>3. \A c \in 0 .. s.nb - 1 : r.buf[c].sem \in {0, 1}
    BY <1>4, <1>6 DEF AuOwned
  <2>4. \A v, u \in AuThreads : au_pc'[v] = "wcopy" /\ au_pc'[u] = "wcopy" /\ au_b'[u] = au_b'[v] => v = u
    BY <1>6, <2>1 DEF AuOwned, AuCopies
  <2>5. \A v \in AuThreads : au_pc'[v] = "wcopy" => r.buf[au_b'[v]].sem = 0 /\ \A i \in 1 .. m : s.q[i].b # au_b'[v]
    BY <1>3, <1>4, <1>6, <2>1, <2>2 DEF AuOwned, AuCopies, m
  <2>6. \A i \in 1 .. m : r.buf[s.q[i].b].sem = 0
    BY <1>2, <1>4, <2>2 DEF AuOwned, m
  <2>7. ASSUME NEW c \in 0 .. s.nb - 1, r.buf[c].sem = 0
        PROVE  (\E v \in AuThreads : au_pc'[v] = "wcopy" /\ au_b'[v] = c) \/ \E i \in 1 .. m : s.q[i].b = c
    <3>1. CASE c = b
      BY <1>6, <3>1
    <3>2. CASE c # b
      <4>1. (\E v \in AuThreads : AuCopies(v, c)) \/ \E i \in 1 .. m : s.q[i].b = c
        BY <1>4, <2>7, <3>2 DEF AuOwned, m
      <4>. QED BY <1>6, <3>2, <4>1 DEF AuCopies
    <3>. QED BY <3>1, <3>2
  <2>. QED BY <1>5, <2>3, <2>4, <2>5, <2>6, <2>7 DEF AuOwned, AuCopies, r
<1>7. CASE au_pc[t] = "wcopy" /\ r.buf[b].sem = 1 /\ au_pc'[t] # "wcopy"
  <2>1. \A u \in AuThreads : AuCopies(u, b) => u = t
    BY <1>7 DEF AuOwned
  <2>2. \A i \in 1 .. m : s.q[i].b # b
    BY <1>7 DEF AuOwned, m
  <2>3. \A c \in 0 .. s.nb - 1 : r.buf[c].sem \in {0, 1}
    BY <1>4, <1>7 DEF AuOwned
  <2>4. \A v, u \in AuThreads : au_pc'[v] = "wcopy" /\ au_pc'[u] = "wcopy" /\ au_b'[u] = au_b'[v] => v = u
    BY <1>7 DEF AuOwned, AuCopies
  <2>5. \A v \in AuThreads : au_pc'[v] = "wcopy" => r.buf[au_b'[v]].sem = 0 /\ \A i \in 1 .. m : s.q[i].b # au_b'[v]
    BY <1>3, <1>4, <1>7, <2>1, <2>2 DEF AuOwned, AuCopies, m
  <2>6. \A i \in 1 .. m : r.buf[s.q[i].b].sem = 0
    BY <1>2, <1>4, <2>2 DEF AuOwned, m
  <2>7. ASSUME NEW c \in 0 .. s.nb - 1, r.buf[c].sem = 0
        PROVE  (\E v \in AuThreads : au_pc'[v] = "wcopy" /\ au_b'[v] = c) \/ \E i \in 1 .. m : s.q[i].b = c
    <3>1. c # b
      BY <1>7, <2>7
    <3>2. (\E v \in AuThreads : AuCopies(v, c)) \/ \E i \in 1 .. m : s.q[i].b = c
      BY <1>4, <2>7, <3>1 DEF AuOwned, m
    <3>. QED BY <1>7, <3>1, <3>2 DEF AuCopies
  <2>. QED BY <1>5, <2>3, <2>4, <2>5, <2>6, <2>7 DEF AuOwned, AuCopies, r
<1>. QED BY <1>6, <1>7 DEF r

(* The DMA has done with the first buffer.                                 *)
LEMMA AuOwnedPlayed ==
  ASSUME NEW s, s = output_stream, AuTyped, AuOwned, s.q # <<>>, NEW b \in 0 .. s.nb - 1, b = s.q[1].b,
         output_stream'.nb = s.nb, AuOthers(s, output_stream', b), output_stream'.q = Tail(s.q),
         output_stream'.buf[b].sem = s.buf[b].sem + 1,
         UNCHANGED <<au_pc, au_b>>,
         \A i \in 1 .. Len(s.q) : s.q[i].b < s.nb,
         \A u \in AuThreads : au_pc[u] = "wcopy" => au_b[u] < s.nb
  PROVE  AuOwned'
<1>. DEFINE r == output_stream' m == Len(output_stream.q)
<1>1. s.q \in Seq(AuEntry) /\ s.nb \in Nat /\ au_b \in [AuThreads -> Nat] /\ AuFormed(s)
  BY AuFormedIs DEF AuTyped
<1>2. m \in Nat /\ m >= 1 /\ Len(r.q) = m - 1 /\ \A i \in 1 .. m - 1 : r.q[i] = s.q[i + 1]
  BY <1>1
<1>3. \A i \in 1 .. m : s.q[i].b \in 0 .. s.nb - 1
  BY <1>1, AuFormedIs
<1>4. \A u \in AuThreads : au_pc[u] = "wcopy" => au_b[u] \in 0 .. s.nb - 1
  BY <1>1
<1>. HIDE DEF r, m
<1>5. \A i \in 1 .. m - 1 : i + 1 \in 1 .. m /\ i + 1 # 1
  BY <1>2
<1>6. 1 \in 1 .. m
  BY <1>2
<1>7. s.buf[b].sem = 0 /\ r.buf[b].sem = 1
  BY <1>6 DEF AuOwned, m, r
<1>8. \A c \in 0 .. s.nb - 1 : c # b => r.buf[c].sem = s.buf[c].sem
  BY DEF AuOthers, r
<1>9. \A i \in 1 .. m : i # 1 => s.q[i].b # b
  BY <1>6 DEF AuOwned, m
<1>10. \A u \in AuThreads : ~ AuCopies(u, b)
  BY <1>6 DEF AuOwned, AuCopies, m
<1>11. \A c \in 0 .. s.nb - 1 : r.buf[c].sem \in {0, 1}
  BY <1>7, <1>8 DEF AuOwned
<1>12. \A v \in AuThreads : au_pc[v] = "wcopy" => r.buf[au_b[v]].sem = 0 /\ \A i \in 1 .. m - 1 : r.q[i].b # au_b[v]
  BY <1>2, <1>4, <1>5, <1>8, <1>10 DEF AuOwned, AuCopies, m
<1>13. ASSUME NEW i \in 1 .. m - 1 PROVE r.buf[r.q[i].b].sem = 0
  <2>1. s.buf[s.q[i + 1].b].sem = 0
    BY <1>5 DEF AuOwned, m
  <2>2. r.q[i] = s.q[i + 1] /\ s.q[i + 1].b \in 0 .. s.nb - 1 /\ s.q[i + 1].b # b
    BY <1>2, <1>3, <1>5, <1>9
  <2>3. r.buf[s.q[i + 1].b].sem = s.buf[s.q[i + 1].b].sem
    BY <1>8, <2>2
  <2>. QED BY <2>1, <2>2, <2>3
<1>14. \A i, j \in 1 .. m - 1 : r.q[i].b = r.q[j].b => i = j
  <2>. SUFFICES ASSUME NEW i \in 1 .. m - 1, NEW j \in 1 .. m - 1, r.q[i].b = r.q[j].b PROVE i = j
    OBVIOUS
  <2>1. s.q[i + 1].b = s.q[j + 1].b /\ i + 1 \in 1 .. m /\ j + 1 \in 1 .. m
    BY <1>2, <1>5
  <2>2. i + 1 = j + 1
    BY <2>1 DEF AuOwned, m
  <2>. QED BY <2>2
<1>15. ASSUME NEW c \in 0 .. s.nb - 1, r.buf[c].sem = 0
       PROVE  (\E v \in AuThreads : AuCopies(v, c)) \/ \E i \in 1 .. m - 1 : r.q[i].b = c
  <2>1. c # b
    BY <1>7, <1>15
  <2>2. (\E v \in AuThreads : AuCopies(v, c)) \/ \E i \in 1 .. m : s.q[i].b = c
    BY <1>8, <1>15, <2>1 DEF AuOwned, m
  <2>3. ASSUME NEW i \in 1 .. m, s.q[i].b = c PROVE \E j \in 1 .. m - 1 : r.q[j].b = c
    <3>1. i # 1
      BY <2>1, <2>3
    <3>2. i - 1 \in 1 .. m - 1 /\ (i - 1) + 1 = i
      BY <1>2, <3>1
    <3>3. r.q[i - 1] = s.q[i]
      BY <1>2, <3>2
    <3>. QED BY <2>3, <3>2, <3>3
  <2>. QED BY <2>2, <2>3
<1>16. r.nb = s.nb
  BY DEF r
<1>17. \A t, u \in AuThreads : au_pc[t] = "wcopy" /\ au_pc[u] = "wcopy" /\ au_b[u] = au_b[t] => t = u
  BY DEF AuOwned, AuCopies
<1>18. UNCHANGED <<au_pc, au_b>>
  OBVIOUS
<1>. QED BY ONLY <1>2, <1>11, <1>12, <1>13, <1>14, <1>15, <1>16, <1>17, <1>18, Zenon DEF AuOwned, AuCopies, r

LEMMA AuFailedStays == AuNext /\ ~ au_failed' => ~ au_failed
<1>. SUFFICES ASSUME AuNext, au_failed PROVE au_failed'
  OBVIOUS
<1>1. ASSUME NEW mode \in AuModes, AuOpen(mode) PROVE au_failed'
  BY <1>1 DEF AuOpen, auFlags
<1>2. CASE AuReleaseIn \/ AuDmaOut \/ AuDmaIn
  BY <1>2, Zenon DEF AuReleaseIn, AuDmaOut, AuDmaIn, auFlags
<1>3. ASSUME NEW t \in AuThreads, AuRelease(t) \/ AuSyncReturn(t) PROVE au_failed'
  BY <1>3 DEF AuRelease, AuSyncReturn, AuReleaseDone, auFlags
<1>4. ASSUME NEW t \in AuThreads, AuSync(t) \/ AuSyncDown(t) \/ AuSyncDone(t) PROVE au_failed'
  BY <1>4 DEF AuSync, AuSyncDown, AuSyncDone, auFlags
<1>5. ASSUME NEW t \in AuThreads, AuWriteDown(t) \/ AuWriteStop(t) \/ AuWriteFault(t) PROVE au_failed'
  BY <1>5 DEF AuWriteDown, AuWriteStop, AuWriteFault, auFlags
<1>6. ASSUME NEW t \in AuThreads, AuWriteCopy(t) PROVE au_failed'
  BY <1>6 DEF AuWriteCopy
<1>7. ASSUME NEW t \in AuThreads, AuReadDown(t) \/ AuReadStop(t) \/ AuReadFault(t) \/ AuReadCopy(t) PROVE au_failed'
  BY <1>7 DEF AuReadDown, AuReadStop, AuReadFault, AuReadCopy, auFlags
<1>8. ASSUME NEW t \in AuThreads, NEW count \in AuCounts, AuWrite(t, count) \/ AuRead(t, count) PROVE au_failed'
  BY <1>8 DEF AuWrite, AuRead
<1>9. ASSUME NEW t \in AuThreads, NEW f \in au_files, AuPoll(t, f) \/ AuReset(t, f) PROVE au_failed'
  BY <1>9 DEF AuPoll, AuReset, auFlags
<1>10. ASSUME NEW t \in AuThreads, NEW f \in au_files, NEW shape \in AuShapes, AuSetFragment(t, f, shape) PROVE au_failed'
  BY <1>10 DEF AuSetFragment, auFlags
<1>11. ASSUME NEW t \in AuThreads, AuMeet(t) PROVE au_failed'
  BY <1>11 DEF AuMeet
<1>. QED BY <1>1, <1>2, <1>3, <1>4, <1>5, <1>6, <1>7, <1>8, <1>9, <1>10, <1>11 DEF AuNext

LEMMA AuOwnedNext ==
  ASSUME AuBase, ~ au_failed => AuOwned, AuNext, ~ au_oops', ~ au_failed'
  PROVE  AuOwned'
<1>1. AuTyped /\ AuHeld /\ AuTyped' /\ AuOwned
  BY AuTypedNext, AuFailedStays DEF AuBase, AuNext
<1>2. /\ AuFormed(output_stream) /\ au_pc \in [AuThreads -> AuPlaces] /\ au_b \in [AuThreads -> Nat]
      /\ AuFormed(output_stream') /\ output_stream.nb \in Nat
  BY <1>1, AuFormedIs DEF AuTyped
<1>3. /\ \A u \in AuThreads : au_pc[u] = "wcopy" => au_b[u] < output_stream.nb /\ output_stream.set
      /\ \A i \in 1 .. Len(output_stream.q) : output_stream.q[i].b < output_stream.nb
  BY <1>1 DEF AuHeld, AuOut
<1>4. ASSUME NEW t \in AuThreads, NEW p, NEW b, NEW left, AuGo(t, p, b, left)
      PROVE  /\ au_pc'[t] = p /\ au_b'[t] = b
             /\ \A u \in AuThreads : u # t => au_pc'[u] = au_pc[u] /\ au_b'[u] = au_b[u]
  BY <1>1, <1>4, AuWent
<1>5. ASSUME NEW t \in AuThreads, AuReturn(t)
      PROVE  au_pc'[t] = "user" /\ \A u \in AuThreads : u # t => au_pc'[u] = au_pc[u] /\ au_b'[u] = au_b[u]
  <2>1. AuGo(t, "user", 0, 0)
    BY <1>5 DEF AuReturn
  <2>. QED BY <1>4, <2>1
<1>6. output_stream' = AuNoBuffers /\ (\A u \in AuThreads : au_pc'[u] # "wcopy") => AuOwned'
  <2>1. AuNoBuffers.q = <<>> /\ AuNoBuffers.nb = 0
    BY AuEmpty
  <2>2. \A b \in 0 .. 0 - 1 : AuNoBuffers.buf[b].sem = 1
    OBVIOUS
  <2>. QED BY <1>2, <2>1, <2>2, AuOwnedFresh
<1>7. ASSUME NEW shape \in (Nat \ {0, 1}) \X (Nat \ {0}), output_stream' = AuSetup(shape),
             \A u \in AuThreads : au_pc'[u] # "wcopy"
      PROVE  AuOwned'
  <2>1. /\ output_stream'.q = <<>> /\ output_stream'.nb = shape[1]
        /\ \A b \in 0 .. shape[1] - 1 : output_stream'.buf[b] = [size |-> 0, data |-> <<>>, sem |-> 1]
    BY <1>7, AuSetupFormed
  <2>2. \A b \in 0 .. output_stream'.nb - 1 : output_stream'.buf[b].sem = 1
    BY <2>1
  <2>. QED BY <1>2, <1>7, <2>1, <2>2, AuOwnedFresh
<1>8. output_stream' = output_stream /\ UNCHANGED <<au_pc, au_b>> => AuOwned'
  BY <1>1, AuOwnedSame
(* A thread that has nothing of the output goes on or returns.             *)
<1>9. ASSUME NEW t \in AuThreads, au_pc[t] # "wcopy", au_pc'[t] # "wcopy", output_stream' = output_stream,
             \A u \in AuThreads : u # t => au_pc'[u] = au_pc[u] /\ au_b'[u] = au_b[u]
      PROVE  AuOwned'
  BY <1>1, <1>9, AuOwnedSame
<1>10. /\ au_shape \in (Nat \ {0, 1}) \X (Nat \ {0})
       /\ \A shape \in AuShapes : shape \in (Nat \ {0, 1}) \X (Nat \ {0})
  BY <1>1, AudioAssumption DEF AuTyped
<1>11. ASSUME NEW t \in AuThreads, AuSyncFrom(t), au_pc[t] = "user", output_stream' = output_stream
       PROVE  AuOwned'
  <2>1. AuGo(t, "sdown", output_stream.idx, 0) \/ AuGo(t, "swait", AuPrev(output_stream), 0)
    BY <1>11 DEF AuSyncFrom
  <2>2. au_pc'[t] # "wcopy" /\ \A u \in AuThreads : u # t => au_pc'[u] = au_pc[u] /\ au_b'[u] = au_b[u]
    BY <1>4, <2>1
  <2>. QED BY <1>9, <1>11, <2>2
<1>12. ASSUME NEW mode \in AuModes, AuOpen(mode) PROVE AuOwned'
  BY <1>8, <1>12 DEF AuOpen, auCalls
<1>13. CASE AuReleaseIn \/ AuDmaIn
  BY <1>8, <1>13 DEF AuReleaseIn, AuDmaIn, auCalls
<1>14. CASE AuDmaOut
  <2>1. UNCHANGED <<au_pc, au_b>>
    BY <1>14, Zenon DEF AuDmaOut, auCalls
  <2>. DEFINE s == output_stream b == output_stream.q[1].b
  <2>2. /\ s.q # <<>> /\ b \in 0 .. s.nb - 1 /\ AuSame(s, s') /\ AuOthers(s, s', b) /\ s'.q = Tail(s.q)
        /\ s'.buf[b].sem = s.buf[b].sem + 1
    BY <1>1, <1>14, AuDmaOutIs
  <2>3. s'.nb = s.nb
    BY <2>2 DEF AuSame
  <2>. QED BY <1>1, <1>3, <2>1, <2>2, <2>3, AuOwnedPlayed
<1>15. ASSUME NEW t \in AuThreads, AuRelease(t) PROVE AuOwned'
  <2>1. CASE output_stream.set
    BY <1>11, <1>15, <2>1 DEF AuRelease
  <2>2. CASE ~ output_stream.set
    <3>1. output_stream' = AuNoBuffers /\ UNCHANGED <<au_pc, au_b>>
      BY <1>15, <2>2 DEF AuRelease, AuReleaseDone, AuClearOut, auCalls
    <3>. QED BY <1>3, <1>6, <2>2, <3>1
  <2>. QED BY <2>1, <2>2
<1>16. ASSUME NEW t \in AuThreads, AuSync(t) PROVE AuOwned'
  BY <1>11, <1>16 DEF AuSync, AuCall, AuReady
<1>17. ASSUME NEW t \in AuThreads, AuSyncDown(t) PROVE AuOwned'
  <2>. DEFINE s == output_stream b == au_b[t]
  <2>1. /\ au_pc[t] = "sdown" /\ b \in 0 .. s.nb - 1 /\ s.buf[b].sem = 1
        /\ AuSame(s, s') /\ AuOthers(s, s', b) /\ s'.q = Append(s.q, [b |-> b, n |-> s.buf[b].size])
        /\ s'.buf[b].sem = 0 /\ AuGo(t, "swait", s.idx, 0)
    BY <1>1, <1>17, AuSyncDownIs
  <2>2. s'.nb = s.nb
    BY <2>1 DEF AuSame
  <2>3. au_pc'[t] = "swait" /\ \A u \in AuThreads : u # t => au_pc'[u] = au_pc[u] /\ au_b'[u] = au_b[u]
    BY <1>4, <2>1
  <2>4. (\A i \in 1 .. Len(s.q) : s.q[i].b # b) /\ \A u \in AuThreads : au_pc[u] = "wcopy" => au_b[u] # b
    BY <1>1, <2>1 DEF AuOwned
  <2>5. \A u \in AuThreads : au_pc'[u] = "wcopy" <=> au_pc[u] = "wcopy" /\ au_b[u] # b
    BY <2>1, <2>3, <2>4
  <2>6. \A u \in AuThreads : au_pc'[u] = "wcopy" => au_b'[u] = au_b[u]
    BY <2>3
  <2>. HIDE DEF b
  <2>. QED BY <1>1, <1>3, <2>1, <2>2, <2>4, <2>5, <2>6, AuOwnedQueued
<1>18. ASSUME NEW t \in AuThreads, AuSyncDone(t) PROVE AuOwned'
  <2>1. au_pc[t] = "swait" /\ AuGo(t, "synced", 0, 0) /\ output_stream' = output_stream
    BY <1>18 DEF AuSyncDone
  <2>. QED BY <1>4, <1>9, <2>1
<1>19. ASSUME NEW t \in AuThreads, AuSyncReturn(t) PROVE AuOwned'
  <2>1. au_pc[t] \in {"swait", "synced"} /\ AuReturn(t)
    BY <1>19 DEF AuSyncReturn
  <2>2. CASE au_close
    <3>1. output_stream' = AuNoBuffers
      BY <1>19, <2>2 DEF AuSyncReturn, AuReleaseDone, AuClearOut
    <3>2. \A u \in AuThreads : u # t => au_pc[u] # "wcopy"
      BY <1>1, <2>1, <2>2 DEF AuHeld, AuOut
    <3>. QED BY <1>5, <1>6, <2>1, <3>1, <3>2
  <2>3. CASE ~ au_close
    <3>1. output_stream' = output_stream
      BY <1>19, <2>3 DEF AuSyncReturn
    <3>. QED BY <1>5, <1>9, <2>1, <3>1
  <2>. QED BY <2>2, <2>3
<1>20. ASSUME NEW t \in AuThreads, AuWriteDown(t) \/ AuWriteFault(t) PROVE AuOwned'
  <2>. DEFINE s == output_stream b == au_b[t]
  <2>1. b < s.nb /\ b \in Nat
    <3>1. au_pc[t] \in AuOut
      BY <1>20 DEF AuWriteDown, AuWriteFault, AuOut
    <3>. QED BY <1>1, <1>2, <3>1 DEF AuHeld
  <2>2. b \in 0 .. s.nb - 1
    BY <1>2, <2>1
  <2>3. PICK n \in {0, 1} :
          /\ s' = AuSem(s, b, n)
          /\ \/ n = 0 /\ au_pc[t] = "wdown" /\ s.buf[b].sem = 1 /\ AuGo(t, "wcopy", b, au_left[t])
             \/ n = 1 /\ au_pc[t] = "wcopy" /\ AuReturn(t)
    BY <1>20 DEF AuWriteDown, AuWriteFault
  <2>4. AuSame(s, s') /\ AuOthers(s, s', b) /\ s'.q = s.q /\ s'.buf[b].sem = n
    <3>1. n \in Nat
      OBVIOUS
    <3>. QED BY <1>2, <2>2, <2>3, <3>1, AuSemIs
  <2>5. s'.nb = s.nb
    BY <2>4 DEF AuSame
  <2>6. CASE n = 0 /\ au_pc[t] = "wdown" /\ s.buf[b].sem = 1 /\ AuGo(t, "wcopy", b, au_left[t])
    <3>1. au_pc'[t] = "wcopy" /\ au_b'[t] = b /\ \A u \in AuThreads : u # t => au_pc'[u] = au_pc[u] /\ au_b'[u] = au_b[u]
      BY <1>4, <2>6
    <3>2. s.buf[b].sem = 1 /\ s'.buf[b].sem = 0 /\ au_pc[t] # "wcopy"
      BY <2>4, <2>6
    <3>. QED BY <1>1, <1>3, <2>2, <2>4, <2>5, <3>1, <3>2, AuOwnedTaken
  <2>7. CASE n = 1 /\ au_pc[t] = "wcopy" /\ AuReturn(t)
    <3>1. au_pc'[t] # "wcopy" /\ \A u \in AuThreads : u # t => au_pc'[u] = au_pc[u] /\ au_b'[u] = au_b[u]
      BY <1>5, <2>7
    <3>2. s'.buf[b].sem = 1 /\ au_pc[t] = "wcopy"
      BY <2>4, <2>7
    <3>. QED BY <1>1, <1>3, <2>2, <2>4, <2>5, <3>1, <3>2, AuOwnedTaken
  <2>. QED BY <2>3, <2>6, <2>7
<1>21. ASSUME NEW t \in AuThreads, AuWriteStop(t) \/ AuReadStop(t) PROVE AuOwned'
  <2>1. au_pc[t] # "wcopy" /\ AuReturn(t) /\ output_stream' = output_stream
    BY <1>21 DEF AuWriteStop, AuReadStop
  <2>. QED BY <1>5, <1>9, <2>1
<1>22. ASSUME NEW t \in AuThreads, AuWriteCopy(t) PROVE AuOwned'
  <2>. DEFINE s == output_stream b == au_b[t]
  <2>1. au_pc[t] = "wcopy" /\ b \in 0 .. s.nb - 1 /\ AuSame(s, s') /\ AuOthers(s, s', b)
    BY <1>1, <1>22, AuWriteCopyIs
  <2>2. s'.nb = s.nb /\ s.buf[b].sem = 0
    BY <1>1, <2>1 DEF AuSame, AuOwned
  <2>3. \/ s'.q = s.q /\ s'.buf[b].sem = 1 /\ AuReturn(t)
        \/ /\ s'.q = Append(s.q, [b |-> b, n |-> s.frag]) /\ s'.buf[b].sem = s.buf[b].sem
           /\ AuReturn(t) \/ \E left \in Nat : AuGo(t, "wdown", AuAfter(s), left)
    <3>1. PICK n \in Nat : AuCopied(t, s, b, n)
      BY <1>1, <1>22, AuWriteCopyIs
    <3>. QED BY <3>1, Zenon DEF AuCopied
  <2>4. au_pc'[t] # "wcopy" /\ \A u \in AuThreads : u # t => au_pc'[u] = au_pc[u] /\ au_b'[u] = au_b[u]
    <3>1. CASE AuReturn(t)
      BY <1>5, <3>1
    <3>2. ASSUME NEW left \in Nat, AuGo(t, "wdown", AuAfter(s), left)
          PROVE  au_pc'[t] # "wcopy" /\ \A u \in AuThreads : u # t => au_pc'[u] = au_pc[u] /\ au_b'[u] = au_b[u]
      BY <1>4, <3>2
    <3>. QED BY <2>3, <3>1, <3>2
  <2>5. CASE s'.q = s.q /\ s'.buf[b].sem = 1
    BY <1>1, <1>3, <2>1, <2>2, <2>4, <2>5, AuOwnedTaken
  <2>6. CASE s'.q = Append(s.q, [b |-> b, n |-> s.frag]) /\ s'.buf[b].sem = s.buf[b].sem
    <3>1. s'.buf[b].sem = 0
      BY <2>2, <2>6
    <3>2. \A i \in 1 .. Len(s.q) : s.q[i].b # b
      BY <1>1, <2>1 DEF AuOwned
    <3>3. \A u \in AuThreads : au_pc'[u] = "wcopy" <=> au_pc[u] = "wcopy" /\ au_b[u] # b
      BY <1>1, <2>1, <2>4 DEF AuOwned, AuCopies
    <3>4. \A u \in AuThreads : au_pc'[u] = "wcopy" => au_b'[u] = au_b[u]
      BY <2>4
    <3>. HIDE DEF b
    <3>. QED BY <1>1, <1>3, <2>1, <2>2, <2>6, <3>1, <3>2, <3>3, <3>4, AuOwnedQueued
  <2>. QED BY <2>3, <2>5, <2>6
<1>23. ASSUME NEW t \in AuThreads, AuReadDown(t) \/ AuReadFault(t) PROVE AuOwned'
  <2>1. au_pc[t] # "wcopy" /\ output_stream' = output_stream /\ (AuReturn(t) \/ AuGo(t, "rcopy", au_b[t], au_left[t]))
    BY <1>23 DEF AuReadDown, AuReadFault
  <2>2. au_pc'[t] # "wcopy" /\ \A u \in AuThreads : u # t => au_pc'[u] = au_pc[u] /\ au_b'[u] = au_b[u]
    <3>1. CASE AuReturn(t)
      BY <1>5, <3>1
    <3>2. CASE AuGo(t, "rcopy", au_b[t], au_left[t])
      BY <1>4, <3>2
    <3>. QED BY <2>1, <3>1, <3>2
  <2>. QED BY <1>9, <2>1, <2>2
<1>24. ASSUME NEW t \in AuThreads, AuReadCopy(t) PROVE AuOwned'
  <2>1. au_pc[t] # "wcopy" /\ output_stream' = output_stream
    BY <1>24 DEF AuReadCopy
  <2>2. PICK n \in Nat :
          /\ au_heard' = au_heard + n
          /\ AuReturn(t) \/ \E left \in Nat : AuGo(t, "rdown", AuAfter(input_stream), left)
    BY <1>1, <1>24, AuReadCopyIs DEF AuReadOut
  <2>3. CASE AuReturn(t)
    BY <1>5, <1>9, <2>1, <2>3
  <2>4. ASSUME NEW left \in Nat, AuGo(t, "rdown", AuAfter(input_stream), left) PROVE AuOwned'
    BY <1>4, <1>9, <2>1, <2>4
  <2>. QED BY <2>2, <2>3, <2>4
<1>25. ASSUME NEW t \in AuThreads, NEW count \in AuCounts, AuWrite(t, count) PROVE AuOwned'
  <2>0. CASE UNCHANGED <<output_stream, auCalls>>
    BY <1>8, <2>0 DEF auCalls
  <2>. SUFFICES ASSUME ~ UNCHANGED <<output_stream, auCalls>> PROVE AuOwned'
    BY <2>0
  <2>1. /\ au_pc[t] = "user" /\ AuGo(t, "wdown", output_stream'.idx, count)
        /\ output_stream' = IF output_stream.set THEN output_stream ELSE AuSetup(au_shape)
    BY <1>25 DEF AuWrite, AuCall, AuReady
  <2>2. au_pc'[t] = "wdown" /\ \A u \in AuThreads : u # t => au_pc'[u] = au_pc[u] /\ au_b'[u] = au_b[u]
    BY <1>4, <2>1
  <2>3. CASE output_stream.set
    BY <1>9, <2>1, <2>2, <2>3
  <2>4. CASE ~ output_stream.set
    <3>1. \A u \in AuThreads : au_pc'[u] # "wcopy"
      BY <1>3, <2>2, <2>4
    <3>. QED BY <1>7, <1>10, <2>1, <2>4, <3>1
  <2>. QED BY <2>3, <2>4
<1>26. ASSUME NEW t \in AuThreads, NEW count \in AuCounts, AuRead(t, count) PROVE AuOwned'
  <2>0. CASE UNCHANGED auCalls
    BY <1>8, <1>26, <2>0 DEF AuRead, auCalls
  <2>. SUFFICES ASSUME ~ UNCHANGED auCalls PROVE AuOwned'
    BY <2>0
  <2>1. au_pc[t] = "user" /\ AuGo(t, "rdown", input_stream'.idx, count) /\ output_stream' = output_stream
    BY <1>26 DEF AuRead, AuCall, AuReady
  <2>. QED BY <1>4, <1>9, <2>1
<1>27. ASSUME NEW f, NEW first, NEW shape \in (Nat \ {0, 1}) \X (Nat \ {0}), AuSetupAs(f, shape, first), UNCHANGED <<au_pc, au_b>>
       PROVE  AuOwned'
  <2>1. output_stream' = output_stream \/ (~ output_stream.set /\ output_stream' = AuSetup(shape))
    BY <1>27 DEF AuSetupAs
  <2>2. CASE ~ output_stream.set /\ output_stream' = AuSetup(shape)
    BY <1>3, <1>7, <1>27, <2>2
  <2>. QED BY <1>8, <1>27, <2>1, <2>2
<1>28. ASSUME NEW t \in AuThreads, NEW f \in au_files, AuPoll(t, f) PROVE AuOwned'
  BY <1>10, <1>27, <1>28 DEF AuPoll, auCalls
<1>29. ASSUME NEW t \in AuThreads, NEW f \in au_files, NEW shape \in AuShapes, AuSetFragment(t, f, shape)
       PROVE  AuOwned'
  BY <1>10, <1>27, <1>29 DEF AuSetFragment, auCalls
<1>30. ASSUME NEW t \in AuThreads, NEW f \in au_files, AuReset(t, f) PROVE AuOwned'
  <2>1. UNCHANGED <<au_pc, au_b>> /\ AuFreeOf(AuStreams(f))
    BY <1>30 DEF AuReset, auCalls
  <2>2. CASE AuPlayer(f)
    <3>1. f \in {"r", "w", "rw"} /\ output_stream' = AuNoBuffers
      BY <1>1, <1>30, <2>2 DEF AuReset, AuClearOut, AuTyped
    <3>2. \A u \in AuThreads : au_pc[u] \notin AuOut
      BY <2>1, <2>2, <3>1, AuPlace
    <3>. QED BY <1>6, <2>1, <3>1, <3>2 DEF AuOut
  <2>3. CASE ~ AuPlayer(f)
    BY <1>8, <1>30, <2>1, <2>3 DEF AuReset
  <2>. QED BY <2>2, <2>3
<1>31. ASSUME NEW t \in AuThreads, AuMeet(t) PROVE AuOwned'
  BY <1>31 DEF AuMeet
<1>. QED BY <1>12, <1>13, <1>14, <1>15, <1>16, <1>17, <1>18, <1>19, <1>20, <1>21, <1>22, <1>23, <1>24, <1>25,
            <1>26, <1>28, <1>29, <1>30, <1>31 DEF AuNext

LEMMA AuStart == AuInit => AuBase /\ AuOwned
<1>. SUFFICES ASSUME AuInit PROVE AuBase /\ AuOwned
  OBVIOUS
<1>1. /\ au_files = {} /\ au_shape = AuDefault /\ output_stream = AuNoBuffers /\ input_stream = AuNoBuffers
      /\ au_pc = [t \in AuThreads |-> "user"] /\ au_b = [t \in AuThreads |-> 0] /\ au_left = [t \in AuThreads |-> 0]
      /\ au_written = 0 /\ au_played = 0 /\ au_taped = 0 /\ au_heard = 0
  BY DEF AuInit
<1>2. AuTyped
  BY <1>1, AuEmpty, AudioAssumption DEF AuTyped, AuPlaces
<1>3. /\ ~ output_stream.set /\ ~ input_stream.set /\ Len(output_stream.q) = 0 /\ output_stream.nb = 0
      /\ \A t \in AuThreads : au_pc[t] = "user"
  BY <1>1, AuEmpty
<1>4. AuHeld
  BY <1>1, <1>3 DEF AuHeld, AuOut, AuInput
<1>5. AuOwned
  BY <1>3 DEF AuOwned, AuCopies
<1>. QED BY <1>2, <1>4, <1>5 DEF AuBase

LEMMA AuStutters == UNCHANGED auVars => (AuTyped => AuTyped') /\ (AuHeld => AuHeld') /\ (AuOwned => AuOwned')
<1>. SUFFICES ASSUME UNCHANGED auVars PROVE (AuTyped => AuTyped') /\ (AuHeld => AuHeld') /\ (AuOwned => AuOwned')
  OBVIOUS
<1>1. UNCHANGED <<au_files, au_shape, output_stream, input_stream, au_pc, au_b, au_left, au_close, au_raced,
                  au_written, au_played, au_taped, au_heard>>
  BY DEF auVars, auCalls, auSound, auFlags
<1>2. (AuPlaying' <=> AuPlaying) /\ (AuRecording' <=> AuRecording)
  BY <1>1 DEF AuPlaying, AuRecording
<1>. QED BY <1>1, <1>2 DEF AuTyped, AuHeld, AuOwned, AuCopies

LEMMA AuBaseAlways == AuSpec => []AuBase
<1>1. AuInit => AuBase
  BY AuStart
<1>2. AuBase /\ [AuNext]_auVars => AuBase'
  <2>. SUFFICES ASSUME AuBase, [AuNext]_auVars PROVE AuBase'
    OBVIOUS
  <2>1. AuTyped'
    BY AuTypedNext
  <2>2. CASE AuNext
    BY <2>1, <2>2, AuHeldNext DEF AuBase
  <2>3. CASE UNCHANGED auVars
    <3>1. au_oops' = au_oops
      BY <2>3 DEF auVars, auFlags
    <3>. QED BY <2>1, <2>3, <3>1, AuStutters DEF AuBase
  <2>. QED BY <2>2, <2>3
<1>. QED BY <1>1, <1>2, PTL DEF AuSpec

LEMMA AuOwnedThen == AuBase /\ AuOwned => AuBufferOwned
<1>. SUFFICES ASSUME AuBase, AuOwned, NEW b \in DOMAIN output_stream.buf
     PROVE  LET owners == (AuUsers(b) \X {"call"}) \cup (AuQueued(output_stream, b) \X {"dma"})
            IN  /\ \A x, y \in owners : x = y
                /\ (owners = {}) = (output_stream.buf[b].sem = 1)
                /\ output_stream.buf[b].sem \in {0, 1}
  BY DEF AuBufferOwned
<1>. DEFINE s == output_stream
            users == AuUsers(b)
            queued == AuQueued(output_stream, b)
<1>1. b \in 0 .. s.nb - 1 /\ DOMAIN s.q = 1 .. Len(s.q)
  BY AuFormedIs DEF AuBase, AuTyped
<1>2. s.buf[b].sem \in {0, 1}
  BY <1>1 DEF AuOwned
<1>3. \A t \in users : t \in AuThreads /\ au_pc[t] = "wcopy" /\ au_b[t] = b
  BY DEF AuUsers
<1>4. \A i \in queued : i \in 1 .. Len(s.q) /\ s.q[i].b = b
  BY <1>1 DEF AuQueued
<1>5. \A t, u \in users : t = u
  BY <1>3 DEF AuOwned, AuCopies
<1>6. \A i, j \in queued : i = j
  BY <1>4 DEF AuOwned
<1>7. \A t \in users, i \in queued : FALSE
  BY <1>3, <1>4 DEF AuOwned
<1>8. (users # {} \/ queued # {}) <=> s.buf[b].sem = 0
  <2>1. ASSUME NEW t \in users PROVE s.buf[b].sem = 0
    BY <1>3 DEF AuOwned
  <2>2. ASSUME NEW i \in queued PROVE s.buf[b].sem = 0
    BY <1>4 DEF AuOwned
  <2>3. ASSUME s.buf[b].sem = 0 PROVE users # {} \/ queued # {}
    <3>1. CASE \E t \in AuThreads : AuCopies(t, b)
      BY <3>1 DEF AuCopies, AuUsers
    <3>2. CASE \E i \in 1 .. Len(s.q) : s.q[i].b = b
      BY <1>1, <3>2 DEF AuQueued
    <3>. QED BY <1>1, <2>3, <3>1, <3>2 DEF AuOwned
  <2>. QED BY <2>1, <2>2, <2>3
<1>. HIDE DEF users, queued
<1>9. \A x, y \in (users \X {"call"}) \cup (queued \X {"dma"}) : x = y
  BY <1>5, <1>6, <1>7
<1>10. ((users \X {"call"}) \cup (queued \X {"dma"}) = {}) <=> users = {} /\ queued = {}
  <2>1. (\A t \in users : <<t, "call">> \in users \X {"call"}) /\ \A i \in queued : <<i, "dma">> \in queued \X {"dma"}
    OBVIOUS
  <2>2. users = {} => users \X {"call"} = {}
    OBVIOUS
  <2>3. queued = {} => queued \X {"dma"} = {}
    OBVIOUS
  <2>. QED BY <2>1, <2>2, <2>3
<1>. QED BY <1>2, <1>8, <1>9, <1>10 DEF users, queued

(* A buffer of the output belongs to the call that fills it, or to the     *)
(* DMA, or to nobody (s3c2410-uda1341.c, the semaphores of the buffers).   *)
THEOREM BuffersOwned == AuSpec => []AuBufferOwned
<1>. DEFINE Inv == ~ au_oops /\ ~ au_failed => AuOwned
<1>1. AuInit => Inv
  BY AuStart
<1>2. AuBase /\ Inv /\ [AuNext]_auVars => Inv'
  <2>. SUFFICES ASSUME AuBase, Inv, [AuNext]_auVars, ~ au_oops', ~ au_failed' PROVE AuOwned'
    OBVIOUS
  <2>1. CASE AuNext
    <3>1. ~ au_oops
      BY <2>1 DEF AuNext
    <3>. QED BY <2>1, <3>1, AuOwnedNext
  <2>2. CASE UNCHANGED auVars
    <3>1. au_oops' = au_oops /\ au_failed' = au_failed
      BY <2>2 DEF auVars, auFlags
    <3>. QED BY <2>2, <3>1, AuStutters
  <2>. QED BY <2>1, <2>2
<1>3. AuBase /\ Inv => AuBufferOwned
  <2>1. CASE au_oops \/ au_failed
    BY ONLY <2>1, Zenon DEF AuBufferOwned
  <2>. QED BY <2>1, AuOwnedThen
<1>. QED BY <1>1, <1>2, <1>3, AuBaseAlways, PTL DEF AuSpec

-----------------------------------------------------------------------------
(* How the sound lies in the output: piece i of the queue is what was      *)
(* written from frame pos[i] on, and the current buffer has what is not    *)
(* queued yet.                                                             *)
AuPositions(s) == [1 .. Len(s.q) + 1 -> Nat]
AuLaid(s, pos, played, written) ==
  /\ pos[1] = played
  /\ \A i \in 1 .. Len(s.q) : pos[i + 1] = pos[i] + s.q[i].n
  /\ \A i \in 1 .. Len(s.q) : s.q[i].n <= Len(s.buf[s.q[i].b].data)
  /\ \A i \in 1 .. Len(s.q) : \A k \in 1 .. s.q[i].n : s.buf[s.q[i].b].data[k] = pos[i] + k
  /\ written = pos[Len(s.q) + 1] + s.buf[s.idx].size
  /\ \A k \in 1 .. s.buf[s.idx].size : s.buf[s.idx].data[k] = pos[Len(s.q) + 1] + k
AuWhole(s, played, written) == \E pos \in AuPositions(s) : AuLaid(s, pos, played, written)

LEMMA AuLaidLike ==
  ASSUME NEW s, NEW r, r.q = s.q, \A i \in 1 .. Len(s.q) : r.buf[s.q[i].b].data = s.buf[s.q[i].b].data,
         NEW pos, NEW played, NEW written, AuLaid(s, pos, played, written), NEW now,
         now = pos[Len(s.q) + 1] + r.buf[r.idx].size,
         \A k \in 1 .. r.buf[r.idx].size : r.buf[r.idx].data[k] = pos[Len(s.q) + 1] + k
  PROVE  AuLaid(r, pos, played, now)
<1>1. /\ pos[1] = played
      /\ \A i \in 1 .. Len(s.q) : pos[i + 1] = pos[i] + s.q[i].n
      /\ \A i \in 1 .. Len(s.q) : s.q[i].n <= Len(s.buf[s.q[i].b].data)
      /\ \A i \in 1 .. Len(s.q) : \A k \in 1 .. s.q[i].n : s.buf[s.q[i].b].data[k] = pos[i] + k
  BY DEF AuLaid
<1>2. \A i \in 1 .. Len(s.q) : s.q[i].n <= Len(r.buf[s.q[i].b].data)
  BY <1>1
<1>3. \A i \in 1 .. Len(s.q) : \A k \in 1 .. s.q[i].n : r.buf[s.q[i].b].data[k] = pos[i] + k
  BY <1>1
<1>. QED BY <1>1, <1>2, <1>3 DEF AuLaid

LEMMA AuWholeSame ==
  ASSUME NEW s, AuFormed(s), s.set, \A i \in 1 .. Len(s.q) : s.q[i].b < s.nb,
         NEW r, r.q = s.q, r.idx = s.idx,
         \A b \in 0 .. s.nb - 1 : r.buf[b].size = s.buf[b].size /\ r.buf[b].data = s.buf[b].data,
         NEW played, NEW written, AuWhole(s, played, written)
  PROVE  AuWhole(r, played, written)
<1>1. PICK pos \in AuPositions(s) : AuLaid(s, pos, played, written)
  BY DEF AuWhole
<1>2. s.idx \in 0 .. s.nb - 1 /\ \A i \in 1 .. Len(s.q) : s.q[i].b \in 0 .. s.nb - 1
  BY AuFormedIs
<1>3. r.buf[r.idx].size = s.buf[s.idx].size /\ r.buf[r.idx].data = s.buf[s.idx].data
  BY <1>2
<1>4. \A i \in 1 .. Len(s.q) : r.buf[s.q[i].b].data = s.buf[s.q[i].b].data
  BY <1>2
<1>5. /\ written = pos[Len(s.q) + 1] + r.buf[r.idx].size
      /\ \A k \in 1 .. r.buf[r.idx].size : r.buf[r.idx].data[k] = pos[Len(s.q) + 1] + k
  BY ONLY <1>1, <1>3 DEF AuLaid
<1>6. AuLaid(r, pos, played, written)
  BY <1>1, <1>4, <1>5, AuLaidLike
<1>. QED BY <1>1, <1>6 DEF AuWhole, AuPositions

LEMMA AuWholeFresh ==
  ASSUME NEW s, s.q = <<>>, s.buf[s.idx].size = 0, NEW written \in Nat
  PROVE  AuWhole(s, written, written)
<1>. DEFINE pos == [i \in 1 .. Len(s.q) + 1 |-> written]
<1>1. Len(s.q) = 0
  OBVIOUS
<1>2. pos \in AuPositions(s) /\ pos[1] = written
  BY <1>1 DEF AuPositions
<1>3. AuLaid(s, pos, written, written)
  BY <1>1, <1>2 DEF AuLaid
<1>. QED BY <1>2, <1>3 DEF AuWhole

(* n frames are put behind those of the current buffer.                    *)
LEMMA AuWholePut ==
  ASSUME NEW s, AuFormed(s), s.set, NEW r, r.q = s.q, r.idx = s.idx,
         \A i \in 1 .. Len(s.q) : s.q[i].b < s.nb /\ s.q[i].b # s.idx,
         AuOthers(s, r, s.idx), NEW n \in Nat, r.buf[s.idx].size = s.buf[s.idx].size + n,
         NEW played, NEW written \in Nat, AuWhole(s, played, written),
         \A k \in 1 .. s.buf[s.idx].size : r.buf[s.idx].data[k] = s.buf[s.idx].data[k],
         \A k \in 1 .. n : r.buf[s.idx].data[s.buf[s.idx].size + k] = written + k
  PROVE  AuWhole(r, played, written + n)
<1>1. PICK pos \in AuPositions(s) : AuLaid(s, pos, played, written)
  BY DEF AuWhole
<1>. DEFINE m == Len(s.q) + 1 size == s.buf[s.idx].size
<1>2. s.idx \in 0 .. s.nb - 1 /\ Len(s.q) \in Nat /\ \A i \in 1 .. Len(s.q) : s.q[i].b \in 0 .. s.nb - 1 /\ s.q[i].b # s.idx
  BY AuFormedIs
<1>3. size \in Nat /\ m \in 1 .. m /\ pos[m] \in Nat
  <2>1. size \in Nat
    BY <1>2, AuFormedIs, Zenon
  <2>2. m \in 1 .. m
    BY <1>2
  <2>. QED BY <1>1, <2>1, <2>2 DEF AuPositions
<1>4. written = pos[m] + size /\ \A k \in 1 .. size : s.buf[s.idx].data[k] = pos[m] + k
  BY ONLY <1>1, Zenon DEF AuLaid
<1>5. \A i \in 1 .. Len(s.q) : r.buf[s.q[i].b] = s.buf[s.q[i].b]
  BY <1>2, Zenon DEF AuOthers
<1>6. ASSUME NEW k \in 1 .. size + n PROVE r.buf[s.idx].data[k] = pos[m] + k
  <2>1. CASE k \in 1 .. size
    BY <1>4, <2>1, Zenon
  <2>2. CASE ~ k \in 1 .. size
    <3>. DEFINE j == k - size
    <3>. HIDE DEF size
    <3>1. j \in 1 .. n /\ k = size + j
      BY ONLY <1>3, <2>2
    <3>2. r.buf[s.idx].data[size + j] = written + j
      BY <3>1 DEF size
    <3>3. written + j = pos[m] + k
      BY ONLY <1>3, <1>4, <3>1
    <3>. QED BY <3>1, <3>2, <3>3
  <2>. QED BY <2>1, <2>2, Zenon
<1>7. written + n = pos[m] + (size + n)
  <2>. HIDE DEF size, m
  <2>. QED BY ONLY <1>3, <1>4
<1>8. AuLaid(r, pos, played, written + n)
  <2>1. /\ written + n = pos[m] + r.buf[r.idx].size
        /\ \A k \in 1 .. r.buf[r.idx].size : r.buf[r.idx].data[k] = pos[m] + k
    BY <1>6, <1>7
  <2>2. \A i \in 1 .. Len(s.q) : r.buf[s.q[i].b].data = s.buf[s.q[i].b].data
    BY <1>5, Zenon
  <2>. DEFINE now == written + n
  <2>3. /\ now = pos[Len(s.q) + 1] + r.buf[r.idx].size
        /\ \A k \in 1 .. r.buf[r.idx].size : r.buf[r.idx].data[k] = pos[Len(s.q) + 1] + k
    BY ONLY <2>1
  <2>5. r.q = s.q
    OBVIOUS
  <2>. HIDE DEF now, m, size
  <2>4. AuLaid(r, pos, played, now)
    BY ONLY <1>1, <2>2, <2>3, <2>5, AuLaidLike
  <2>. QED BY <2>4, Zenon DEF now
<1>. QED BY <1>1, <1>8 DEF AuWhole, AuPositions

(* The current buffer is queued, with the n frames that are in it then.    *)
LEMMA AuWholeQueued ==
  ASSUME NEW s, AuFormed(s), s.set, NEW r, NEW n \in Nat, r.q = Append(s.q, [b |-> s.idx, n |-> n]),
         \A i \in 1 .. Len(s.q) : s.q[i].b < s.nb /\ s.q[i].b # s.idx,
         AuOthers(s, r, s.idx), r.idx \in 0 .. s.nb - 1, r.buf[r.idx].size = 0,
         NEW played, NEW written \in Nat, AuWhole(s, played, written),
         n <= Len(r.buf[s.idx].data), NEW more \in Nat, n = s.buf[s.idx].size + more,
         \A k \in 1 .. s.buf[s.idx].size : r.buf[s.idx].data[k] = s.buf[s.idx].data[k],
         \A k \in 1 .. more : r.buf[s.idx].data[s.buf[s.idx].size + k] = written + k
  PROVE  AuWhole(r, played, written + more)
<1>1. PICK pos \in AuPositions(s) : AuLaid(s, pos, played, written)
  BY DEF AuWhole
<1>. DEFINE m == Len(s.q) + 1 size == s.buf[s.idx].size
            next == [i \in 1 .. m + 1 |-> IF i = m + 1 THEN pos[m] + n ELSE pos[i]]
<1>2. /\ s.idx \in 0 .. s.nb - 1 /\ Len(s.q) \in Nat /\ s.q \in Seq(AuEntry)
      /\ \A i \in 1 .. Len(s.q) : s.q[i].b \in 0 .. s.nb - 1 /\ s.q[i].b # s.idx
  <2>1. s.idx \in 0 .. s.nb - 1 /\ Len(s.q) \in Nat /\ s.q \in Seq(AuEntry) /\ s.nb \in Nat
    BY AuFormedIs
  <2>2. \A i \in 1 .. Len(s.q) : s.q[i].b \in Nat /\ s.q[i].b < s.nb /\ s.q[i].b # s.idx
    <3>1. \A i \in 1 .. Len(s.q) : s.q[i] \in AuEntry
      BY ONLY <2>1
    <3>2. \A i \in 1 .. Len(s.q) : s.q[i].b < s.nb /\ s.q[i].b # s.idx
      BY Zenon
    <3>. QED BY ONLY <3>1, <3>2 DEF AuEntry
  <2>. QED BY ONLY <2>1, <2>2
<1>0. /\ n \in Nat /\ more \in Nat /\ n = size + more /\ r.q = Append(s.q, [b |-> s.idx, n |-> n])
      /\ r.buf[r.idx].size = 0
  BY Zenon
<1>3. size \in Nat
  BY <1>2, AuFormedIs, Zenon
<1>4. written = pos[m] + size /\ \A k \in 1 .. size : s.buf[s.idx].data[k] = pos[m] + k
  BY ONLY <1>1, Zenon DEF AuLaid
<1>5. pos \in [1 .. m -> Nat]
  BY <1>1 DEF AuPositions
<1>6. m \in Nat /\ m >= 1 /\ Len(r.q) = m /\ r.q[m] = [b |-> s.idx, n |-> n] /\ \A i \in 1 .. m - 1 : r.q[i] = s.q[i]
  BY ONLY <1>0, <1>2
<1>7. \A i \in 1 .. Len(s.q) : r.buf[s.q[i].b] = s.buf[s.q[i].b]
  BY <1>2 DEF AuOthers
<1>8. Len(s.q) = m - 1
  BY ONLY <1>2
<1>. HIDE DEF size, m
<1>9. /\ next \in [1 .. m + 1 -> Nat] /\ next[m + 1] = pos[m] + n /\ \A i \in 1 .. m : next[i] = pos[i]
      /\ pos[m] \in Nat
  <2>1. \A i \in 1 .. m + 1 : i = m + 1 \/ i \in 1 .. m
    BY ONLY <1>6
  <2>2. \A i \in 1 .. m : i # m + 1 /\ i \in 1 .. m + 1
    BY ONLY <1>6
  <2>3. m \in 1 .. m /\ m + 1 \in 1 .. m + 1
    BY ONLY <1>6
  <2>4. pos[m] \in Nat /\ \A i \in 1 .. m : pos[i] \in Nat
    BY ONLY <1>5, <2>3
  <2>5. next[m + 1] = pos[m] + n
    BY ONLY <2>3
  <2>6. \A i \in 1 .. m : next[i] = pos[i]
    BY ONLY <2>2
  <2>. HIDE DEF next
  <2>7. \A i \in 1 .. m + 1 : next[i] \in Nat
    BY ONLY <1>0, <2>1, <2>4, <2>5, <2>6
  <2>8. next \in [1 .. m + 1 -> Nat]
    BY ONLY <2>7 DEF next
  <2>. QED BY ONLY <2>4, <2>5, <2>6, <2>8
<1>. HIDE DEF next
<1>10. \A i \in 1 .. m : i = m \/ i \in 1 .. m - 1
  BY ONLY <1>6
<1>11. next[1] = played
  <2>1. 1 \in 1 .. m
    BY ONLY <1>6
  <2>. QED BY ONLY <1>1, <1>9, <2>1, Zenon DEF AuLaid
<1>12. ASSUME NEW i \in 1 .. m PROVE next[i + 1] = next[i] + r.q[i].n
  <2>1. CASE i = m
    BY ONLY <1>6, <1>9, <2>1
  <2>2. CASE i \in 1 .. m - 1
    <3>1. i \in 1 .. m /\ i + 1 \in 1 .. m
      BY ONLY <1>6, <2>2
    <3>2. pos[i + 1] = pos[i] + s.q[i].n
      BY ONLY <1>1, <1>8, <2>2, Zenon DEF AuLaid
    <3>. QED BY ONLY <1>6, <1>9, <2>2, <3>1, <3>2
  <2>. QED BY <1>10, <2>1, <2>2, Zenon
<1>13. ASSUME NEW k \in 1 .. n PROVE r.buf[s.idx].data[k] = pos[m] + k
  <2>1. CASE k \in 1 .. size
    BY <1>4, <2>1 DEF size
  <2>2. CASE ~ k \in 1 .. size
    <3>. DEFINE j == k - size
    <3>0. k \in 1 .. n
      OBVIOUS
    <3>1. j \in 1 .. more /\ k = size + j
      BY ONLY <1>0, <1>3, <2>2, <3>0
    <3>2. r.buf[s.idx].data[size + j] = written + j
      BY <3>1 DEF size
    <3>. HIDE DEF j
    <3>3. written + j = pos[m] + k
      BY ONLY <1>0, <1>3, <1>4, <1>9, <3>1
    <3>. QED BY ONLY <3>1, <3>2, <3>3, Zenon
  <2>. QED BY ONLY <2>1, <2>2, Zenon
<1>14. ASSUME NEW i \in 1 .. m
       PROVE  /\ r.q[i].n <= Len(r.buf[r.q[i].b].data)
              /\ \A k \in 1 .. r.q[i].n : r.buf[r.q[i].b].data[k] = next[i] + k
  <2>1. CASE i = m
    <3>1. r.q[i].n = n /\ r.q[i].b = s.idx /\ next[i] = pos[m]
      BY ONLY <1>6, <1>9, <2>1
    <3>2. n <= Len(r.buf[s.idx].data)
      BY Zenon
    <3>. QED BY ONLY <1>13, <3>1, <3>2, Zenon
  <2>2. CASE i \in 1 .. m - 1
    <3>1. r.q[i] = s.q[i] /\ r.buf[s.q[i].b] = s.buf[s.q[i].b] /\ next[i] = pos[i]
      BY ONLY <1>6, <1>7, <1>8, <1>9, <2>2
    <3>0. i \in 1 .. Len(s.q)
      BY ONLY <1>8, <2>2
    <3>2. s.q[i].n <= Len(s.buf[s.q[i].b].data) /\ \A k \in 1 .. s.q[i].n : s.buf[s.q[i].b].data[k] = pos[i] + k
      BY ONLY <1>1, <3>0, Zenon DEF AuLaid
    <3>3. r.q[i].n = s.q[i].n /\ r.buf[r.q[i].b].data = s.buf[s.q[i].b].data
      BY ONLY <3>1
    <3>. QED BY ONLY <3>1, <3>2, <3>3
  <2>3. i = m \/ i \in 1 .. m - 1
    BY <1>10, Zenon
  <2>. QED BY ONLY <2>1, <2>2, <2>3, Zenon
<1>15. written + more = next[m + 1] + r.buf[r.idx].size
  BY ONLY <1>0, <1>3, <1>4, <1>9
<1>16. \A k \in 1 .. r.buf[r.idx].size : FALSE
  BY ONLY <1>0
<1>17. AuLaid(r, next, played, written + more)
  BY ONLY <1>6, <1>11, <1>12, <1>14, <1>15, <1>16, Zenon DEF AuLaid
<1>. QED BY ONLY <1>6, <1>9, <1>17, Zenon DEF AuWhole, AuPositions

(* The first piece of the queue is what is played next.                    *)
LEMMA AuWholePlayed ==
  ASSUME NEW s, AuFormed(s), s.set, s.q # <<>>, \A i \in 1 .. Len(s.q) : s.q[i].b < s.nb,
         NEW r, r.q = Tail(s.q), r.idx = s.idx,
         \A b \in 0 .. s.nb - 1 : r.buf[b].size = s.buf[b].size /\ r.buf[b].data = s.buf[b].data,
         NEW played \in Nat, NEW written, AuWhole(s, played, written)
  PROVE  /\ AuWhole(r, played + s.q[1].n, written)
         /\ SubSeq(s.buf[s.q[1].b].data, 1, s.q[1].n) = AuFrames(played, s.q[1].n)
<1>1. PICK pos \in AuPositions(s) : AuLaid(s, pos, played, written)
  BY DEF AuWhole
<1>. DEFINE m == Len(s.q) next == [i \in 1 .. m |-> pos[i + 1]]
<1>2. m \in Nat /\ m >= 1 /\ Len(r.q) = m - 1 /\ s.q \in Seq(AuEntry) /\ \A i \in 1 .. m - 1 : r.q[i] = s.q[i + 1]
  BY AuFormedIs
<1>3. s.idx \in 0 .. s.nb - 1 /\ \A i \in 1 .. m : s.q[i].b \in 0 .. s.nb - 1 /\ s.q[i].n \in Nat
  BY AuFormedIs
<1>4. pos \in [1 .. m + 1 -> Nat]
  BY <1>1 DEF AuPositions
<1>. HIDE DEF m
<1>5. next \in [1 .. (m - 1) + 1 -> Nat] /\ \A i \in 1 .. m : next[i] = pos[i + 1]
  <2>1. \A i \in 1 .. m : i + 1 \in 1 .. m + 1
    BY <1>2
  <2>2. (m - 1) + 1 = m
    BY <1>2
  <2>. QED BY <1>4, <2>1, <2>2
<1>. HIDE DEF next
<1>6. 1 \in 1 .. m
  BY <1>2
<1>7. pos[1] = played /\ pos[2] = played + s.q[1].n
  <2>1. pos[1 + 1] = pos[1] + s.q[1].n /\ pos[1] = played
    BY <1>1, <1>6, Zenon DEF AuLaid, m
  <2>. QED BY <2>1
<1>8. next[1] = played + s.q[1].n
  BY ONLY <1>5, <1>6, <1>7
<1>9. ASSUME NEW i \in 1 .. m - 1
      PROVE  /\ next[i + 1] = next[i] + r.q[i].n
             /\ r.q[i].n <= Len(r.buf[r.q[i].b].data)
             /\ \A k \in 1 .. r.q[i].n : r.buf[r.q[i].b].data[k] = next[i] + k
  <2>. DEFINE j == i + 1
  <2>1. j \in 1 .. m /\ i \in 1 .. m
    BY <1>2
  <2>2. next[i] = pos[j] /\ next[j] = pos[j + 1] /\ r.q[i] = s.q[j]
    BY <1>2, <1>5, <2>1, Zenon
  <2>. HIDE DEF j
  <2>3. /\ pos[j + 1] = pos[j] + s.q[j].n /\ s.q[j].n <= Len(s.buf[s.q[j].b].data)
        /\ \A k \in 1 .. s.q[j].n : s.buf[s.q[j].b].data[k] = pos[j] + k
    BY <1>1, <2>1 DEF AuLaid, m
  <2>4. r.buf[s.q[j].b].data = s.buf[s.q[j].b].data
    BY <1>3, <2>1
  <2>5. /\ next[j] = next[i] + r.q[i].n
        /\ r.q[i].n <= Len(r.buf[r.q[i].b].data)
        /\ \A k \in 1 .. r.q[i].n : r.buf[r.q[i].b].data[k] = next[i] + k
    <3>1. ASSUME NEW k \in 1 .. r.q[i].n PROVE r.buf[r.q[i].b].data[k] = next[i] + k
      <4>1. k \in 1 .. s.q[j].n
        BY <2>2
      <4>2. s.buf[s.q[j].b].data[k] = pos[j] + k
        BY <2>3, <4>1
      <4>3. r.buf[r.q[i].b].data = s.buf[s.q[j].b].data
        BY <2>2, <2>4
      <4>. QED BY <2>2, <4>2, <4>3
    <3>. QED BY <2>2, <2>3, <2>4, <3>1, Zenon
  <2>. QED BY <2>5 DEF j
<1>10. next[(m - 1) + 1] = pos[m + 1]
  <2>1. (m - 1) + 1 = m /\ m \in 1 .. m
    BY <1>2
  <2>. QED BY <1>5, <2>1
<1>11. AuLaid(r, next, played + s.q[1].n, written)
  <2>1. r.buf[r.idx].size = s.buf[s.idx].size /\ r.buf[r.idx].data = s.buf[s.idx].data
    BY <1>3
  <2>2. written = pos[m + 1] + s.buf[s.idx].size /\ \A k \in 1 .. s.buf[s.idx].size : s.buf[s.idx].data[k] = pos[m + 1] + k
    BY <1>1 DEF AuLaid, m
  <2>3. written = next[Len(r.q) + 1] + r.buf[r.idx].size /\ \A k \in 1 .. r.buf[r.idx].size : r.buf[r.idx].data[k] = next[Len(r.q) + 1] + k
    BY <1>2, <1>10, <2>1, <2>2
  <2>. QED BY <1>2, <1>8, <1>9, <2>3 DEF AuLaid
<1>12. SubSeq(s.buf[s.q[1].b].data, 1, s.q[1].n) = AuFrames(played, s.q[1].n)
  <2>. DEFINE d == s.buf[s.q[1].b].data n == s.q[1].n
  <2>1. d \in Seq(Nat) /\ n \in Nat
    BY <1>3, <1>6, AuFormedIs, Zenon
  <2>2. n <= Len(d) /\ \A k \in 1 .. n : d[k] = pos[1] + k
    BY <1>1, <1>6 DEF AuLaid, m
  <2>. HIDE DEF d, n
  <2>3. \A k \in 1 .. n : d[0 + k] = played + k
    BY <1>7, <2>2
  <2>4. 0 + n <= Len(d)
    BY <2>1, <2>2
  <2>5. SubSeq(d, 0 + 1, 0 + n) = AuFrames(played, n)
    BY <2>1, <2>3, <2>4, AuFramesEq
  <2>6. 0 + 1 = 1 /\ 0 + n = n
    BY <2>1
  <2>. QED BY <2>5, <2>6 DEF d, n
<1>. QED BY <1>2, <1>5, <1>11, <1>12 DEF AuWhole, AuPositions

(* Only the current buffer has something in it that is not queued, and the *)
(* one before it was queued last.                                          *)
AuTurned(s) ==
  /\ \A b \in 0 .. s.nb - 1 : IF b = s.idx THEN s.buf[b].size < s.frag ELSE s.buf[b].size = 0
  /\ s.q # <<>> => s.q[Len(s.q)].b = AuPrev(s)
AuStands(t) ==
  /\ au_pc[t] \in {"wdown", "wcopy", "sdown"} => au_b[t] = output_stream.idx
  /\ au_pc[t] = "swait" => au_b[t] = AuPrev(output_stream) /\ output_stream.buf[output_stream.idx].size = 0
  /\ au_pc[t] = "synced" => output_stream.q = <<>> /\ output_stream.buf[output_stream.idx].size = 0
AuOutKept ==
  output_stream.set =>
    /\ AuTurned(output_stream) /\ \A t \in AuThreads : AuStands(t)
    /\ au_cut \/ AuWhole(output_stream, au_played, au_written)

LEMMA AuTurnedSame ==
  ASSUME NEW s, AuFormed(s), s.set, AuTurned(s), NEW r, AuFormed(r), AuSame(s, r), r.idx = s.idx, r.q = s.q,
         \A b \in 0 .. s.nb - 1 : r.buf[b].size = s.buf[b].size
  PROVE  AuTurned(r) /\ AuPrev(r) = AuPrev(s) /\ r.buf[r.idx].size = s.buf[s.idx].size
<1>1. r.nb = s.nb /\ r.frag = s.frag /\ s.idx \in 0 .. s.nb - 1
  BY AuFormedIs DEF AuSame
<1>. QED BY <1>1 DEF AuTurned, AuPrev

LEMMA AuTurnedQueued ==
  ASSUME NEW s, AuFormed(s), s.set, AuTurned(s), NEW r, AuFormed(r), AuSame(s, r), r.idx = AuAfter(s), NEW n,
         r.q = Append(s.q, [b |-> s.idx, n |-> n]), AuOthers(s, r, s.idx), r.buf[s.idx].size = 0
  PROVE  /\ AuTurned(r) /\ AuPrev(r) = s.idx /\ r.idx \in 0 .. s.nb - 1 /\ r.idx # s.idx
         /\ r.buf[r.idx].size = 0
<1>1. /\ s.nb \in Nat /\ s.nb >= 2 /\ s.idx \in Nat /\ s.idx < s.nb /\ s.frag \in Nat /\ s.frag >= 1
      /\ s.q \in Seq(AuEntry) /\ r.nb = s.nb /\ r.frag = s.frag
  BY AuFormedIs DEF AuSame
<1>2. s.idx \in 0 .. s.nb - 1 /\ r.idx \in 0 .. s.nb - 1 /\ r.idx # s.idx
  BY <1>1 DEF AuAfter
<1>3. AuPrev(r) = s.idx
  BY <1>1, AuPrevIs
<1>4. \A b \in 0 .. s.nb - 1 : r.buf[b].size = 0
  BY DEF AuTurned, AuOthers
<1>5. r.q[Len(r.q)].b = s.idx
  <2>1. Len(r.q) = Len(s.q) + 1 /\ r.q[Len(s.q) + 1] = [b |-> s.idx, n |-> n]
    BY <1>1
  <2>. QED BY <2>1
<1>6. AuTurned(r)
  BY ONLY <1>1, <1>3, <1>4, <1>5 DEF AuTurned
<1>. QED BY <1>2, <1>3, <1>4, <1>6

LEMMA AuTurnedPlayed ==
  ASSUME NEW s, AuFormed(s), s.set, AuTurned(s), NEW r, AuFormed(r), AuSame(s, r), r.idx = s.idx,
         s.q # <<>>, r.q = Tail(s.q), \A b \in 0 .. s.nb - 1 : r.buf[b].size = s.buf[b].size
  PROVE  AuTurned(r) /\ AuPrev(r) = AuPrev(s) /\ r.buf[r.idx].size = s.buf[s.idx].size
<1>1. r.nb = s.nb /\ r.frag = s.frag /\ s.idx \in 0 .. s.nb - 1 /\ s.q \in Seq(AuEntry)
  BY AuFormedIs DEF AuSame
<1>2. r.q # <<>> => r.q[Len(r.q)] = s.q[Len(s.q)]
  BY <1>1
<1>. QED BY <1>1, <1>2 DEF AuTurned, AuPrev

LEMMA AuKeptFresh ==
  ASSUME NEW shape \in (Nat \ {0, 1}) \X (Nat \ {0}), output_stream' = AuSetup(shape),
         AuTyped', au_played' = au_written',
         \A u \in AuThreads : au_pc'[u] \in AuOut => au_pc'[u] = "wdown" /\ au_b'[u] = output_stream'.idx
  PROVE  AuOutKept'
<1>. DEFINE r == output_stream'
<1>1. /\ AuFormed(r) /\ r.set /\ r.idx = 0 /\ r.q = <<>> /\ r.nb = shape[1] /\ r.frag = shape[2]
      /\ \A b \in 0 .. shape[1] - 1 : r.buf[b] = [size |-> 0, data |-> <<>>, sem |-> 1]
  BY AuSetupFormed
<1>2. r.frag >= 1 /\ r.frag \in Nat /\ r.idx \in 0 .. r.nb - 1
  BY <1>1, AuFormedIs
<1>3. \A b \in 0 .. r.nb - 1 : r.buf[b].size = 0
  BY <1>1
<1>4. au_written' \in Nat
  BY DEF AuTyped
<1>. HIDE DEF r
<1>5. AuTurned(r)
  BY <1>1, <1>2, <1>3 DEF AuTurned
<1>6. AuWhole(r, au_played', au_written')
  BY <1>1, <1>2, <1>3, <1>4, AuWholeFresh
<1>7. \A u \in AuThreads : AuStands(u)'
  BY DEF AuStands, AuOut
<1>. QED BY <1>5, <1>6, <1>7 DEF AuOutKept, r

(* The semaphores apart, the output stays, and so does everyone in it.     *)
LEMMA AuKeptSame ==
  ASSUME NEW s, s = output_stream, AuTyped, AuHeld, AuTyped', AuOutKept,
         AuSame(s, output_stream'), output_stream'.idx = s.idx, output_stream'.q = s.q,
         \A b \in 0 .. s.nb - 1 : output_stream'.buf[b].size = s.buf[b].size /\ output_stream'.buf[b].data = s.buf[b].data,
         UNCHANGED <<au_played, au_written, au_cut>>,
         \A u \in AuThreads : au_pc'[u] \in AuOut =>
           \/ au_pc'[u] = au_pc[u] /\ au_b'[u] = au_b[u]
           \/ au_pc'[u] \in {"wdown", "wcopy", "sdown"} /\ au_b'[u] = s.idx
           \/ au_pc'[u] = "swait" /\ au_b'[u] = AuPrev(s) /\ s.buf[s.idx].size = 0
           \/ au_pc'[u] = "synced" /\ s.q = <<>> /\ s.buf[s.idx].size = 0
  PROVE  AuOutKept'
<1>. SUFFICES ASSUME output_stream'.set PROVE AuOutKept'
  BY DEF AuOutKept
<1>. DEFINE r == output_stream'
<1>1. s.set /\ AuTurned(s) /\ (\A t \in AuThreads : AuStands(t)) /\ (au_cut \/ AuWhole(s, au_played, au_written))
  BY DEF AuOutKept, AuSame
<1>2. AuFormed(s) /\ AuFormed(r) /\ \A i \in 1 .. Len(s.q) : s.q[i].b < s.nb
  BY DEF AuTyped, AuHeld
<1>. HIDE DEF r
<1>3. AuTurned(r) /\ AuPrev(r) = AuPrev(s) /\ r.buf[r.idx].size = s.buf[s.idx].size
  BY <1>1, <1>2, AuTurnedSame DEF r
<1>4. AuWhole(s, au_played, au_written) => AuWhole(r, au_played, au_written)
  BY <1>1, <1>2, AuWholeSame DEF r
<1>5. ASSUME NEW u \in AuThreads PROVE AuStands(u)'
  BY <1>1, <1>3, <1>5 DEF AuStands, AuOut, r
<1>. QED BY <1>1, <1>3, <1>4, <1>5 DEF AuOutKept, r

(* The current buffer is queued with what was, or has been put, in it.     *)
LEMMA AuKeptQueued ==
  ASSUME NEW s, s = output_stream, AuTyped, AuHeld, AuTyped', AuOutKept, s.set,
         AuSame(s, output_stream'), output_stream'.idx = AuAfter(s), NEW n \in Nat,
         output_stream'.q = Append(s.q, [b |-> s.idx, n |-> n]), AuOthers(s, output_stream', s.idx),
         output_stream'.buf[s.idx].size = 0,
         \A i \in 1 .. Len(s.q) : s.q[i].b # s.idx,
         n <= Len(output_stream'.buf[s.idx].data), NEW more \in Nat, n = s.buf[s.idx].size + more,
         \A k \in 1 .. s.buf[s.idx].size : output_stream'.buf[s.idx].data[k] = s.buf[s.idx].data[k],
         \A k \in 1 .. more : output_stream'.buf[s.idx].data[s.buf[s.idx].size + k] = au_written + k,
         UNCHANGED <<au_played, au_cut>>, au_written' = au_written + more,
         \A u \in AuThreads : au_pc'[u] \in AuOut =>
           \/ au_pc'[u] = "wdown" /\ au_b'[u] = AuAfter(s)
           \/ au_pc'[u] = "swait" /\ au_b'[u] = s.idx
  PROVE  AuOutKept'
<1>. DEFINE r == output_stream'
<1>1. AuTurned(s) /\ (\A t \in AuThreads : AuStands(t)) /\ (au_cut \/ AuWhole(s, au_played, au_written))
  BY Zenon DEF AuOutKept
<1>2. AuFormed(s) /\ AuFormed(r) /\ (\A i \in 1 .. Len(s.q) : s.q[i].b < s.nb) /\ au_written \in Nat
  BY Zenon DEF AuTyped, AuHeld
<1>. HIDE DEF r
<1>3. /\ AuTurned(r) /\ AuPrev(r) = s.idx /\ r.idx \in 0 .. s.nb - 1 /\ r.idx # s.idx
      /\ r.buf[r.idx].size = 0
  <2>1. /\ s.set /\ AuSame(s, r) /\ r.idx = AuAfter(s) /\ r.q = Append(s.q, [b |-> s.idx, n |-> n])
        /\ AuOthers(s, r, s.idx) /\ r.buf[s.idx].size = 0
    BY Zenon DEF r
  <2>. QED BY ONLY <1>1, <1>2, <2>1, AuTurnedQueued, Zenon
<1>4. AuWhole(s, au_played, au_written) => AuWhole(r, au_played, au_written + more)
  <2>. SUFFICES ASSUME AuWhole(s, au_played, au_written) PROVE AuWhole(r, au_played, au_written + more)
    OBVIOUS
  <2>1. /\ AuFormed(s) /\ s.set /\ r.q = Append(s.q, [b |-> s.idx, n |-> n])
        /\ \A i \in 1 .. Len(s.q) : s.q[i].b < s.nb /\ s.q[i].b # s.idx
        /\ AuOthers(s, r, s.idx) /\ r.idx \in 0 .. s.nb - 1 /\ r.buf[r.idx].size = 0
        /\ au_written \in Nat /\ n <= Len(r.buf[s.idx].data) /\ n = s.buf[s.idx].size + more
        /\ \A k \in 1 .. s.buf[s.idx].size : r.buf[s.idx].data[k] = s.buf[s.idx].data[k]
        /\ \A k \in 1 .. more : r.buf[s.idx].data[s.buf[s.idx].size + k] = au_written + k
        /\ n \in Nat /\ more \in Nat /\ AuWhole(s, au_played, au_written)
    BY <1>2, <1>3, Zenon DEF r
  <2>. QED BY ONLY <2>1, AuWholeQueued
<1>5. ASSUME NEW u \in AuThreads PROVE AuStands(u)'
  BY <1>3, <1>5, Zenon DEF AuStands, AuOut, r
<1>. QED BY <1>1, <1>3, <1>4, <1>5, Zenon DEF AuOutKept, r

(* n frames more are in the current buffer, which is not full.             *)
LEMMA AuKeptPut ==
  ASSUME NEW s, s = output_stream, AuTyped, AuHeld, AuTyped', AuOutKept, s.set,
         AuSame(s, output_stream'), output_stream'.idx = s.idx, output_stream'.q = s.q, NEW n \in Nat,
         AuOthers(s, output_stream', s.idx), output_stream'.buf[s.idx].size = s.buf[s.idx].size + n,
         s.buf[s.idx].size + n < s.frag,
         \A i \in 1 .. Len(s.q) : s.q[i].b # s.idx,
         \A k \in 1 .. s.buf[s.idx].size : output_stream'.buf[s.idx].data[k] = s.buf[s.idx].data[k],
         \A k \in 1 .. n : output_stream'.buf[s.idx].data[s.buf[s.idx].size + k] = au_written + k,
         UNCHANGED <<au_played, au_cut>>, au_written' = au_written + n,
         \A u \in AuThreads : au_pc'[u] \notin AuOut
  PROVE  AuOutKept'
<1>. DEFINE r == output_stream'
<1>1. AuTurned(s) /\ (au_cut \/ AuWhole(s, au_played, au_written))
  BY Zenon DEF AuOutKept
<1>2. AuFormed(s) /\ AuFormed(r) /\ (\A i \in 1 .. Len(s.q) : s.q[i].b < s.nb) /\ au_written \in Nat
  BY Zenon DEF AuTyped, AuHeld
<1>. HIDE DEF r
<1>3. AuTurned(r)
  <2>1. r.nb = s.nb /\ r.frag = s.frag /\ r.idx = s.idx /\ r.q = s.q
    BY Zenon DEF AuSame, r
  <2>2. \A b \in 0 .. s.nb - 1 : IF b = s.idx THEN r.buf[b].size < s.frag ELSE r.buf[b].size = 0
    BY <1>1 DEF AuTurned, AuOthers, r
  <2>. QED BY ONLY <1>1, <2>1, <2>2 DEF AuTurned, AuPrev
<1>4. AuWhole(s, au_played, au_written) => AuWhole(r, au_played, au_written + n)
  <2>. SUFFICES ASSUME AuWhole(s, au_played, au_written) PROVE AuWhole(r, au_played, au_written + n)
    OBVIOUS
  <2>1. /\ AuFormed(s) /\ s.set /\ r.q = s.q /\ r.idx = s.idx
        /\ \A i \in 1 .. Len(s.q) : s.q[i].b < s.nb /\ s.q[i].b # s.idx
        /\ AuOthers(s, r, s.idx) /\ n \in Nat /\ r.buf[s.idx].size = s.buf[s.idx].size + n
        /\ au_written \in Nat /\ AuWhole(s, au_played, au_written)
        /\ \A k \in 1 .. s.buf[s.idx].size : r.buf[s.idx].data[k] = s.buf[s.idx].data[k]
        /\ \A k \in 1 .. n : r.buf[s.idx].data[s.buf[s.idx].size + k] = au_written + k
    BY <1>2 DEF r
  <2>. QED BY ONLY <2>1, AuWholePut
<1>5. \A u \in AuThreads : AuStands(u)'
  BY DEF AuStands, AuOut
<1>. QED BY <1>1, <1>3, <1>4, <1>5, Zenon DEF AuOutKept, r

LEMMA AuKeptPlayed ==
  ASSUME AuTyped, AuHeld, AuTyped', AuOutKept, AuDmaOut
  PROVE  /\ AuOutKept'
         /\ output_stream.set /\ ("out" \in au_raced \/ au_cut \/ (au_ok => au_ok'))
<1>. DEFINE s == output_stream r == output_stream' b == output_stream.q[1].b n == output_stream.q[1].n
<1>1. /\ s.q # <<>> /\ b \in 0 .. s.nb - 1 /\ AuSame(s, r) /\ AuOthers(s, r, b) /\ r.idx = s.idx /\ r.q = Tail(s.q)
      /\ r.buf[b].size = s.buf[b].size /\ r.buf[b].data = s.buf[b].data /\ au_played' = au_played + n
      /\ au_ok' = (au_ok /\ ("out" \in au_raced \/ SubSeq(s.buf[b].data, 1, n) = AuFrames(au_played, n)))
  BY AuDmaOutIs
<1>2. UNCHANGED <<au_pc, au_b, au_written, au_cut>>
  BY Zenon DEF AuDmaOut, auCalls, auFlags
<1>3. /\ AuFormed(s) /\ AuFormed(r) /\ (\A i \in 1 .. Len(s.q) : s.q[i].b < s.nb) /\ au_played \in Nat
  BY DEF AuTyped, AuHeld
<1>4. \A c \in 0 .. s.nb - 1 : r.buf[c].size = s.buf[c].size /\ r.buf[c].data = s.buf[c].data
  BY <1>1, Zenon DEF AuOthers
<1>5. s.set
  <2>1. b \in 0 .. s.nb - 1
    BY <1>1, Zenon
  <2>. HIDE DEF b
  <2>2. s.nb # 0
    BY <2>1
  <2>. QED BY <1>3, <2>2, AuFormedIs
<1>6. AuTurned(s) /\ (\A t \in AuThreads : AuStands(t)) /\ (au_cut \/ AuWhole(s, au_played, au_written))
  BY <1>5 DEF AuOutKept
<1>. HIDE DEF r, b, n
<1>7. AuTurned(r) /\ AuPrev(r) = AuPrev(s) /\ r.buf[r.idx].size = s.buf[s.idx].size
  <2>1. \A c \in 0 .. s.nb - 1 : r.buf[c].size = s.buf[c].size
    BY <1>4
  <2>. QED BY ONLY <1>1, <1>3, <1>5, <1>6, <2>1, AuTurnedPlayed
<1>8. AuWhole(s, au_played, au_written) =>
        AuWhole(r, au_played + n, au_written) /\ SubSeq(s.buf[b].data, 1, n) = AuFrames(au_played, n)
  <2>. SUFFICES ASSUME AuWhole(s, au_played, au_written)
       PROVE  AuWhole(r, au_played + s.q[1].n, au_written) /\ SubSeq(s.buf[s.q[1].b].data, 1, s.q[1].n) = AuFrames(au_played, s.q[1].n)
    BY DEF b, n
  <2>. QED BY ONLY <1>1, <1>3, <1>4, <1>5, AuWhole(s, au_played, au_written), AuWholePlayed
<1>9. ASSUME NEW u \in AuThreads PROVE AuStands(u)'
  BY <1>1, <1>2, <1>6, <1>7, <1>9 DEF AuStands, r
<1>10. AuOutKept'
  BY <1>1, <1>2, <1>6, <1>7, <1>8, <1>9 DEF AuOutKept, r
<1>11. "out" \in au_raced \/ au_cut \/ (au_ok => au_ok')
  BY <1>1, <1>6, <1>8
<1>. QED BY <1>5, <1>10, <1>11

LEMMA AuKeptNext ==
  ASSUME AuBase, AuOwned, "out" \notin au_raced => AuOutKept, ~ output_stream.set => au_played = au_written,
         AuNext, ~ au_oops', ~ au_failed', "out" \notin au_raced'
  PROVE  AuOutKept'
<1>1. AuTyped /\ AuHeld /\ AuTyped'
  BY AuTypedNext DEF AuBase, AuNext
<1>2. /\ AuFormed(output_stream) /\ AuFormed(output_stream')
      /\ au_pc \in [AuThreads -> AuPlaces] /\ au_b \in [AuThreads -> Nat]
  BY <1>1 DEF AuTyped
<1>3. /\ \A u \in AuThreads : au_pc[u] \in AuOut => output_stream.set /\ au_b[u] < output_stream.nb
      /\ "out" \notin au_raced => \A t, u \in AuThreads : au_pc[t] \in AuOut /\ au_pc[u] \in AuOut => t = u
  BY <1>1 DEF AuHeld
<1>4. ASSUME NEW t \in AuThreads, NEW p, NEW b, NEW left, AuGo(t, p, b, left)
      PROVE  /\ au_pc'[t] = p /\ au_b'[t] = b
             /\ \A u \in AuThreads : u # t => au_pc'[u] = au_pc[u] /\ au_b'[u] = au_b[u]
  BY <1>1, <1>4, AuWent
<1>5. ASSUME NEW t \in AuThreads, AuReturn(t)
      PROVE  au_pc'[t] = "user" /\ \A u \in AuThreads : u # t => au_pc'[u] = au_pc[u] /\ au_b'[u] = au_b[u]
  <2>1. AuGo(t, "user", 0, 0)
    BY <1>5 DEF AuReturn
  <2>. QED BY <1>4, <2>1
<1>6. output_stream' = AuNoBuffers => AuOutKept'
  BY AuEmpty DEF AuOutKept
(* A step that leaves the output alone.                                    *)
<1>7. ASSUME "out" \notin au_raced, UNCHANGED <<output_stream, au_played, au_written, au_cut>>,
             \A u \in AuThreads : au_pc'[u] \in AuOut =>
               \/ au_pc'[u] = au_pc[u] /\ au_b'[u] = au_b[u]
               \/ au_pc'[u] \in {"wdown", "wcopy", "sdown"} /\ au_b'[u] = output_stream.idx
               \/ au_pc'[u] = "swait" /\ au_b'[u] = AuPrev(output_stream) /\ output_stream.buf[output_stream.idx].size = 0
               \/ au_pc'[u] = "synced" /\ output_stream.q = <<>> /\ output_stream.buf[output_stream.idx].size = 0
      PROVE  AuOutKept'
  BY <1>1, <1>7, AuKeptSame DEF AuSame
<1>8. ASSUME "out" \notin au_raced, UNCHANGED <<output_stream, au_played, au_written, au_cut, au_pc, au_b>>
      PROVE  AuOutKept'
  BY <1>7, <1>8
<1>9. ASSUME "out" \notin au_raced, NEW t \in AuThreads, au_pc'[t] \notin AuOut,
             \A u \in AuThreads : u # t => au_pc'[u] = au_pc[u] /\ au_b'[u] = au_b[u],
             UNCHANGED <<output_stream, au_played, au_written, au_cut>>
      PROVE  AuOutKept'
  BY <1>7, <1>9
<1>10. "user" \notin AuOut /\ "rdown" \notin AuOut /\ "rcopy" \notin AuOut
  BY DEF AuOut
<1>11. /\ au_shape \in (Nat \ {0, 1}) \X (Nat \ {0})
       /\ \A shape \in AuShapes : shape \in (Nat \ {0, 1}) \X (Nat \ {0})
  BY <1>1, AudioAssumption DEF AuTyped
<1>12. ASSUME NEW t \in AuThreads, AuSyncFrom(t), "out" \notin au_raced, UNCHANGED <<output_stream, au_played, au_written, au_cut>>
       PROVE  AuOutKept'
  <2>. DEFINE s == output_stream
  <2>1. CASE AuGo(t, "sdown", s.idx, 0)
    BY <1>4, <1>7, <1>12, <2>1
  <2>2. CASE AuGo(t, "swait", AuPrev(s), 0) /\ s.buf[s.idx].size = 0
    BY <1>4, <1>7, <1>12, <2>2
  <2>. QED BY <1>12, <2>1, <2>2 DEF AuSyncFrom
<1>13. ASSUME NEW mode \in AuModes, AuOpen(mode) PROVE AuOutKept'
  BY <1>8, <1>13 DEF AuOpen, auCalls, auFlags, auSound
<1>14. CASE AuReleaseIn
  BY <1>8, <1>14 DEF AuReleaseIn, auCalls
<1>15. CASE AuDmaIn
  BY <1>8, <1>15 DEF AuDmaIn, auCalls
<1>16. CASE AuDmaOut
  <2>1. "out" \notin au_raced
    BY <1>16, Zenon DEF AuDmaOut, auFlags
  <2>. QED BY <1>1, <1>16, <2>1, AuKeptPlayed
<1>17. ASSUME NEW t \in AuThreads, AuRelease(t) PROVE AuOutKept'
  <2>1. CASE output_stream.set
    BY <1>12, <1>17, <2>1 DEF AuRelease, auFlags
  <2>2. CASE ~ output_stream.set
    BY <1>6, <1>17, <2>2 DEF AuRelease, AuReleaseDone, AuClearOut
  <2>. QED BY <2>1, <2>2
<1>18. ASSUME NEW t \in AuThreads, NEW stream, AuCall(t, stream) PROVE "out" \notin au_raced
  BY <1>18 DEF AuCall
<1>19. ASSUME NEW t \in AuThreads, AuCall(t, "out") PROVE \A u \in AuThreads : au_pc[u] \notin AuOut
  BY <1>19, AuPlace DEF AuCall
<1>20. ASSUME NEW t \in AuThreads, AuSync(t) PROVE AuOutKept'
  BY <1>12, <1>18, <1>20 DEF AuSync, auSound
<1>21. ASSUME NEW t \in AuThreads, au_pc[t] \in AuOut, "out" \notin au_raced,
              \A u \in AuThreads : u # t => au_pc'[u] = au_pc[u] /\ au_b'[u] = au_b[u]
       PROVE  /\ output_stream.set /\ AuStands(t) /\ au_b[t] \in 0 .. output_stream.nb - 1
              /\ \A u \in AuThreads : au_pc'[u] \in AuOut => u = t
  <2>1. output_stream.set /\ AuStands(t) /\ \A u \in AuThreads : au_pc'[u] \in AuOut => u = t
    BY <1>3, <1>21 DEF AuOutKept
  <2>2. au_b[t] \in Nat /\ au_b[t] < output_stream.nb /\ output_stream.nb \in Nat
    BY <1>2, <1>3, <1>21, AuFormedIs
  <2>. QED BY <2>1, <2>2
<1>22. ASSUME NEW t \in AuThreads, AuSyncDown(t) PROVE AuOutKept'
  <2>. DEFINE s == output_stream b == au_b[t] n == output_stream.buf[au_b[t]].size
  <2>1. /\ au_pc[t] = "sdown" /\ s.buf[b].sem = 1 /\ s.set
        /\ AuSame(s, s') /\ AuOthers(s, s', b) /\ s'.idx = AuAfter(s)
        /\ s'.q = Append(s.q, [b |-> b, n |-> n])
        /\ s'.buf[b].size = 0 /\ s'.buf[b].data = s.buf[b].data /\ AuGo(t, "swait", s.idx, 0)
    BY <1>1, <1>22, AuSyncDownIs
  <2>2. UNCHANGED <<au_played, au_written, au_cut, au_raced>>
    BY <1>22 DEF AuSyncDown, auSound
  <2>3. au_pc'[t] = "swait" /\ au_b'[t] = s.idx /\ \A u \in AuThreads : u # t => au_pc'[u] = au_pc[u] /\ au_b'[u] = au_b[u]
    BY <1>4, <2>1
  <2>4. "out" \notin au_raced /\ au_pc[t] \in AuOut
    BY <2>1, <2>2 DEF AuOut
  <2>5. AuStands(t) /\ b \in 0 .. s.nb - 1 /\ \A u \in AuThreads : au_pc'[u] \in AuOut => u = t
    BY <1>21, <2>3, <2>4
  <2>6. b = s.idx
    BY <2>1, <2>5 DEF AuStands
  <2>7. \A i \in 1 .. Len(s.q) : s.q[i].b # s.idx
    BY <2>1, <2>6 DEF AuOwned
  <2>8. n \in Nat /\ n <= Len(s.buf[b].data) /\ n = n + 0
    <3>1. n \in Nat
      BY <1>2, <2>5, AuFormedIs
    <3>2. n <= Len(s.buf[b].data)
      BY <1>1, <2>5 DEF AuTyped, AuSizes
    <3>. QED BY <3>1, <3>2
  <2>9. au_written' = au_written + 0
    BY <1>1, <2>2 DEF AuTyped
  <2>10. \A u \in AuThreads : au_pc'[u] \in AuOut => au_pc'[u] = "swait" /\ au_b'[u] = s.idx
    BY <2>3, <2>5
  <2>11. /\ AuOutKept /\ AuOthers(s, s', s.idx) /\ s'.q = Append(s.q, [b |-> s.idx, n |-> n]) /\ s'.buf[s.idx].size = 0
         /\ n <= Len(s'.buf[s.idx].data) /\ n = s.buf[s.idx].size + 0 /\ 0 \in Nat
         /\ \A k \in 1 .. s.buf[s.idx].size : s'.buf[s.idx].data[k] = s.buf[s.idx].data[k]
         /\ \A k \in 1 .. 0 : s'.buf[s.idx].data[s.buf[s.idx].size + k] = au_written + k
    BY <2>1, <2>4, <2>6, <2>8
  <2>. HIDE DEF b, n
  <2>. QED BY ONLY <1>1, <2>1, <2>2, <2>7, <2>8, <2>9, <2>10, <2>11, AuKeptQueued, Zenon
<1>23. ASSUME NEW t \in AuThreads, AuSyncDone(t) PROVE AuOutKept'
  <2>. DEFINE s == output_stream b == au_b[t]
  <2>1. /\ au_pc[t] = "swait" /\ s.buf[b].sem = 1 /\ AuGo(t, "synced", 0, 0)
        /\ UNCHANGED <<output_stream, au_played, au_written, au_cut, au_raced>>
    BY <1>23 DEF AuSyncDone, auSound, auFlags
  <2>2. au_pc'[t] = "synced" /\ \A u \in AuThreads : u # t => au_pc'[u] = au_pc[u] /\ au_b'[u] = au_b[u]
    BY <1>4, <2>1
  <2>3. "out" \notin au_raced /\ au_pc[t] \in AuOut
    BY <2>1 DEF AuOut
  <2>4. s.set /\ AuStands(t) /\ \A u \in AuThreads : au_pc'[u] \in AuOut => u = t
    BY <1>21, <2>2, <2>3
  <2>5. b = AuPrev(s) /\ s.buf[s.idx].size = 0
    BY <2>1, <2>4 DEF AuStands
  <2>6. s.q = <<>>
    <3>. SUFFICES ASSUME s.q # <<>> PROVE FALSE
      OBVIOUS
    <3>1. Len(s.q) \in 1 .. Len(s.q)
      <4>1. s.q \in Seq(AuEntry)
        BY <1>2, AuFormedIs
      <4>. QED BY <4>1
    <3>2. s.q[Len(s.q)].b = b
      BY <2>3, <2>4, <2>5 DEF AuOutKept, AuTurned
    <3>3. s.buf[b].sem = 0
      BY <3>1, <3>2 DEF AuOwned
    <3>. QED BY <2>1, <3>3
  <2>. QED BY <1>7, <2>1, <2>2, <2>3, <2>4, <2>5, <2>6
<1>24. ASSUME NEW t \in AuThreads, AuSyncReturn(t) PROVE AuOutKept'
  <2>1. CASE au_close
    BY <1>6, <1>24, <2>1 DEF AuSyncReturn, AuReleaseDone, AuClearOut
  <2>2. CASE ~ au_close
    <3>1. AuReturn(t) /\ UNCHANGED <<output_stream, au_played, au_written, au_cut, au_raced>>
      BY <1>24, <2>2 DEF AuSyncReturn, auSound, auFlags
    <3>. QED BY <1>5, <1>9, <1>10, <3>1
  <2>. QED BY <2>1, <2>2
<1>25. ASSUME NEW t \in AuThreads, AuWriteDown(t) \/ AuWriteFault(t) PROVE AuOutKept'
  <2>. DEFINE s == output_stream b == au_b[t]
  <2>1. UNCHANGED <<au_played, au_written, au_cut, au_raced>>
    BY <1>25 DEF AuWriteDown, AuWriteFault, auSound, auFlags
  <2>2. "out" \notin au_raced /\ au_pc[t] \in AuOut
    BY <1>25, <2>1 DEF AuOut, AuWriteDown, AuWriteFault
  <2>3. PICK n \in {0, 1} :
          /\ s' = AuSem(s, b, n)
          /\ \/ au_pc[t] = "wdown" /\ AuGo(t, "wcopy", b, au_left[t])
             \/ AuReturn(t)
    BY <1>25 DEF AuWriteDown, AuWriteFault
  <2>4. \A u \in AuThreads : u # t => au_pc'[u] = au_pc[u] /\ au_b'[u] = au_b[u]
    BY <1>4, <1>5, <2>3
  <2>5. AuStands(t) /\ b \in 0 .. s.nb - 1
    BY <1>21, <2>2, <2>4
  <2>6. /\ AuSame(s, s') /\ AuOthers(s, s', b) /\ s'.q = s.q /\ s'.idx = s.idx
        /\ s'.buf[b].size = s.buf[b].size /\ s'.buf[b].data = s.buf[b].data
    <3>1. n \in Nat
      OBVIOUS
    <3>. QED BY <1>2, <2>3, <2>5, <3>1, AuSemIs
  <2>7. \A c \in 0 .. s.nb - 1 : s'.buf[c].size = s.buf[c].size /\ s'.buf[c].data = s.buf[c].data
    BY <2>6 DEF AuOthers
  <2>8. au_pc'[t] \in AuOut => au_pc'[t] = "wcopy" /\ au_b'[t] = s.idx
    <3>1. CASE au_pc[t] = "wdown" /\ AuGo(t, "wcopy", b, au_left[t])
      BY <1>4, <2>5, <3>1 DEF AuStands
    <3>2. CASE AuReturn(t)
      BY <1>5, <1>10, <3>2
    <3>. QED BY <2>3, <3>1, <3>2
  <2>. HIDE DEF b
  <2>9. \A u \in AuThreads : au_pc'[u] \in AuOut =>
          \/ au_pc'[u] = au_pc[u] /\ au_b'[u] = au_b[u]
          \/ au_pc'[u] \in {"wdown", "wcopy", "sdown"} /\ au_b'[u] = s.idx
    BY <2>4, <2>8
  <2>. QED BY <1>1, <2>1, <2>2, <2>6, <2>7, <2>9, AuKeptSame
<1>26. ASSUME NEW t \in AuThreads, AuWriteStop(t) PROVE AuOutKept'
  <2>1. AuReturn(t) /\ UNCHANGED <<output_stream, au_played, au_written, au_cut, au_raced>>
    BY <1>26 DEF AuWriteStop, auSound, auFlags
  <2>. QED BY <1>5, <1>9, <1>10, <2>1
<1>27. ASSUME NEW t \in AuThreads, AuReadDown(t) \/ AuReadFault(t) \/ AuReadStop(t) \/ AuReadCopy(t) PROVE AuOutKept'
  <2>1. UNCHANGED <<output_stream, au_played, au_written, au_cut, au_raced>>
    BY <1>27 DEF AuReadDown, AuReadFault, AuReadStop, AuReadCopy, auSound, auFlags
  <2>2. au_pc'[t] \notin AuOut /\ \A u \in AuThreads : u # t => au_pc'[u] = au_pc[u] /\ au_b'[u] = au_b[u]
    <3>1. AuReturn(t) \/ (\E left : AuGo(t, "rcopy", au_b[t], left)) \/ \E left : AuGo(t, "rdown", input_stream'.idx, left)
      BY <1>27 DEF AuReadDown, AuReadFault, AuReadStop, AuReadCopy
    <3>2. CASE AuReturn(t)
      BY <1>5, <1>10, <3>2
    <3>3. ASSUME NEW left, AuGo(t, "rcopy", au_b[t], left) \/ AuGo(t, "rdown", input_stream'.idx, left)
          PROVE  au_pc'[t] \notin AuOut /\ \A u \in AuThreads : u # t => au_pc'[u] = au_pc[u] /\ au_b'[u] = au_b[u]
      BY <1>4, <1>10, <3>3
    <3>. QED BY <3>1, <3>2, <3>3
  <2>. QED BY <1>9, <2>1, <2>2
<1>28. ASSUME NEW t \in AuThreads, AuWriteCopy(t) PROVE AuOutKept'
  <2>. DEFINE s == output_stream b == au_b[t]
  <2>1. au_pc[t] = "wcopy" /\ b \in 0 .. s.nb - 1 /\ AuSame(s, s') /\ AuOthers(s, s', b)
    BY <1>1, <1>28, AuWriteCopyIs
  <2>2. PICK n \in Nat : AuCopied(t, s, b, n)
    BY ONLY <1>1, <1>28, AuWriteCopyIs
  <2>3. UNCHANGED <<au_played, au_cut, au_raced>>
    BY <1>28 DEF AuWriteCopy
  <2>4. "out" \notin au_raced /\ au_pc[t] \in AuOut
    BY <2>1, <2>3 DEF AuOut
  <2>5. AuReturn(t) \/ \E left \in Nat : AuGo(t, "wdown", AuAfter(s), left)
    BY <2>2, Zenon DEF AuCopied
  <2>6. /\ \A u \in AuThreads : u # t => au_pc'[u] = au_pc[u] /\ au_b'[u] = au_b[u]
        /\ au_pc'[t] = "user" \/ (au_pc'[t] = "wdown" /\ au_b'[t] = AuAfter(s))
    BY <1>4, <1>5, <2>5
  <2>7. s.set /\ AuStands(t) /\ \A u \in AuThreads : au_pc'[u] \in AuOut => u = t
    BY <1>21, <2>4, <2>6
  <2>8. b = s.idx /\ \A i \in 1 .. Len(s.q) : s.q[i].b # s.idx
    BY <2>1, <2>7 DEF AuStands, AuOwned
  <2>9. AuCopied(t, s, s.idx, n) /\ AuOthers(s, s', s.idx)
    BY <2>1, <2>2, <2>8, Zenon
  <2>12. /\ au_written' = au_written + n
         /\ Len(s'.buf[s.idx].data) = s.buf[s.idx].size + n
         /\ \A k \in 1 .. s.buf[s.idx].size : s'.buf[s.idx].data[k] = s.buf[s.idx].data[k]
         /\ \A k \in 1 .. n : s'.buf[s.idx].data[s.buf[s.idx].size + k] = au_written + k
    BY ONLY <2>9, Zenon DEF AuCopied
  <2>13. \/ /\ s.buf[s.idx].size + n < s.frag /\ s'.idx = s.idx /\ s'.q = s.q
            /\ s'.buf[s.idx].size = s.buf[s.idx].size + n /\ AuReturn(t)
         \/ /\ s.buf[s.idx].size + n = s.frag /\ s'.idx = AuAfter(s)
            /\ s'.q = Append(s.q, [b |-> s.idx, n |-> s.frag]) /\ s'.buf[s.idx].size = 0
    BY <2>9, Zenon DEF AuCopied
  <2>14. \A i \in 1 .. Len(s.q) : s.q[i].b # s.idx
    BY <2>8
  <2>15. AuSame(s, s') /\ s.set /\ n \in Nat /\ AuOutKept
    BY <2>1, <2>4, <2>7, Zenon
  <2>10. CASE /\ s.buf[s.idx].size + n < s.frag /\ s'.idx = s.idx /\ s'.q = s.q
              /\ s'.buf[s.idx].size = s.buf[s.idx].size + n /\ AuReturn(t)
    <3>1. \A u \in AuThreads : au_pc'[u] \notin AuOut
      BY <1>5, <1>10, <2>7, <2>10
    <3>. QED BY ONLY <1>1, <2>3, <2>9, <2>10, <2>12, <2>14, <2>15, <3>1, AuKeptPut, Zenon
  <2>11. CASE /\ s.buf[s.idx].size + n = s.frag /\ s'.idx = AuAfter(s)
              /\ s'.q = Append(s.q, [b |-> s.idx, n |-> s.frag]) /\ s'.buf[s.idx].size = 0
    <3>1. \A u \in AuThreads : au_pc'[u] \in AuOut => au_pc'[u] = "wdown" /\ au_b'[u] = AuAfter(s)
      BY <1>10, <2>6, <2>7
    <3>2. n \in Nat /\ AuOutKept /\ s.frag \in Nat /\ s.buf[s.idx].size \in Nat
      BY <1>2, <2>1, <2>4, <2>8, AuFormedIs
    <3>3. s.frag <= Len(s'.buf[s.idx].data) /\ s.frag = s.buf[s.idx].size + n
      BY <2>11, <2>12, <3>2
    <3>4. \A u \in AuThreads : au_pc'[u] \in AuOut =>
            \/ au_pc'[u] = "wdown" /\ au_b'[u] = AuAfter(s)
            \/ au_pc'[u] = "swait" /\ au_b'[u] = s.idx
      BY ONLY <3>1
    <3>. QED BY ONLY <1>1, <2>3, <2>9, <2>11, <2>12, <2>14, <2>15, <3>2, <3>3, <3>4, AuKeptQueued, Zenon
  <2>. QED BY <2>10, <2>11, <2>13
<1>29. ASSUME NEW t \in AuThreads, NEW count \in AuCounts, AuWrite(t, count) PROVE AuOutKept'
  <2>0. CASE UNCHANGED <<output_stream, auCalls>>
    BY <1>8, <1>18, <1>29, <2>0 DEF AuWrite, auCalls, auSound
  <2>. SUFFICES ASSUME ~ UNCHANGED <<output_stream, auCalls>> PROVE AuOutKept'
    BY <2>0
  <2>1. /\ "out" \notin au_raced /\ AuGo(t, "wdown", output_stream'.idx, count)
        /\ output_stream' = IF output_stream.set THEN output_stream ELSE AuSetup(au_shape)
        /\ UNCHANGED <<au_played, au_written, au_cut>>
    BY <1>18, <1>29 DEF AuWrite, auSound
  <2>2. au_pc'[t] = "wdown" /\ au_b'[t] = output_stream'.idx /\ \A u \in AuThreads : u # t => au_pc'[u] = au_pc[u]
    BY <1>4, <2>1
  <2>3. \A u \in AuThreads : au_pc[u] \notin AuOut
    BY <1>19, <1>29 DEF AuWrite
  <2>4. \A u \in AuThreads : au_pc'[u] \in AuOut => au_pc'[u] = "wdown" /\ au_b'[u] = output_stream'.idx
    BY <2>2, <2>3
  <2>5. CASE output_stream.set
    BY <1>7, <2>1, <2>4, <2>5
  <2>6. CASE ~ output_stream.set
    <3>1. au_played' = au_written'
      BY <2>1, <2>6
    <3>. QED BY <1>1, <1>11, <2>1, <2>4, <2>6, <3>1, AuKeptFresh
  <2>. QED BY <2>5, <2>6
<1>30. ASSUME NEW t \in AuThreads, NEW count \in AuCounts, AuRead(t, count) PROVE AuOutKept'
  <2>0. CASE UNCHANGED auCalls
    BY <1>8, <1>18, <1>30, <2>0 DEF AuRead, auCalls, auSound
  <2>. SUFFICES ASSUME ~ UNCHANGED auCalls PROVE AuOutKept'
    BY <2>0
  <2>1. "out" \notin au_raced /\ AuGo(t, "rdown", input_stream'.idx, count) /\ UNCHANGED <<output_stream, au_played, au_written, au_cut>>
    BY <1>18, <1>30 DEF AuRead, auSound
  <2>. QED BY <1>4, <1>9, <1>10, <2>1
<1>31. ASSUME NEW f, NEW first, NEW shape \in (Nat \ {0, 1}) \X (Nat \ {0}), AuSetupAs(f, shape, first), "out" \notin au_raced,
              UNCHANGED <<au_pc, au_b, au_played, au_written, au_cut>>
       PROVE  AuOutKept'
  <2>1. output_stream' = output_stream \/ (~ output_stream.set /\ output_stream' = AuSetup(shape))
    BY <1>31 DEF AuSetupAs
  <2>2. CASE ~ output_stream.set /\ output_stream' = AuSetup(shape)
    <3>1. au_played' = au_written' /\ \A u \in AuThreads : au_pc'[u] \notin AuOut
      BY <1>3, <1>31, <2>2
    <3>. QED BY <1>1, <2>2, <3>1, AuKeptFresh
  <2>. QED BY <1>8, <1>31, <2>1, <2>2
<1>32. ASSUME NEW t \in AuThreads, NEW f \in au_files, AuPoll(t, f) PROVE AuOutKept'
  BY <1>11, <1>31, <1>32 DEF AuPoll, auCalls, auSound, auFlags
<1>33. ASSUME NEW t \in AuThreads, NEW f \in au_files, NEW shape \in AuShapes, AuSetFragment(t, f, shape) PROVE AuOutKept'
  BY <1>11, <1>31, <1>33 DEF AuSetFragment, auCalls, auSound, auFlags
<1>34. ASSUME NEW t \in AuThreads, NEW f \in au_files, AuReset(t, f) PROVE AuOutKept'
  <2>1. CASE AuPlayer(f)
    BY <1>6, <1>34, <2>1 DEF AuReset, AuClearOut
  <2>2. CASE ~ AuPlayer(f)
    BY <1>8, <1>34, <2>2 DEF AuReset, auCalls
  <2>. QED BY <2>1, <2>2
<1>35. ASSUME NEW t \in AuThreads, AuMeet(t) PROVE AuOutKept'
  BY <1>35 DEF AuMeet
<1>. QED BY <1>13, <1>14, <1>15, <1>16, <1>17, <1>20, <1>22, <1>23, <1>24, <1>25, <1>26, <1>27, <1>28, <1>29, <1>30,
            <1>32, <1>33, <1>34, <1>35 DEF AuNext

-----------------------------------------------------------------------------
(* How the sound lies in the input, from the current buffer on: e buffers  *)
(* that were never recorded into, up to place c those that are, in order   *)
(* and the first perhaps read in part; the rest is with the DMA, behind h  *)
(* buffers that are freed.                                                 *)
AuAt(s, j) == IF s.idx + j < s.nb THEN s.idx + j ELSE s.idx + j - s.nb
AuSlot(s, j) == s.buf[AuAt(s, j)]
AuGiven(s, h, c) ==
  /\ h <= Len(s.q) /\ c <= s.nb /\ c + Len(s.q) = s.nb + h
  /\ \A i \in 1 .. h : s.q[i].n = 0
  /\ \A i \in h + 1 .. Len(s.q) :
       s.q[i].n = s.frag /\ s.q[i].b = AuAt(s, c + i - h - 1) /\ AuSlot(s, c + i - h - 1).sem = 0
AuFilled(s, j) ==
  /\ Len(AuSlot(s, j).data) = s.frag
  /\ \A k \in 1 .. s.frag : AuSlot(s, j).data[k] + 1 = AuSlot(s, j).data[1] + k
AuStored(s, e, c, taped, heard) ==
  /\ e <= c
  /\ \A j \in 0 .. e - 1 : AuSlot(s, j).size = 0
  /\ \A j \in e .. c - 1 :
       /\ AuFilled(s, j)
       /\ j > e => AuSlot(s, j).size = s.frag
       /\ AuSlot(s, j).data[1] + s.frag = IF j + 1 < c THEN AuSlot(s, j + 1).data[1] ELSE taped + 1
  /\ e < c => /\ AuSlot(s, e).size \in 1 .. s.frag
              /\ AuSlot(s, e).data[1] + s.frag = heard + 1 + AuSlot(s, e).size
  /\ e = c => heard = taped

LEMMA AuAtIs ==
  ASSUME NEW s, AuFormed(s), s.set
  PROVE  /\ s.nb \in Nat /\ s.nb >= 2 /\ AuAt(s, 0) = s.idx
         /\ \A j \in 0 .. s.nb - 1 : AuAt(s, j) \in 0 .. s.nb - 1
         /\ \A i, j \in 0 .. s.nb - 1 : AuAt(s, i) = AuAt(s, j) => i = j
         /\ \A j \in 0 .. s.nb - 1 : AuSlot(s, j) \in AuBuf
         /\ \A j \in 0 .. s.nb - 1 : AuSlot(s, j).size \in Nat /\ AuSlot(s, j).sem \in Nat /\ AuSlot(s, j).data \in Seq(Nat)
<1>1. s.nb \in Nat /\ s.nb >= 2 /\ s.idx \in Nat /\ s.idx < s.nb
  BY AuFormedIs
<1>2. AuAt(s, 0) = s.idx /\ \A j \in 0 .. s.nb - 1 : AuAt(s, j) \in 0 .. s.nb - 1
  BY <1>1 DEF AuAt
<1>3. \A i, j \in 0 .. s.nb - 1 : AuAt(s, i) = AuAt(s, j) => i = j
  BY <1>1 DEF AuAt
<1>. QED BY <1>1, <1>2, <1>3, AuFormedIs DEF AuSlot

LEMMA AuAtNext ==
  ASSUME NEW s, AuFormed(s), s.set, NEW r, AuSame(s, r), r.idx = AuAfter(s), AuOthers(s, r, s.idx)
  PROVE  /\ \A j \in 0 .. s.nb - 2 : AuAt(r, j) = AuAt(s, j + 1) /\ AuSlot(r, j) = AuSlot(s, j + 1)
         /\ AuAt(r, s.nb - 1) = s.idx
<1>1. s.nb \in Nat /\ s.nb >= 2 /\ s.idx \in Nat /\ s.idx < s.nb /\ r.nb = s.nb
  BY AuFormedIs DEF AuSame
<1>2. (\A j \in 0 .. s.nb - 2 : AuAt(r, j) = AuAt(s, j + 1)) /\ AuAt(r, s.nb - 1) = s.idx
  BY <1>1 DEF AuAt, AuAfter
<1>3. ASSUME NEW j \in 0 .. s.nb - 2 PROVE AuSlot(r, j) = AuSlot(s, j + 1)
  <2>1. AuAt(s, j + 1) \in 0 .. s.nb - 1 /\ AuAt(s, j + 1) # s.idx
    BY <1>1 DEF AuAt
  <2>. QED BY <1>2, <2>1 DEF AuSlot, AuOthers
<1>. QED BY <1>2, <1>3

LEMMA AuAtOther ==
  ASSUME NEW s, AuFormed(s), s.set, NEW r, AuSame(s, r), r.idx = s.idx, NEW c \in 0 .. s.nb - 1, AuOthers(s, r, AuAt(s, c))
  PROVE  /\ \A j \in 0 .. s.nb - 1 : AuAt(r, j) = AuAt(s, j)
         /\ \A j \in 0 .. s.nb - 1 : j # c => AuSlot(r, j) = AuSlot(s, j)
<1>1. \A j \in 0 .. s.nb - 1 : AuAt(r, j) = AuAt(s, j)
  BY DEF AuAt, AuSame
<1>2. \A j \in 0 .. s.nb - 1 : AuAt(s, j) \in 0 .. s.nb - 1 /\ (j # c => AuAt(s, j) # AuAt(s, c))
  BY AuAtIs
<1>. QED BY <1>1, <1>2 DEF AuSlot, AuOthers

(* The queue of the DMA when the current buffer goes back to it, when it   *)
(* has recorded one, and when only the current buffer is touched.          *)
LEMMA AuGivenBack ==
  ASSUME NEW s, AuFormed(s), s.set, NEW r, AuSame(s, r), r.idx = AuAfter(s), AuOthers(s, r, s.idx),
         r.q = Append(s.q, [b |-> s.idx, n |-> s.frag]), r.buf[s.idx].sem = 0,
         NEW h \in Nat, NEW c \in Nat, c > 0, AuGiven(s, h, c)
  PROVE  AuGiven(r, h, c - 1)
<1>. DEFINE m == Len(s.q)
<1>1. /\ s.nb \in Nat /\ s.nb >= 2 /\ r.nb = s.nb /\ r.frag = s.frag /\ s.q \in Seq(AuEntry) /\ m \in Nat
  BY AuFormedIs DEF AuSame
<1>2. Len(r.q) = m + 1 /\ r.q[m + 1] = [b |-> s.idx, n |-> s.frag] /\ \A i \in 1 .. m : r.q[i] = s.q[i]
  BY <1>1
<1>3. h <= m /\ c <= s.nb /\ c + m = s.nb + h
  BY DEF AuGiven
<1>. HIDE DEF m
<1>4. \A i \in 1 .. h : r.q[i].n = 0
  <2>1. \A i \in 1 .. h : i \in 1 .. m
    BY <1>1, <1>3
  <2>. QED BY <1>2, <2>1 DEF AuGiven
<1>5. ASSUME NEW i \in h + 1 .. m + 1
      PROVE  r.q[i].n = r.frag /\ r.q[i].b = AuAt(r, (c - 1) + i - h - 1) /\ AuSlot(r, (c - 1) + i - h - 1).sem = 0
  <2>1. CASE i = m + 1
    <3>1. (c - 1) + (m + 1) - h - 1 = s.nb - 1
      BY <1>1, <1>3
    <3>2. (c - 1) + i - h - 1 = s.nb - 1
      BY <2>1, <3>1
    <3>3. AuAt(r, s.nb - 1) = s.idx
      BY AuAtNext
    <3>4. AuSlot(r, s.nb - 1).sem = 0
      BY <3>3 DEF AuSlot
    <3>5. r.q[i].n = r.frag /\ r.q[i].b = AuAt(r, s.nb - 1)
      BY <1>1, <1>2, <2>1, <3>3
    <3>. QED BY <3>2, <3>4, <3>5
  <2>2. CASE i # m + 1
    <3>. DEFINE j == c + i - h - 1
    <3>1. i \in h + 1 .. m /\ i \in 1 .. m /\ j - 1 \in 0 .. s.nb - 2 /\ (j - 1) + 1 = j /\ (c - 1) + i - h - 1 = j - 1
      <4>1. /\ i \in h + 1 .. m + 1 /\ i # m + 1 /\ h \in Nat /\ c \in Nat /\ c > 0 /\ s.nb \in Nat /\ m \in Nat
            /\ c + m = s.nb + h
        BY <1>1, <1>3, <2>2
      <4>. QED BY ONLY <4>1
    <3>2. s.q[i].n = s.frag /\ s.q[i].b = AuAt(s, j) /\ AuSlot(s, j).sem = 0
      BY <3>1 DEF AuGiven, m
    <3>. HIDE DEF j
    <3>3. AuAt(r, j - 1) = AuAt(s, j) /\ AuSlot(r, j - 1) = AuSlot(s, j)
      <4>1. AuAt(r, j - 1) = AuAt(s, (j - 1) + 1) /\ AuSlot(r, j - 1) = AuSlot(s, (j - 1) + 1)
        BY <3>1, AuAtNext
      <4>. QED BY <3>1, <4>1
    <3>. QED BY <1>1, <1>2, <3>1, <3>2, <3>3
  <2>. QED BY <2>1, <2>2
<1>6. h <= m + 1 /\ c - 1 <= r.nb /\ (c - 1) + (m + 1) = r.nb + h
  BY <1>1, <1>3
<1>. QED BY <1>2, <1>4, <1>5, <1>6 DEF AuGiven

LEMMA AuGivenTaken ==
  ASSUME NEW s, AuFormed(s), s.set, NEW r, AuSame(s, r), r.idx = s.idx, NEW c \in Nat, AuOthers(s, r, AuAt(s, c)),
         s.q # <<>>, r.q = Tail(s.q), AuGiven(s, 0, c)
  PROVE  AuGiven(r, 0, c + 1) /\ c < s.nb /\ s.q[1].b = AuAt(s, c) /\ s.q[1].n = s.frag
<1>. DEFINE m == Len(s.q)
<1>1. /\ s.nb \in Nat /\ s.nb >= 2 /\ r.nb = s.nb /\ r.frag = s.frag /\ s.q \in Seq(AuEntry) /\ m \in Nat
  BY AuFormedIs DEF AuSame
<1>2. m >= 1 /\ Len(r.q) = m - 1 /\ \A i \in 1 .. m - 1 : r.q[i] = s.q[i + 1]
  BY <1>1
<1>3. c + m = s.nb
  BY <1>1 DEF AuGiven
<1>4. \A i \in 1 .. m : s.q[i].n = s.frag /\ s.q[i].b = AuAt(s, c + i - 1) /\ AuSlot(s, c + i - 1).sem = 0
  <2>1. \A i \in 0 + 1 .. m : s.q[i].n = s.frag /\ s.q[i].b = AuAt(s, c + i - 0 - 1) /\ AuSlot(s, c + i - 0 - 1).sem = 0
    BY DEF AuGiven
  <2>2. \A i \in 1 .. m : i \in 0 + 1 .. m /\ c + i - 0 - 1 = c + i - 1
    BY <1>1
  <2>. QED BY <2>1, <2>2
<1>. HIDE DEF m
<1>5. c < s.nb /\ c \in 0 .. s.nb - 1
  BY <1>1, <1>2, <1>3
<1>6. s.q[1].b = AuAt(s, c) /\ s.q[1].n = s.frag
  <2>1. 1 \in 1 .. m /\ c + 1 - 1 = c
    BY <1>1, <1>2
  <2>. QED BY <1>4, <2>1
<1>7. ASSUME NEW i \in 0 + 1 .. m - 1
      PROVE  r.q[i].n = r.frag /\ r.q[i].b = AuAt(r, (c + 1) + i - 0 - 1) /\ AuSlot(r, (c + 1) + i - 0 - 1).sem = 0
  <2>. DEFINE j == c + i
  <2>1. /\ i \in 1 .. m - 1 /\ i + 1 \in 1 .. m /\ c + (i + 1) - 1 = j /\ (c + 1) + i - 0 - 1 = j
        /\ j \in 0 .. s.nb - 1 /\ j # c
    <3>1. i \in 0 + 1 .. m - 1 /\ c \in Nat /\ s.nb \in Nat /\ m \in Nat /\ c + m = s.nb
      BY <1>1, <1>3
    <3>. QED BY ONLY <3>1
  <2>. HIDE DEF j
  <2>2. s.q[i + 1].n = s.frag /\ s.q[i + 1].b = AuAt(s, j) /\ AuSlot(s, j).sem = 0
    BY <1>4, <2>1
  <2>3. AuAt(r, j) = AuAt(s, j) /\ AuSlot(r, j) = AuSlot(s, j)
    BY <1>5, <2>1, AuAtOther
  <2>. QED BY <1>1, <1>2, <2>1, <2>2, <2>3
<1>8. 0 <= m - 1 /\ c + 1 <= r.nb /\ (c + 1) + (m - 1) = r.nb + 0
  BY <1>1, <1>2, <1>3
<1>9. \A i \in 1 .. 0 : r.q[i].n = 0
  OBVIOUS
<1>. QED BY <1>2, <1>5, <1>6, <1>7, <1>8, <1>9 DEF AuGiven

LEMMA AuGivenSame ==
  ASSUME NEW s, AuFormed(s), s.set, NEW r, AuSame(s, r), r.idx = s.idx, AuOthers(s, r, s.idx), r.q = s.q,
         NEW h \in Nat, NEW c \in Nat, c > 0, AuGiven(s, h, c)
  PROVE  AuGiven(r, h, c)
<1>. DEFINE m == Len(s.q)
<1>1. s.nb \in Nat /\ s.nb >= 2 /\ r.nb = s.nb /\ r.frag = s.frag /\ m \in Nat /\ s.idx = AuAt(s, 0) /\ 0 \in 0 .. s.nb - 1
  BY AuFormedIs, AuAtIs DEF AuSame
<1>2. h <= m /\ c <= s.nb /\ c + m = s.nb + h
  BY DEF AuGiven
<1>3. \A j \in 0 .. s.nb - 1 : AuAt(r, j) = AuAt(s, j) /\ (j # 0 => AuSlot(r, j) = AuSlot(s, j))
  BY <1>1, AuAtOther
<1>4. ASSUME NEW i \in h + 1 .. m
      PROVE  s.q[i].n = s.frag /\ s.q[i].b = AuAt(r, c + i - h - 1) /\ AuSlot(r, c + i - h - 1).sem = 0
  <2>. DEFINE j == c + i - h - 1
  <2>1. j \in 0 .. s.nb - 1 /\ j # 0
    <3>1. i \in h + 1 .. m /\ h \in Nat /\ c \in Nat /\ c > 0 /\ s.nb \in Nat /\ m \in Nat /\ c + m = s.nb + h
      BY <1>1, <1>2
    <3>. QED BY ONLY <3>1
  <2>2. s.q[i].n = s.frag /\ s.q[i].b = AuAt(s, j) /\ AuSlot(s, j).sem = 0
    BY DEF AuGiven
  <2>. HIDE DEF j
  <2>3. s.q[i].n = s.frag /\ s.q[i].b = AuAt(r, j) /\ AuSlot(r, j).sem = 0
    BY <1>3, <2>1, <2>2
  <2>. QED BY <2>3 DEF j
<1>. QED BY <1>1, <1>2, <1>4 DEF AuGiven

(* The sound in the input when a buffer without any is passed, when one is *)
(* read to its end or in part, and when one more is recorded.              *)
LEMMA AuStoredSkip ==
  ASSUME NEW s, AuFormed(s), s.set, NEW r, AuSame(s, r), r.idx = AuAfter(s), AuOthers(s, r, s.idx),
         NEW e \in Nat, NEW c \in Nat, e > 0, c <= s.nb, NEW taped, NEW heard, AuStored(s, e, c, taped, heard)
  PROVE  AuStored(r, e - 1, c - 1, taped, heard)
<1>1. s.nb \in Nat /\ r.frag = s.frag /\ e <= c
  BY AuFormedIs DEF AuSame, AuStored
<1>2. \A j \in 0 .. c - 2 : AuSlot(r, j) = AuSlot(s, j + 1)
  <2>1. \A j \in 0 .. s.nb - 2 : AuSlot(r, j) = AuSlot(s, j + 1)
    BY AuAtNext
  <2>2. \A j \in 0 .. c - 2 : j \in 0 .. s.nb - 2
    BY <1>1
  <2>. QED BY <2>1, <2>2
<1>3. ASSUME NEW j \in 0 .. (e - 1) - 1 PROVE AuSlot(r, j).size = 0
  <2>1. j + 1 \in 0 .. e - 1 /\ j \in 0 .. c - 2
    BY <1>1
  <2>2. AuSlot(s, j + 1).size = 0
    BY <2>1 DEF AuStored
  <2>. QED BY <1>2, <2>1, <2>2
<1>4. ASSUME NEW j \in e - 1 .. (c - 1) - 1
      PROVE  /\ AuFilled(r, j) /\ (j > e - 1 => AuSlot(r, j).size = r.frag)
             /\ AuSlot(r, j).data[1] + r.frag = IF j + 1 < c - 1 THEN AuSlot(r, j + 1).data[1] ELSE taped + 1
  <2>. DEFINE i == j + 1
  <2>1. i \in e .. c - 1 /\ j \in 0 .. c - 2 /\ (j > e - 1 <=> i > e) /\ (j + 1 < c - 1 <=> i + 1 < c)
    BY <1>1
  <2>2. /\ AuFilled(s, i) /\ (i > e => AuSlot(s, i).size = s.frag)
        /\ AuSlot(s, i).data[1] + s.frag = IF i + 1 < c THEN AuSlot(s, i + 1).data[1] ELSE taped + 1
    BY <2>1 DEF AuStored
  <2>3. AuSlot(r, j) = AuSlot(s, i)
    BY <1>2, <2>1
  <2>4. j + 1 < c - 1 => AuSlot(r, j + 1) = AuSlot(s, i + 1)
    <3>. SUFFICES ASSUME j + 1 < c - 1 PROVE AuSlot(r, j + 1) = AuSlot(s, i + 1)
      OBVIOUS
    <3>1. i \in 0 .. c - 2
      BY <1>1, <2>1
    <3>2. AuSlot(r, i) = AuSlot(s, i + 1)
      BY <1>2, <3>1
    <3>. QED BY <3>2
  <2>5. AuFilled(r, j)
    BY <1>1, <2>2, <2>3 DEF AuFilled
  <2>6. j + 1 < c - 1 => AuSlot(r, j).data[1] + r.frag = AuSlot(r, j + 1).data[1]
    BY <1>1, <2>1, <2>2, <2>3, <2>4
  <2>7. ~ (j + 1 < c - 1) => AuSlot(r, j).data[1] + r.frag = taped + 1
    BY <1>1, <2>1, <2>2, <2>3
  <2>. QED BY <1>1, <2>1, <2>2, <2>3, <2>5, <2>6, <2>7
<1>5. e - 1 <= c - 1 /\ (e - 1 < c - 1 <=> e < c) /\ (e - 1 = c - 1 <=> e = c)
  BY <1>1
<1>6. e < c => AuSlot(r, e - 1) = AuSlot(s, e)
  <2>1. e < c => e - 1 \in 0 .. c - 2 /\ (e - 1) + 1 = e
    BY <1>1
  <2>2. e < c => AuSlot(r, e - 1) = AuSlot(s, (e - 1) + 1)
    BY <1>2, <2>1
  <2>. QED BY <2>1, <2>2
<1>7. e < c => /\ AuSlot(r, e - 1).size \in 1 .. r.frag
               /\ AuSlot(r, e - 1).data[1] + r.frag = heard + 1 + AuSlot(r, e - 1).size
  BY <1>1, <1>6 DEF AuStored
<1>8. e = c => heard = taped
  BY DEF AuStored
<1>. QED BY ONLY <1>3, <1>4, <1>5, <1>7, <1>8 DEF AuStored

LEMMA AuStoredRead ==
  ASSUME NEW s, AuFormed(s), s.set, NEW r, AuSame(s, r), r.idx = AuAfter(s), AuOthers(s, r, s.idx),
         NEW c \in Nat, c > 0, c <= s.nb, NEW taped \in Nat, NEW heard \in Nat, AuStored(s, 0, c, taped, heard)
  PROVE  AuStored(r, 0, c - 1, taped, heard + AuSlot(s, 0).size)
<1>1. /\ s.nb \in Nat /\ r.frag = s.frag /\ s.frag \in Nat /\ s.frag >= 1 /\ 0 \in 0 .. s.nb - 1
      /\ AuSlot(s, 0).size \in Nat
  BY AuFormedIs, AuAtIs DEF AuSame
<1>2. \A j \in 0 .. c - 2 : AuSlot(r, j) = AuSlot(s, j + 1)
  <2>1. \A j \in 0 .. s.nb - 2 : AuSlot(r, j) = AuSlot(s, j + 1)
    BY AuAtNext
  <2>2. \A j \in 0 .. c - 2 : j \in 0 .. s.nb - 2
    BY <1>1
  <2>. QED BY <2>1, <2>2
<1>3. /\ \A j \in 0 .. c - 1 :
           /\ AuFilled(s, j) /\ (j > 0 => AuSlot(s, j).size = s.frag)
           /\ AuSlot(s, j).data[1] + s.frag = IF j + 1 < c THEN AuSlot(s, j + 1).data[1] ELSE taped + 1
      /\ AuSlot(s, 0).size \in 1 .. s.frag /\ AuSlot(s, 0).data[1] + s.frag = heard + 1 + AuSlot(s, 0).size
  BY DEF AuStored
<1>4. ASSUME NEW j \in 0 .. (c - 1) - 1
      PROVE  /\ AuFilled(r, j) /\ AuSlot(r, j).size = r.frag
             /\ AuSlot(r, j).data[1] + r.frag = IF j + 1 < c - 1 THEN AuSlot(r, j + 1).data[1] ELSE taped + 1
  <2>. DEFINE i == j + 1
  <2>1. i \in 0 .. c - 1 /\ i > 0 /\ j \in 0 .. c - 2 /\ (j + 1 < c - 1 <=> i + 1 < c)
    OBVIOUS
  <2>2. /\ AuFilled(s, i) /\ AuSlot(s, i).size = s.frag
        /\ AuSlot(s, i).data[1] + s.frag = IF i + 1 < c THEN AuSlot(s, i + 1).data[1] ELSE taped + 1
    BY <1>3, <2>1
  <2>3. AuSlot(r, j) = AuSlot(s, i)
    BY <1>2, <2>1
  <2>4. j + 1 < c - 1 => AuSlot(r, j + 1) = AuSlot(s, i + 1)
    <3>. SUFFICES ASSUME j + 1 < c - 1 PROVE AuSlot(r, j + 1) = AuSlot(s, i + 1)
      OBVIOUS
    <3>1. i \in 0 .. c - 2
      BY <2>1
    <3>2. AuSlot(r, i) = AuSlot(s, i + 1)
      BY <1>2, <3>1
    <3>. QED BY <3>2
  <2>5. AuFilled(r, j)
    BY <1>1, <2>2, <2>3 DEF AuFilled
  <2>6. j + 1 < c - 1 => AuSlot(r, j).data[1] + r.frag = AuSlot(r, j + 1).data[1]
    BY <1>1, <2>1, <2>2, <2>3, <2>4
  <2>7. ~ (j + 1 < c - 1) => AuSlot(r, j).data[1] + r.frag = taped + 1
    BY <1>1, <2>1, <2>2, <2>3
  <2>. QED BY <1>1, <2>1, <2>2, <2>3, <2>5, <2>6, <2>7
<1>5. AuSlot(s, 0).data[1] + s.frag = IF 1 < c THEN AuSlot(s, 1).data[1] ELSE taped + 1
  <2>1. 0 \in 0 .. c - 1 /\ 0 + 1 = 1
    OBVIOUS
  <2>. QED BY <1>3, <2>1
<1>6. 0 < c - 1 => /\ AuSlot(r, 0).size \in 1 .. r.frag
                   /\ AuSlot(r, 0).data[1] + r.frag = (heard + AuSlot(s, 0).size) + 1 + AuSlot(r, 0).size
  <2>. SUFFICES ASSUME 0 < c - 1
       PROVE  /\ AuSlot(r, 0).size \in 1 .. r.frag
              /\ AuSlot(r, 0).data[1] + r.frag = (heard + AuSlot(s, 0).size) + 1 + AuSlot(r, 0).size
    OBVIOUS
  <2>1. 0 \in 0 .. (c - 1) - 1 /\ 0 \in 0 .. c - 2 /\ 0 + 1 = 1 /\ 1 < c
    OBVIOUS
  <2>2. AuSlot(r, 0).size = s.frag /\ AuSlot(r, 0) = AuSlot(s, 1)
    BY <1>1, <1>2, <1>4, <2>1
  <2>3. AuSlot(r, 0).data[1] = heard + 1 + AuSlot(s, 0).size
    BY <1>3, <1>5, <2>1, <2>2
  <2>. QED BY <1>1, <2>2, <2>3
<1>7. 0 = c - 1 => heard + AuSlot(s, 0).size = taped
  <2>. SUFFICES ASSUME 0 = c - 1 PROVE heard + AuSlot(s, 0).size = taped
    OBVIOUS
  <2>1. ~ 1 < c
    OBVIOUS
  <2>2. taped + 1 = heard + 1 + AuSlot(s, 0).size
    BY <1>3, <1>5, <2>1
  <2>. QED BY <1>1, <2>2
<1>8. (\A j \in 0 .. 0 - 1 : AuSlot(r, j).size = 0) /\ 0 <= c - 1
  OBVIOUS
<1>. QED BY ONLY <1>4, <1>6, <1>7, <1>8 DEF AuStored

LEMMA AuStoredPart ==
  ASSUME NEW s, AuFormed(s), s.set, NEW r, AuSame(s, r), r.idx = s.idx, AuOthers(s, r, s.idx),
         r.buf[s.idx].data = s.buf[s.idx].data, NEW n \in Nat, n < s.buf[s.idx].size, r.buf[s.idx].size = s.buf[s.idx].size - n,
         NEW c \in Nat, c > 0, c <= s.nb, NEW taped \in Nat, NEW heard \in Nat, AuStored(s, 0, c, taped, heard)
  PROVE  AuStored(r, 0, c, taped, heard + n)
<1>1. s.nb \in Nat /\ r.frag = s.frag /\ s.frag \in Nat /\ 0 \in 0 .. s.nb - 1 /\ s.idx = AuAt(s, 0) /\ AuSlot(s, 0).size \in Nat
  BY AuFormedIs, AuAtIs DEF AuSame
<1>2. AuAt(r, 0) = AuAt(s, 0) /\ \A j \in 0 .. s.nb - 1 : j # 0 => AuSlot(r, j) = AuSlot(s, j)
  BY <1>1, AuAtOther
<1>3. AuSlot(r, 0).data = AuSlot(s, 0).data /\ AuSlot(r, 0).size = AuSlot(s, 0).size - n /\ n < AuSlot(s, 0).size
  BY <1>1, <1>2 DEF AuSlot
<1>4. \A j \in 0 .. c - 1 : AuSlot(r, j).data = AuSlot(s, j).data /\ (j > 0 => AuSlot(r, j).size = AuSlot(s, j).size)
  <2>1. \A j \in 0 .. c - 1 : j \in 0 .. s.nb - 1 /\ (j = 0 \/ (j # 0 /\ j > 0))
    BY <1>1
  <2>. QED BY <1>2, <1>3, <2>1
<1>5. /\ \A j \in 0 .. c - 1 :
           /\ AuFilled(s, j) /\ (j > 0 => AuSlot(s, j).size = s.frag)
           /\ AuSlot(s, j).data[1] + s.frag = IF j + 1 < c THEN AuSlot(s, j + 1).data[1] ELSE taped + 1
      /\ AuSlot(s, 0).size \in 1 .. s.frag /\ AuSlot(s, 0).data[1] + s.frag = heard + 1 + AuSlot(s, 0).size
  BY DEF AuStored
<1>6. ASSUME NEW j \in 0 .. c - 1
      PROVE  /\ AuFilled(r, j) /\ (j > 0 => AuSlot(r, j).size = r.frag)
             /\ AuSlot(r, j).data[1] + r.frag = IF j + 1 < c THEN AuSlot(r, j + 1).data[1] ELSE taped + 1
  <2>1. AuFilled(r, j)
    <3>1. AuFilled(s, j) /\ AuSlot(r, j).data = AuSlot(s, j).data
      BY <1>4, <1>5
    <3>. QED BY ONLY <1>1, <3>1 DEF AuFilled
  <2>2. j + 1 < c => AuSlot(r, j + 1).data = AuSlot(s, j + 1).data
    <3>1. j + 1 < c => j + 1 \in 0 .. c - 1
      OBVIOUS
    <3>. QED BY <1>4, <3>1
  <2>. QED BY <1>1, <1>4, <1>5, <2>1, <2>2
<1>7. /\ AuSlot(r, 0).size \in 1 .. r.frag
      /\ AuSlot(r, 0).data[1] + r.frag = (heard + n) + 1 + AuSlot(r, 0).size
  <2>. DEFINE size == AuSlot(s, 0).size
  <2>1. size \in 1 .. s.frag /\ AuSlot(r, 0).size = size - n /\ n < size /\ size \in Nat
    BY <1>1, <1>3, <1>5
  <2>2. AuSlot(r, 0).data[1] + s.frag = heard + 1 + size
    BY <1>3, <1>5
  <2>. HIDE DEF size
  <2>3. heard + 1 + size = (heard + n) + 1 + (size - n)
    BY <2>1
  <2>4. size - n \in 1 .. s.frag
    BY <1>1, <2>1
  <2>. QED BY <1>1, <2>1, <2>2, <2>3, <2>4
<1>8. (\A j \in 0 .. 0 - 1 : AuSlot(r, j).size = 0) /\ 0 <= c /\ ~ 0 = c
  OBVIOUS
<1>. QED BY ONLY <1>6, <1>7, <1>8 DEF AuStored

LEMMA AuStoredSame ==
  ASSUME NEW s, AuFormed(s), s.set, NEW r, AuSame(s, r), r.idx = s.idx, AuOthers(s, r, s.idx),
         r.buf[s.idx].data = s.buf[s.idx].data, r.buf[s.idx].size = s.buf[s.idx].size,
         NEW e \in Nat, NEW c \in Nat, c <= s.nb, NEW taped, NEW heard, AuStored(s, e, c, taped, heard)
  PROVE  AuStored(r, e, c, taped, heard)
<1>1. s.nb \in Nat /\ r.frag = s.frag /\ 0 \in 0 .. s.nb - 1 /\ s.idx = AuAt(s, 0) /\ e <= c
  BY AuFormedIs, AuAtIs DEF AuSame, AuStored
<1>2. AuAt(r, 0) = AuAt(s, 0) /\ \A j \in 0 .. s.nb - 1 : j # 0 => AuSlot(r, j) = AuSlot(s, j)
  BY <1>1, AuAtOther
<1>3. AuSlot(r, 0).data = AuSlot(s, 0).data /\ AuSlot(r, 0).size = AuSlot(s, 0).size
  BY <1>1, <1>2 DEF AuSlot
<1>4. \A j \in 0 .. s.nb - 1 : AuSlot(r, j).data = AuSlot(s, j).data /\ AuSlot(r, j).size = AuSlot(s, j).size
  BY <1>2, <1>3
<1>5. \A j \in 0 .. c - 1 : AuSlot(r, j).data = AuSlot(s, j).data /\ AuSlot(r, j).size = AuSlot(s, j).size
  <2>1. \A j \in 0 .. c - 1 : j \in 0 .. s.nb - 1
    BY <1>1
  <2>. QED BY <1>4, <2>1
<1>6. /\ \A j \in 0 .. e - 1 : j \in 0 .. c - 1
      /\ \A j \in e .. c - 1 : j \in 0 .. c - 1 /\ (j + 1 < c => j + 1 \in 0 .. c - 1)
      /\ e < c => e \in 0 .. c - 1
  BY <1>1
<1>7. \A j \in e .. c - 1 : AuFilled(s, j) => AuFilled(r, j)
  BY <1>1, <1>5, <1>6 DEF AuFilled
<1>8. ASSUME NEW j \in e .. c - 1
      PROVE  /\ AuFilled(r, j) /\ (j > e => AuSlot(r, j).size = r.frag)
             /\ AuSlot(r, j).data[1] + r.frag = IF j + 1 < c THEN AuSlot(r, j + 1).data[1] ELSE taped + 1
  <2>1. /\ AuFilled(s, j) /\ (j > e => AuSlot(s, j).size = s.frag)
        /\ AuSlot(s, j).data[1] + s.frag = IF j + 1 < c THEN AuSlot(s, j + 1).data[1] ELSE taped + 1
    BY DEF AuStored
  <2>. QED BY <1>1, <1>5, <1>6, <1>7, <2>1
<1>9. \A j \in 0 .. e - 1 : AuSlot(r, j).size = 0
  BY <1>5, <1>6 DEF AuStored
<1>10. e < c => AuSlot(r, e).size \in 1 .. r.frag /\ AuSlot(r, e).data[1] + r.frag = heard + 1 + AuSlot(r, e).size
  BY <1>1, <1>5, <1>6 DEF AuStored
<1>11. e <= c /\ (e = c => heard = taped)
  BY DEF AuStored
<1>. QED BY ONLY <1>8, <1>9, <1>10, <1>11 DEF AuStored

LEMMA AuStoredMore ==
  ASSUME NEW s, AuFormed(s), s.set, NEW r, AuSame(s, r), r.idx = s.idx, NEW e \in Nat, NEW c \in Nat, c < s.nb,
         AuOthers(s, r, AuAt(s, c)), NEW taped \in Nat, NEW heard \in Nat,
         r.buf[AuAt(s, c)].size = s.frag, r.buf[AuAt(s, c)].data = AuFrames(taped, s.frag),
         AuStored(s, e, c, taped, heard)
  PROVE  AuStored(r, e, c + 1, taped + s.frag, heard)
<1>1. s.nb \in Nat /\ r.frag = s.frag /\ s.frag \in Nat /\ s.frag >= 1 /\ c \in 0 .. s.nb - 1 /\ e <= c
  BY AuFormedIs DEF AuSame, AuStored
<1>2. AuAt(r, c) = AuAt(s, c) /\ \A j \in 0 .. s.nb - 1 : j # c => AuSlot(r, j) = AuSlot(s, j)
  BY <1>1, AuAtOther
<1>3. AuSlot(r, c).data = AuFrames(taped, s.frag) /\ AuSlot(r, c).size = s.frag
  BY <1>2 DEF AuSlot
<1>4. /\ Len(AuSlot(r, c).data) = s.frag /\ AuSlot(r, c).data[1] = taped + 1
      /\ \A k \in 1 .. s.frag : AuSlot(r, c).data[k] = taped + k
  <2>. DEFINE d == AuFrames(taped, s.frag)
  <2>1. 1 \in 1 .. s.frag /\ taped \in Nat
    BY <1>1
  <2>2. Len(d) = s.frag /\ \A k \in 1 .. s.frag : d[k] = taped + k
    BY <1>1, <2>1, AuFramesAre
  <2>3. AuSlot(r, c).data = d
    BY <1>3
  <2>. HIDE DEF d
  <2>. QED BY <2>1, <2>2, <2>3
<1>5. AuFilled(r, c)
  BY <1>1, <1>4 DEF AuFilled
<1>6. \A j \in 0 .. c - 1 : AuSlot(r, j) = AuSlot(s, j)
  <2>1. \A j \in 0 .. c - 1 : j \in 0 .. s.nb - 1 /\ j # c
    BY <1>1
  <2>. QED BY <1>2, <2>1
<1>7. ASSUME NEW j \in e .. (c + 1) - 1
      PROVE  /\ AuFilled(r, j) /\ (j > e => AuSlot(r, j).size = r.frag)
             /\ AuSlot(r, j).data[1] + r.frag = IF j + 1 < c + 1 THEN AuSlot(r, j + 1).data[1] ELSE (taped + s.frag) + 1
  <2>1. CASE j = c
    <3>1. AuSlot(r, j).data[1] + r.frag = (taped + s.frag) + 1
      <4>1. (taped + 1) + s.frag = (taped + s.frag) + 1
        BY <1>1
      <4>. QED BY <1>1, <1>4, <2>1, <4>1
    <3>2. ~ (j + 1 < c + 1)
      BY <2>1
    <3>. QED BY <1>1, <1>3, <1>5, <2>1, <3>1, <3>2
  <2>2. CASE j # c
    <3>1. j \in e .. c - 1 /\ j \in 0 .. c - 1 /\ j + 1 < c + 1 /\ (~ (j + 1 < c) => j + 1 = c) /\ (j + 1 < c => j + 1 \in 0 .. c - 1)
      BY <1>1, <2>2
    <3>2. /\ AuFilled(s, j) /\ (j > e => AuSlot(s, j).size = s.frag)
          /\ AuSlot(s, j).data[1] + s.frag = IF j + 1 < c THEN AuSlot(s, j + 1).data[1] ELSE taped + 1
      BY <3>1 DEF AuStored
    <3>3. AuSlot(r, j) = AuSlot(s, j)
      BY <1>6, <3>1
    <3>4. AuFilled(r, j)
      BY <1>1, <3>2, <3>3 DEF AuFilled
    <3>5. CASE j + 1 < c
      <4>1. AuSlot(r, j + 1) = AuSlot(s, j + 1)
        BY <1>6, <3>1, <3>5
      <4>. QED BY <1>1, <3>1, <3>2, <3>3, <3>4, <3>5, <4>1
    <3>6. CASE ~ (j + 1 < c)
      <4>1. AuSlot(r, j).data[1] + r.frag = AuSlot(r, j + 1).data[1]
        BY <1>1, <1>4, <3>1, <3>2, <3>3, <3>6
      <4>. QED BY <1>1, <3>1, <3>2, <3>3, <3>4, <4>1
    <3>. QED BY <3>5, <3>6
  <2>. QED BY <2>1, <2>2
<1>8. \A j \in 0 .. e - 1 : AuSlot(r, j).size = 0
  <2>1. \A j \in 0 .. e - 1 : j \in 0 .. c - 1
    BY <1>1
  <2>. QED BY <1>6, <2>1 DEF AuStored
<1>9. AuSlot(r, e).size \in 1 .. r.frag /\ AuSlot(r, e).data[1] + r.frag = heard + 1 + AuSlot(r, e).size
  <2>1. CASE e < c
    <3>1. e \in 0 .. c - 1
      BY <2>1
    <3>. QED BY <1>1, <1>6, <2>1, <3>1 DEF AuStored
  <2>2. CASE e = c
    <3>1. heard = taped
      BY <2>2 DEF AuStored
    <3>. QED BY <1>1, <1>3, <1>4, <2>2, <3>1
  <2>. QED BY <1>1, <2>1, <2>2
<1>10. e <= c + 1 /\ ~ e = c + 1
  BY <1>1
<1>. QED BY ONLY <1>7, <1>8, <1>9, <1>10 DEF AuStored

-----------------------------------------------------------------------------
(* A direction without buffers has nothing left to play or to read, and    *)
(* its DMA has freed ones only.                                            *)
AuIdle ==
  /\ ~ output_stream.set => au_played = au_written
  /\ ~ input_stream.set =>
       au_heard = au_taped /\ \A i \in 1 .. Len(input_stream.q) : input_stream.q[i].n = 0

LEMMA AuIdleNext ==
  ASSUME AuBase, AuIdle, AuNext, ~ au_oops'
  PROVE  AuIdle'
<1>1. AuTyped /\ AuHeld /\ AuTyped'
  BY AuTypedNext DEF AuBase, AuNext
<1>2. /\ AuFormed(output_stream) /\ AuFormed(input_stream)
      /\ \A t \in AuThreads : au_pc[t] \in AuOut => output_stream.set /\ au_b[t] \in 0 .. output_stream.nb - 1
      /\ \A t \in AuThreads : au_pc[t] \in AuInput => input_stream.set /\ au_b[t] \in 0 .. input_stream.nb - 1
  <2>1. AuFormed(output_stream) /\ AuFormed(input_stream) /\ \A t \in AuThreads : au_b[t] \in Nat
    BY <1>1 DEF AuTyped
  <2>2. output_stream.nb \in Nat /\ input_stream.nb \in Nat
    BY <2>1, AuFormedIs
  <2>. QED BY <1>1, <2>1, <2>2 DEF AuHeld
<1>. DEFINE OutIdle == ~ output_stream.set => au_played = au_written
            InIdle == ~ input_stream.set =>
              au_heard = au_taped /\ \A i \in 1 .. Len(input_stream.q) : input_stream.q[i].n = 0
<1>3. OutIdle /\ InIdle /\ (OutIdle' /\ InIdle' => AuIdle')
  BY DEF AuIdle
<1>4. UNCHANGED <<output_stream, au_played, au_written>> \/ output_stream'.set => OutIdle'
  BY <1>3
<1>5. UNCHANGED <<input_stream, au_heard, au_taped>> \/ input_stream'.set => InIdle'
  BY <1>3
<1>6. AuClearOut /\ au_written' = au_written => OutIdle'
  BY DEF AuClearOut
<1>7. AuClearIn /\ au_taped' = au_taped => InIdle'
  BY <1>2, AuClearedIn
<1>. HIDE DEF OutIdle, InIdle
<1>8. ASSUME NEW mode \in AuModes, AuOpen(mode) PROVE AuIdle'
  BY <1>3, <1>4, <1>5, <1>8 DEF AuOpen, auSound
<1>9. CASE AuReleaseIn
  BY <1>3, <1>4, <1>7, <1>9 DEF AuReleaseIn
<1>10. CASE AuDmaOut
  <2>1. output_stream.q[1].b \in 0 .. output_stream.nb - 1 /\ AuSame(output_stream, output_stream')
    BY <1>1, <1>10, AuDmaOutIs
  <2>2. output_stream.set
    <3>. DEFINE b == output_stream.q[1].b
    <3>1. b \in 0 .. output_stream.nb - 1
      BY <2>1
    <3>. HIDE DEF b
    <3>2. output_stream.nb # 0
      BY <3>1
    <3>. QED BY <1>2, <3>2, AuFormedIs
  <2>. QED BY <1>3, <1>4, <1>5, <1>10, <2>1, <2>2, Zenon DEF AuDmaOut, AuSame
<1>11. CASE AuDmaIn
  <2>1. input_stream.q # <<>> /\ input_stream.q[1].n # 0 /\ AuSame(input_stream, input_stream')
    BY <1>1, <1>11, AuDmaInIs
  <2>2. 1 \in 1 .. Len(input_stream.q)
    <3>1. input_stream.q \in Seq(AuEntry)
      BY <1>2, AuFormedIs
    <3>. QED BY <2>1, <3>1
  <2>3. input_stream.set
    BY <1>3, <2>1, <2>2 DEF InIdle
  <2>. QED BY <1>3, <1>4, <1>5, <1>11, <2>1, <2>3 DEF AuDmaIn, AuSame
<1>12. ASSUME NEW t \in AuThreads, AuRelease(t) PROVE AuIdle'
  <2>1. InIdle' /\ OutIdle'
    <3>1. CASE output_stream.set
      <4>1. UNCHANGED <<output_stream, au_played, au_written, au_taped>>
        BY <1>12, <3>1 DEF AuRelease
      <4>. QED BY <1>4, <1>5, <1>7, <1>12, <4>1 DEF AuRelease
    <3>2. CASE ~ output_stream.set
      <4>1. AuClearOut /\ UNCHANGED <<au_written, au_taped>>
        BY <1>12, <3>2 DEF AuRelease, AuReleaseDone
      <4>. QED BY <1>5, <1>6, <1>7, <1>12, <4>1 DEF AuRelease
    <3>. QED BY <3>1, <3>2
  <2>. QED BY <1>3, <2>1
<1>13. ASSUME NEW t \in AuThreads, AuSync(t) \/ AuSyncDone(t) \/ AuWriteStop(t) \/ AuReadStop(t) PROVE AuIdle'
  BY <1>3, <1>4, <1>5, <1>13 DEF AuSync, AuSyncDone, AuWriteStop, AuReadStop, auSound
<1>14. ASSUME NEW t \in AuThreads, AuSyncDown(t) PROVE AuIdle'
  <2>1. output_stream'.set
    BY <1>1, <1>14, AuSyncDownIs DEF AuSame
  <2>. QED BY <1>3, <1>4, <1>5, <1>14, <2>1 DEF AuSyncDown, auSound
<1>15. ASSUME NEW t \in AuThreads, AuSyncReturn(t) PROVE AuIdle'
  BY <1>3, <1>4, <1>5, <1>6, <1>15 DEF AuSyncReturn, AuReleaseDone, auSound
<1>16. ASSUME NEW t \in AuThreads, AuWriteDown(t) \/ AuWriteFault(t) PROVE AuIdle'
  <2>1. au_pc[t] \in AuOut /\ \E n \in Nat : output_stream' = AuSem(output_stream, au_b[t], n)
    BY <1>16 DEF AuWriteDown, AuWriteFault, AuOut
  <2>2. output_stream'.set
    BY ONLY <1>2, <2>1, AuSemIs DEF AuSame
  <2>. QED BY <1>3, <1>4, <1>5, <1>16, <2>2 DEF AuWriteDown, AuWriteFault, auSound
<1>17. ASSUME NEW t \in AuThreads, AuWriteCopy(t) PROVE AuIdle'
  <2>1. au_pc[t] \in AuOut /\ AuSame(output_stream, output_stream')
    BY <1>1, <1>17, AuWriteCopyIs DEF AuOut
  <2>. QED BY <1>2, <1>3, <1>4, <1>5, <1>17, <2>1 DEF AuWriteCopy, AuSame
<1>18. ASSUME NEW t \in AuThreads, AuReadDown(t) \/ AuReadFault(t) PROVE AuIdle'
  <2>1. au_pc[t] \in AuInput /\ \E n \in Nat : input_stream' = AuSem(input_stream, au_b[t], n)
    BY <1>18 DEF AuReadDown, AuReadFault, AuInput
  <2>2. input_stream'.set
    BY <1>2, <2>1, AuSemIs DEF AuSame
  <2>. QED BY <1>3, <1>4, <1>5, <1>18, <2>2 DEF AuReadDown, AuReadFault, auSound
<1>19. ASSUME NEW t \in AuThreads, AuReadCopy(t) PROVE AuIdle'
  <2>1. au_pc[t] \in AuInput /\ AuSame(input_stream, input_stream')
    BY <1>1, <1>19, AuReadCopyIs DEF AuInput
  <2>. QED BY <1>2, <1>3, <1>4, <1>5, <1>19, <2>1 DEF AuReadCopy, AuSame
<1>20. ASSUME NEW t \in AuThreads, NEW count \in AuCounts, AuWrite(t, count) PROVE AuIdle'
  <2>1. output_stream'.set \/ output_stream' = output_stream
    <3>1. AuSetup(au_shape).set
      BY DEF AuSetup
    <3>. QED BY <1>20, <3>1 DEF AuWrite
  <2>. QED BY <1>3, <1>4, <1>5, <1>20, <2>1 DEF AuWrite, auSound
<1>21. ASSUME NEW t \in AuThreads, NEW count \in AuCounts, AuRead(t, count) PROVE AuIdle'
  <2>1. input_stream'.set \/ input_stream' = input_stream
    <3>1. CASE input_stream.set \/ UNCHANGED <<input_stream, auCalls>>
      BY <1>21, <3>1 DEF AuRead
    <3>2. CASE ~ input_stream.set /\ ~ UNCHANGED <<input_stream, auCalls>>
      BY <1>1, <1>21, <3>2, AuFirstReadIs
    <3>. QED BY <3>1, <3>2
  <2>. QED BY <1>3, <1>4, <1>5, <1>21, <2>1 DEF AuRead, auSound
<1>22. ASSUME NEW f, NEW first, NEW shape \in (Nat \ {0, 1}) \X (Nat \ {0}), AuSetupAs(f, shape, first), UNCHANGED auSound PROVE AuIdle'
  <2>1. output_stream' = output_stream \/ output_stream'.set
    <3>1. AuSetup(shape).set
      BY DEF AuSetup
    <3>. QED BY <1>22, <3>1 DEF AuSetupAs
  <2>2. input_stream' = input_stream \/ input_stream'.set
    BY <1>1, <1>22, AuSetupAsIs
  <2>. QED BY <1>3, <1>4, <1>5, <1>22, <2>1, <2>2 DEF auSound
<1>23. ASSUME NEW t \in AuThreads, NEW f \in au_files, AuPoll(t, f) PROVE AuIdle'
  <2>1. au_shape \in (Nat \ {0, 1}) \X (Nat \ {0})
    BY <1>1 DEF AuTyped
  <2>. QED BY <1>22, <1>23, <2>1 DEF AuPoll
<1>24. ASSUME NEW t \in AuThreads, NEW f \in au_files, NEW shape \in AuShapes, AuSetFragment(t, f, shape) PROVE AuIdle'
  <2>1. shape \in (Nat \ {0, 1}) \X (Nat \ {0})
    BY AudioAssumption
  <2>. QED BY <1>22, <1>24, <2>1 DEF AuSetFragment
<1>25. ASSUME NEW t \in AuThreads, NEW f \in au_files, AuReset(t, f) PROVE AuIdle'
  BY <1>3, <1>4, <1>5, <1>6, <1>7, <1>25 DEF AuReset
<1>26. ASSUME NEW t \in AuThreads, AuMeet(t) PROVE AuIdle'
  BY <1>26 DEF AuMeet
<1>. QED BY <1>8, <1>9, <1>10, <1>11, <1>12, <1>13, <1>14, <1>15, <1>16, <1>17, <1>18, <1>19, <1>20, <1>21,
            <1>23, <1>24, <1>25, <1>26 DEF AuNext

(* What is in the ring of the first read, and of a poll or SETFRAGMENT     *)
(* before it; whom the first entry of the queue is for; and that the       *)
(* current buffer, when it is up, is not queued.                           *)
AuInWhole(s, taped, heard, copying) ==
  \E h, e, c \in Nat : AuGiven(s, h, c) /\ AuStored(s, e, c, taped, heard) /\ (copying => c > 0)

LEMMA AuGivenFirst ==
  ASSUME NEW s, AuFormed(s), s.set, NEW h \in Nat, NEW c \in Nat, AuGiven(s, h, c), s.q # <<>>, s.q[1].n # 0
  PROVE  h = 0 /\ c < s.nb /\ s.q[1].n = s.frag /\ s.q[1].b = AuAt(s, c) /\ AuSlot(s, c).sem = 0
<1>1. s.nb \in Nat /\ s.q \in Seq(AuEntry) /\ Len(s.q) \in Nat /\ Len(s.q) >= 1
  BY AuFormedIs
<1>2. h = 0
  <2>. SUFFICES ASSUME h # 0 PROVE FALSE
    OBVIOUS
  <2>1. 1 \in 1 .. h
    OBVIOUS
  <2>. QED BY <2>1 DEF AuGiven
<1>3. c < s.nb
  BY <1>1, <1>2 DEF AuGiven
<1>4. 1 \in h + 1 .. Len(s.q) /\ c + 1 - h - 1 = c
  BY <1>1, <1>2
<1>. QED BY <1>2, <1>3, <1>4 DEF AuGiven

LEMMA AuGivenUp ==
  ASSUME NEW s, AuFormed(s), s.set, NEW h \in Nat, NEW c \in Nat, AuGiven(s, h, c), s.buf[s.idx].sem # 0
  PROVE  c > 0
<1>. SUFFICES ASSUME c = 0 PROVE FALSE
  OBVIOUS
<1>1. s.nb \in Nat /\ s.nb >= 2 /\ Len(s.q) \in Nat /\ AuAt(s, 0) = s.idx
  BY AuFormedIs, AuAtIs
<1>2. h + 1 \in h + 1 .. Len(s.q) /\ c + (h + 1) - h - 1 = 0
  BY <1>1 DEF AuGiven
<1>3. AuSlot(s, 0).sem = 0
  BY <1>2 DEF AuGiven
<1>. QED BY <1>1, <1>3 DEF AuSlot

LEMMA AuWholeFirst ==
  ASSUME NEW s, AuFormed(s), NEW r, AuFormed(r), r.set, r.idx = 0, Len(r.q) = Len(s.q) + r.nb,
         \A i \in 1 .. Len(s.q) : s.q[i].n = 0, \A i \in 1 .. Len(s.q) : r.q[i] = s.q[i],
         \A i \in 1 .. r.nb : r.q[Len(s.q) + i] = [b |-> i - 1, n |-> r.frag],
         \A b \in 0 .. r.nb - 1 : r.buf[b].sem = 0, NEW taped
  PROVE  AuInWhole(r, taped, taped, FALSE)
<1>. DEFINE h == Len(s.q)
<1>1. r.nb \in Nat /\ h \in Nat /\ Len(r.q) = h + r.nb
  BY AuFormedIs
<1>0. (\A i \in 1 .. h : r.q[i].n = 0) /\ \A i \in 1 .. r.nb : r.q[h + i] = [b |-> i - 1, n |-> r.frag]
  OBVIOUS
<1>. HIDE DEF h
<1>2. ASSUME NEW i \in h + 1 .. Len(r.q)
      PROVE  r.q[i].n = r.frag /\ r.q[i].b = AuAt(r, 0 + i - h - 1) /\ AuSlot(r, 0 + i - h - 1).sem = 0
  <2>. DEFINE j == i - h
  <2>1. j \in 1 .. r.nb /\ h + j = i /\ 0 + i - h - 1 = j - 1
    <3>1. i \in h + 1 .. h + r.nb
      BY <1>1
    <3>. QED BY <1>1, <3>1
  <2>2. r.q[h + j] = [b |-> j - 1, n |-> r.frag]
    BY <1>0, <2>1
  <2>. HIDE DEF j
  <2>3. AuAt(r, j - 1) = j - 1 /\ j - 1 \in 0 .. r.nb - 1
    BY <1>1, <2>1 DEF AuAt
  <2>. QED BY <2>1, <2>2, <2>3 DEF AuSlot
<1>3. AuGiven(r, h, 0)
  BY <1>0, <1>1, <1>2 DEF AuGiven
<1>4. AuStored(r, 0, 0, taped, taped)
  BY DEF AuStored
<1>. QED BY <1>1, <1>3, <1>4 DEF AuInWhole

LEMMA AuWholeSetup ==
  ASSUME NEW r, AuFormed(r), r.set, r.idx = 0, \A i \in 1 .. Len(r.q) : r.q[i].n = 0,
         \A b \in 0 .. r.nb - 1 : r.buf[b].size = 0, NEW taped
  PROVE  AuInWhole(r, taped, taped, TRUE)
<1>1. r.nb \in Nat /\ r.nb > 0 /\ Len(r.q) \in Nat
  BY AuFormedIs
<1>2. AuGiven(r, Len(r.q), r.nb)
  BY <1>1 DEF AuGiven
<1>3. \A j \in 0 .. r.nb - 1 : AuSlot(r, j).size = 0
  BY AuAtIs DEF AuSlot
<1>4. AuStored(r, r.nb, r.nb, taped, taped)
  BY <1>1, <1>3 DEF AuStored
<1>. QED BY <1>1, <1>2, <1>4 DEF AuInWhole

(* What is read from the current buffer are the frames that come next.     *)
LEMMA AuHeardIs ==
  ASSUME NEW s, AuFormed(s), s.set, NEW e \in Nat, NEW c \in Nat, c > 0, c <= s.nb, NEW taped, NEW heard \in Nat,
         AuStored(s, e, c, taped, heard), NEW n \in Nat, n <= s.buf[s.idx].size
  PROVE  AuReadFrom(s, s.idx, n) = AuFrames(heard, n)
<1>. DEFINE x == s.buf[s.idx] d == x.data z == x.size
<1>1. s.frag \in Nat /\ s.nb \in Nat /\ 0 \in 0 .. s.nb - 1 /\ x = AuSlot(s, 0) /\ z \in Nat /\ d \in Seq(Nat)
  <2>1. s.frag \in Nat /\ s.nb \in Nat /\ s.nb >= 2 /\ AuAt(s, 0) = s.idx
    BY AuFormedIs, AuAtIs
  <2>2. x = AuSlot(s, 0) /\ 0 \in 0 .. s.nb - 1
    BY <2>1 DEF AuSlot
  <2>3. AuSlot(s, 0).size \in Nat /\ AuSlot(s, 0).data \in Seq(Nat)
    BY <2>2, AuAtIs
  <2>. QED BY <2>1, <2>2, <2>3
<1>2. CASE e = 0
  <2>1. 0 \in e .. c - 1 /\ e < c
    BY <1>2
  <2>2. z \in 1 .. s.frag /\ Len(d) = s.frag /\ d[1] + s.frag = heard + 1 + z /\ \A k \in 1 .. s.frag : d[k] + 1 = d[1] + k
    <3>1. AuFilled(s, 0) /\ AuSlot(s, 0).size \in 1 .. s.frag /\ AuSlot(s, 0).data[1] + s.frag = heard + 1 + AuSlot(s, 0).size
      BY <1>2, <2>1 DEF AuStored
    <3>. QED BY <1>1, <3>1 DEF AuFilled
  <2>3. n <= z
    OBVIOUS
  <2>. HIDE DEF x, d, z
  <2>4. SubSeq(d, (s.frag - z) + 1, (s.frag - z) + n) = AuFrames(heard, n)
    <3>1. PICK full \in Nat : full = s.frag
      BY <1>1
    <3>2. PICK first \in Nat : first = d[1]
      <4>1. 1 \in 1 .. Len(d)
        BY <1>1, <2>2
      <4>2. d[1] \in Nat
        BY <1>1, <4>1
      <4>. QED BY <4>2
    <3>3. PICK m \in Nat : m = full - z /\ m + z = full
      BY <1>1, <2>2, <3>1
    <3>4. /\ d \in Seq(Nat) /\ Len(d) = full /\ \A k \in 1 .. full : d[k] + 1 = first + k
          /\ z \in Nat /\ z <= full /\ n <= z /\ first + full = heard + 1 + z
      BY <1>1, <2>2, <2>3, <3>1, <3>2
    <3>5. SubSeq(d, m + 1, m + n) = AuFrames(heard, n)
      <4>1. first + m = heard + 1
        BY <3>3, <3>4
      <4>2. ASSUME NEW k \in 1 .. n PROVE d[m + k] = heard + k
        <5>1. PICK i \in 1 .. full : i = m + k
          BY <3>3, <3>4
        <5>2. PICK v \in Nat : v = d[i]
          BY <3>4
        <5>3. v + 1 = first + (m + k)
          BY <3>4, <5>1, <5>2
        <5>4. v = heard + k
          BY <4>1, <5>3
        <5>. QED BY <5>1, <5>2, <5>4
      <4>3. n = 0 \/ m + n <= Len(d)
        BY <3>3, <3>4
      <4>4. d \in Seq(Nat) /\ m \in Nat /\ n \in Nat /\ heard \in Nat
        BY <3>4
      <4>. QED BY ONLY <4>2, <4>3, <4>4, AuFramesEq
    <3>. QED BY <3>1, <3>3, <3>5
  <2>. QED BY <2>4 DEF AuReadFrom, x, d, z
<1>3. CASE e # 0
  <2>1. 0 \in 0 .. e - 1
    BY <1>3
  <2>2. z = 0
    BY <1>1, <2>1 DEF AuStored
  <2>3. n = 0 /\ s.frag - z = s.frag
    BY <1>1, <2>2
  <2>4. SubSeq(d, s.frag + 1, s.frag + n) = AuFrames(heard, n)
    <3>1. n = 0 \/ s.frag + n <= Len(d)
      BY <2>3
    <3>2. \A k \in 1 .. n : d[s.frag + k] = heard + k
      BY <2>3
    <3>. HIDE DEF d, z
    <3>3. d \in Seq(Nat) /\ s.frag \in Nat /\ n \in Nat /\ heard \in Nat
      BY <1>1, <2>3
    <3>. QED BY ONLY <3>1, <3>2, <3>3, AuFramesEq
  <2>. QED BY <2>3, <2>4 DEF AuReadFrom
<1>. QED BY <1>2, <1>3

AuCopying == \E t \in AuThreads : au_pc[t] = "rcopy"
AuInStands(t) ==
  /\ au_pc[t] \in AuInput => au_b[t] = input_stream.idx
  /\ au_pc[t] = "rcopy" => input_stream.buf[input_stream.idx].sem = 0
AuInKept ==
  input_stream.set =>
    (\A t \in AuThreads : AuInStands(t)) /\ AuInWhole(input_stream, au_taped, au_heard, AuCopying)

(* The steps of the input: the DMA has recorded a buffer, the semaphore of *)
(* the current one is taken or given back, and it is read.                 *)
LEMMA AuInTaken ==
  ASSUME AuTyped, AuIdle, AuTyped', AuInKept, AuDmaIn, ~ au_oops'
  PROVE  AuInKept'
<1>. DEFINE s == input_stream r == input_stream' b == input_stream.q[1].b n == input_stream.q[1].n
<1>1. /\ s.q # <<>> /\ n # 0 /\ au_taped' = au_taped + n
      /\ AuFormed(r) /\ AuSame(s, r) /\ AuOthers(s, r, b) /\ r.idx = s.idx /\ r.q = Tail(s.q)
      /\ b \in 0 .. s.nb - 1 => r.buf[b] = [size |-> n, data |-> AuFrames(au_taped, n), sem |-> s.buf[b].sem + 1]
  BY AuDmaInIs
<1>2. AuFormed(s) /\ au_taped \in Nat /\ au_heard \in Nat
  BY DEF AuTyped
<1>3. s.set
  <2>1. 1 \in 1 .. Len(s.q)
    <3>1. s.q \in Seq(AuEntry)
      BY <1>2, AuFormedIs
    <3>. QED BY <1>1, <3>1
  <2>. QED BY <1>1, <2>1 DEF AuIdle
<1>4. (\A t \in AuThreads : AuInStands(t)) /\ AuInWhole(s, au_taped, au_heard, AuCopying)
  BY <1>3 DEF AuInKept
<1>5. PICK h \in Nat, e \in Nat, c \in Nat :
        AuGiven(s, h, c) /\ AuStored(s, e, c, au_taped, au_heard) /\ (AuCopying => c > 0)
  BY <1>4 DEF AuInWhole
<1>6. h = 0 /\ c < s.nb /\ n = s.frag /\ b = AuAt(s, c)
  BY <1>1, <1>2, <1>3, <1>5, AuGivenFirst
<1>7. UNCHANGED <<au_pc, au_b, au_heard>>
  BY DEF AuDmaIn, auCalls
<1>8. s.nb \in Nat /\ s.nb >= 2 /\ s.frag \in Nat /\ s.idx = AuAt(s, 0) /\ 0 \in 0 .. s.nb - 1 /\ c \in 0 .. s.nb - 1
  BY <1>2, <1>3, <1>6, AuAtIs, AuFormedIs
<1>9. AuAt(s, c) \in 0 .. s.nb - 1 /\ (c > 0 => AuAt(s, c) # s.idx) /\ s.idx \in 0 .. s.nb - 1
  BY <1>2, <1>3, <1>8, AuAtIs
<1>10. AuOthers(s, r, AuAt(s, c)) /\ r.buf[AuAt(s, c)].size = s.frag /\ r.buf[AuAt(s, c)].data = AuFrames(au_taped, s.frag)
  BY <1>1, <1>6, <1>9
<1>11. au_taped' = au_taped + s.frag
  BY <1>1, <1>6
<1>. HIDE DEF r, b, n
<1>12. AuGiven(r, 0, c + 1)
  <2>1. AuGiven(s, 0, c)
    BY <1>5, <1>6
  <2>. QED BY ONLY <1>1, <1>2, <1>3, <1>10, <2>1, c \in Nat, AuGivenTaken
<1>13. AuStored(r, e, c + 1, au_taped + s.frag, au_heard)
  <2>1. AuStored(s, e, c, au_taped, au_heard)
    BY <1>5
  <2>. QED BY ONLY <1>1, <1>2, <1>3, <1>6, <1>10, <2>1, c \in Nat, e \in Nat, AuStoredMore
<1>14. AuInWhole(r, au_taped + s.frag, au_heard, TRUE)
  <2>1. c + 1 \in Nat /\ c + 1 > 0 /\ 0 \in Nat
    OBVIOUS
  <2>. QED BY <1>12, <1>13, <2>1 DEF AuInWhole
<1>15. ASSUME NEW t \in AuThreads PROVE AuInStands(t)'
  <2>1. AuInStands(t) /\ (au_pc[t] = "rcopy" => c > 0)
    BY <1>4, <1>5 DEF AuCopying
  <2>2. c > 0 => r.buf[s.idx] = s.buf[s.idx]
    BY <1>9, <1>10 DEF AuOthers
  <2>. QED BY <1>1, <1>7, <2>1, <2>2 DEF AuInStands, r
<1>. QED BY <1>7, <1>11, <1>14, <1>15 DEF AuInKept, AuInWhole, r

LEMMA AuInTouched ==
  ASSUME AuTyped, AuHeld, AuTyped', AuInKept, "in" \notin au_raced,
         NEW t \in AuThreads, AuReadDown(t) \/ AuReadFault(t)
  PROVE  AuInKept'
<1>. DEFINE s == input_stream r == input_stream' b == au_b[t]
<1>1. au_pc[t] \in AuInput /\ UNCHANGED <<au_taped, au_heard>>
  BY DEF AuReadDown, AuReadFault, AuInput, auSound
<1>2. /\ AuFormed(s) /\ s.set /\ AuInStands(t) /\ AuInWhole(s, au_taped, au_heard, AuCopying)
      /\ \A u \in AuThreads : u # t => au_pc[u] \notin AuInput
  BY <1>1 DEF AuTyped, AuHeld, AuInKept
<1>3. b = s.idx /\ s.idx \in 0 .. s.nb - 1
  <2>1. s.idx \in Nat /\ s.nb \in Nat /\ s.idx < s.nb
    BY <1>2, AuFormedIs
  <2>. QED BY <1>1, <1>2, <2>1 DEF AuInStands
<1>4. PICK n \in {0, 1} :
        /\ r = AuSem(s, b, n)
        /\ \/ n = 0 /\ s.buf[b].sem # 0 /\ AuGo(t, "rcopy", b, au_left[t])
           \/ au_pc[t] = "rcopy" /\ AuReturn(t)
  BY DEF AuReadDown, AuReadFault
<1>5. /\ AuFormed(r) /\ AuSame(s, r) /\ r.idx = s.idx /\ r.q = s.q /\ AuOthers(s, r, s.idx)
      /\ r.buf[s.idx].size = s.buf[s.idx].size /\ r.buf[s.idx].data = s.buf[s.idx].data /\ r.buf[s.idx].sem = n
  <2>1. n \in Nat /\ r = AuSem(s, s.idx, n)
    BY <1>3, <1>4
  <2>. QED BY <1>2, <1>3, <2>1, AuSemIs
<1>6. PICK h \in Nat, e \in Nat, c \in Nat :
        AuGiven(s, h, c) /\ AuStored(s, e, c, au_taped, au_heard) /\ (AuCopying => c > 0)
  BY <1>2 DEF AuInWhole
<1>7. c > 0 /\ c <= s.nb
  <2>1. CASE s.buf[b].sem # 0
    BY <1>2, <1>3, <1>6, <2>1, AuGivenUp DEF AuGiven
  <2>2. CASE au_pc[t] = "rcopy"
    BY <1>6, <2>2 DEF AuCopying, AuGiven
  <2>. QED BY <1>4, <2>1, <2>2
<1>. HIDE DEF r, b
<1>8. AuGiven(r, h, c)
  BY ONLY <1>2, <1>5, <1>6, <1>7, h \in Nat, c \in Nat, AuGivenSame
<1>9. AuStored(r, e, c, au_taped, au_heard)
  BY ONLY <1>2, <1>5, <1>6, <1>7, e \in Nat, c \in Nat, AuStoredSame
<1>10. AuInWhole(r, au_taped, au_heard, AuCopying')
  BY <1>7, <1>8, <1>9 DEF AuInWhole
<1>11. /\ \A u \in AuThreads : u # t => au_pc'[u] \notin AuInput
       /\ au_pc'[t] = "user" \/ (n = 0 /\ au_pc'[t] = "rcopy" /\ au_b'[t] = s.idx)
  <2>1. CASE n = 0 /\ AuGo(t, "rcopy", b, au_left[t])
    BY <1>2, <1>3, <2>1, AuWent
  <2>2. CASE AuReturn(t)
    BY <1>2, <2>2, AuWent DEF AuReturn
  <2>. QED BY <1>4, <2>1, <2>2
<1>12. ASSUME NEW u \in AuThreads PROVE AuInStands(u)'
  BY <1>5, <1>11 DEF AuInStands, AuInput, r
<1>. QED BY <1>1, <1>10, <1>12 DEF AuInKept, r

LEMMA AuInRead ==
  ASSUME AuTyped, AuHeld, AuTyped', AuInKept, "in" \notin au_raced, NEW t \in AuThreads, AuReadCopy(t)
  PROVE  AuInKept' /\ (au_ok => au_ok')
<1>. DEFINE s == input_stream r == input_stream'
<1>1. /\ au_pc[t] = "rcopy" /\ au_pc[t] \in AuInput /\ AuFormed(r) /\ AuSame(s, r) /\ AuOthers(s, r, au_b[t])
      /\ r.buf[au_b[t]].data = s.buf[au_b[t]].data /\ au_b[t] \in 0 .. s.nb - 1
  BY AuReadCopyIs DEF AuInput
<1>2. /\ AuFormed(s) /\ s.set /\ AuInStands(t) /\ AuInWhole(s, au_taped, au_heard, AuCopying)
      /\ au_taped \in Nat /\ au_heard \in Nat
      /\ \A u \in AuThreads : u # t => au_pc[u] \notin AuInput
  BY <1>1 DEF AuTyped, AuHeld, AuInKept
<1>3. au_b[t] = s.idx /\ s.buf[s.idx].sem = 0
  BY <1>1, <1>2 DEF AuInStands
<1>4. PICK n \in Nat : AuReadOut(t, s, s.idx, n)
  <2>1. \E n \in Nat : AuReadOut(t, s, au_b[t], n)
    BY AuReadCopyIs
  <2>. QED BY <1>3, <2>1
<1>5. PICK h \in Nat, e \in Nat, c \in Nat :
        AuGiven(s, h, c) /\ AuStored(s, e, c, au_taped, au_heard) /\ (AuCopying => c > 0)
  BY <1>2 DEF AuInWhole
<1>6. c > 0 /\ c <= s.nb /\ AuOthers(s, r, s.idx) /\ r.buf[s.idx].data = s.buf[s.idx].data
  BY <1>1, <1>3, <1>5 DEF AuCopying, AuGiven
<1>7. /\ n <= s.buf[s.idx].size /\ au_heard' = au_heard + n /\ au_taped' = au_taped
      /\ au_ok' = (au_ok /\ ("in" \in au_raced \/ AuReadFrom(s, s.idx, n) = AuFrames(au_heard, n)))
  BY <1>4 DEF AuReadOut, AuReadCopy
<1>8. AuReadFrom(s, s.idx, n) = AuFrames(au_heard, n)
  <2>1. AuStored(s, e, c, au_taped, au_heard) /\ n \in Nat /\ c \in Nat /\ e \in Nat
    BY <1>5
  <2>. QED BY ONLY <1>2, <1>6, <1>7, <2>1, AuHeardIs
<1>9. /\ s.nb \in Nat /\ s.nb >= 2 /\ 0 \in 0 .. s.nb - 1 /\ AuSlot(s, 0) = s.buf[s.idx] /\ s.buf[s.idx].size \in Nat
  <2>1. s.nb \in Nat /\ s.nb >= 2 /\ AuAt(s, 0) = s.idx
    BY <1>2, AuAtIs
  <2>2. s.buf[s.idx].size \in Nat
    BY <1>1, <1>2, <1>3, AuFormedIs
  <2>. QED BY <2>1, <2>2 DEF AuSlot
<1>10. e > 0 => s.buf[s.idx].size = 0
  <2>1. e > 0 => 0 \in 0 .. e - 1
    OBVIOUS
  <2>. QED BY <1>5, <1>9, <2>1 DEF AuStored
<1>11. /\ au_pc'[t] = "user" \/ (au_pc'[t] = "rdown" /\ au_b'[t] = r.idx)
       /\ \A u \in AuThreads : u # t => au_pc'[u] = au_pc[u]
       /\ AuInWhole(r, au_taped, au_heard + n, FALSE)
       => AuInKept'
  <2>. SUFFICES ASSUME au_pc'[t] = "user" \/ (au_pc'[t] = "rdown" /\ au_b'[t] = r.idx),
                       \A u \in AuThreads : u # t => au_pc'[u] = au_pc[u],
                       AuInWhole(r, au_taped, au_heard + n, FALSE)
       PROVE  AuInKept'
    OBVIOUS
  <2>1. \A u \in AuThreads : AuInStands(u)'
    BY <1>2 DEF AuInStands, AuInput
  <2>2. ~ AuCopying'
    BY <1>2 DEF AuCopying, AuInput
  <2>. QED BY <1>7, <2>1, <2>2 DEF AuInKept, AuInWhole
<1>. HIDE DEF r
<1>12. ASSUME AuReturn(t) PROVE au_pc'[t] = "user" /\ \A u \in AuThreads : u # t => au_pc'[u] = au_pc[u]
  BY <1>12, AuWent DEF AuReturn
<1>13. ASSUME n < s.buf[s.idx].size, r.idx = s.idx, r.q = s.q,
              r.buf[s.idx].size = s.buf[s.idx].size - n, AuReturn(t)
       PROVE  AuInKept'
  <2>1. e = 0
    BY <1>9, <1>10, <1>13
  <2>2. AuGiven(r, h, c)
    BY ONLY <1>1, <1>2, <1>5, <1>6, <1>13, h \in Nat, c \in Nat, AuGivenSame
  <2>3. AuStored(r, 0, c, au_taped, au_heard + n)
    <3>1. AuStored(s, 0, c, au_taped, au_heard)
      BY <1>5, <2>1
    <3>. QED BY ONLY <1>1, <1>2, <1>6, <1>13, <3>1, n \in Nat, c \in Nat, AuStoredPart
  <2>4. AuInWhole(r, au_taped, au_heard + n, FALSE)
    BY <2>2, <2>3 DEF AuInWhole
  <2>. QED BY <1>11, <1>12, <1>13, <2>4
<1>14. ASSUME n = s.buf[s.idx].size, r.idx = AuAfter(s), r.q = Append(s.q, [b |-> s.idx, n |-> s.frag]),
              r.buf[s.idx].sem = 0,
              AuReturn(t) \/ \E left \in Nat : AuGo(t, "rdown", AuAfter(s), left)
       PROVE  AuInKept'
  <2>1. AuGiven(r, h, c - 1)
    BY ONLY <1>1, <1>2, <1>5, <1>6, <1>14, h \in Nat, c \in Nat, AuGivenBack
  <2>2. \E i \in Nat : AuStored(r, i, c - 1, au_taped, au_heard + n)
    <3>1. CASE e > 0
      <4>1. AuStored(r, e - 1, c - 1, au_taped, au_heard)
        BY ONLY <1>1, <1>2, <1>5, <1>6, <1>14, <3>1, e \in Nat, c \in Nat, AuStoredSkip
      <4>2. au_heard + n = au_heard /\ e - 1 \in Nat
        BY <1>2, <1>10, <1>14, <3>1
      <4>. QED BY <4>1, <4>2
    <3>2. CASE e = 0
      <4>1. AuStored(s, 0, c, au_taped, au_heard)
        BY <1>5, <3>2
      <4>2. AuStored(r, 0, c - 1, au_taped, au_heard + AuSlot(s, 0).size)
        BY ONLY <1>1, <1>2, <1>6, <1>14, <4>1, c \in Nat, AuStoredRead
      <4>3. AuStored(r, 0, c - 1, au_taped, au_heard + n)
        BY <1>9, <1>14, <4>2
      <4>. QED BY <4>3
    <3>. QED BY <3>1, <3>2
  <2>3. AuInWhole(r, au_taped, au_heard + n, FALSE)
    <3>1. c - 1 \in Nat
      BY <1>6
    <3>. QED BY <2>1, <2>2, <3>1 DEF AuInWhole
  <2>4. /\ au_pc'[t] = "user" \/ (au_pc'[t] = "rdown" /\ au_b'[t] = r.idx)
        /\ \A u \in AuThreads : u # t => au_pc'[u] = au_pc[u]
    BY <1>12, <1>14, AuWent
  <2>. QED BY <1>11, <2>3, <2>4
<1>15. AuInKept'
  <2>1. \/ /\ n < s.buf[s.idx].size /\ r.idx = s.idx /\ r.q = s.q
           /\ r.buf[s.idx].size = s.buf[s.idx].size - n /\ AuReturn(t)
        \/ /\ n = s.buf[s.idx].size /\ r.idx = AuAfter(s) /\ r.q = Append(s.q, [b |-> s.idx, n |-> s.frag])
           /\ r.buf[s.idx].sem = 0
           /\ AuReturn(t) \/ \E left \in Nat : AuGo(t, "rdown", AuAfter(s), left)
    BY <1>3, <1>4 DEF AuReadOut, r
  <2>. QED BY <1>13, <1>14, <2>1
<1>. QED BY <1>7, <1>8, <1>15

LEMMA AuInKeptNext ==
  ASSUME AuBase, AuIdle, "in" \notin au_raced => AuInKept, AuNext, ~ au_oops', "in" \notin au_raced'
  PROVE  AuInKept'
<1>1. AuTyped /\ AuHeld /\ AuTyped'
  BY AuTypedNext DEF AuBase, AuNext
<1>2. /\ AuFormed(input_stream) /\ AuFormed(input_stream')
      /\ au_pc \in [AuThreads -> AuPlaces] /\ au_b \in [AuThreads -> Nat]
  BY <1>1 DEF AuTyped
<1>3. /\ \A u \in AuThreads : au_pc[u] \in AuInput => input_stream.set
      /\ ~ input_stream.set => au_heard = au_taped /\ \A i \in 1 .. Len(input_stream.q) : input_stream.q[i].n = 0
  BY <1>1 DEF AuHeld, AuIdle
<1>4. ASSUME NEW t \in AuThreads, NEW p, NEW b, NEW left, AuGo(t, p, b, left)
      PROVE  /\ au_pc'[t] = p /\ au_b'[t] = b
             /\ \A u \in AuThreads : u # t => au_pc'[u] = au_pc[u] /\ au_b'[u] = au_b[u]
  BY <1>1, <1>4, AuWent
<1>5. ASSUME NEW t \in AuThreads, AuReturn(t)
      PROVE  au_pc'[t] = "user" /\ \A u \in AuThreads : u # t => au_pc'[u] = au_pc[u] /\ au_b'[u] = au_b[u]
  <2>1. AuGo(t, "user", 0, 0)
    BY <1>5 DEF AuReturn
  <2>. QED BY <1>4, <2>1
<1>6. AuClearIn => AuInKept'
  BY <1>2, AuClearedIn DEF AuInKept
(* A step that leaves the input alone.                                     *)
<1>7. ASSUME "in" \notin au_raced, UNCHANGED <<input_stream, au_taped, au_heard>>,
             \A u \in AuThreads : au_pc'[u] \in AuInput =>
               \/ au_pc'[u] = au_pc[u] /\ au_b'[u] = au_b[u]
               \/ au_pc'[u] = "rdown" /\ au_b'[u] = input_stream.idx
      PROVE  AuInKept'
  <2>. SUFFICES ASSUME input_stream.set PROVE AuInKept'
    BY <1>7 DEF AuInKept
  <2>1. (\A t \in AuThreads : AuInStands(t)) /\ AuInWhole(input_stream, au_taped, au_heard, AuCopying)
    BY <1>7 DEF AuInKept
  <2>2. \A u \in AuThreads : AuInStands(u)'
    BY <1>7, <2>1 DEF AuInStands, AuInput
  <2>3. AuCopying' => AuCopying
    BY <1>7 DEF AuCopying, AuInput
  <2>4. AuInWhole(input_stream, au_taped, au_heard, AuCopying')
    BY <2>1, <2>3 DEF AuInWhole
  <2>. QED BY <1>7, <2>2, <2>4 DEF AuInKept
<1>8. ASSUME "in" \notin au_raced, UNCHANGED <<input_stream, au_taped, au_heard, au_pc, au_b>>
      PROVE  AuInKept'
  BY <1>7, <1>8
<1>9. ASSUME "in" \notin au_raced, NEW t \in AuThreads, au_pc'[t] \notin AuInput,
             \A u \in AuThreads : u # t => au_pc'[u] = au_pc[u] /\ au_b'[u] = au_b[u],
             UNCHANGED <<input_stream, au_taped, au_heard>>
      PROVE  AuInKept'
  BY <1>7, <1>9
<1>10. AuInput = {"rdown", "rcopy"}
  BY DEF AuInput
<1>11. ASSUME NEW t \in AuThreads, NEW p, NEW b, NEW left, AuGo(t, p, b, left), p \notin AuInput,
              "in" \notin au_raced, UNCHANGED <<input_stream, au_taped, au_heard>>
       PROVE  AuInKept'
  BY <1>4, <1>9, <1>11
<1>12. ASSUME NEW t \in AuThreads, AuReturn(t), "in" \notin au_raced, UNCHANGED <<input_stream, au_taped, au_heard>>
       PROVE  AuInKept'
  BY <1>5, <1>9, <1>10, <1>12
<1>13. ASSUME NEW mode \in AuModes, AuOpen(mode) PROVE AuInKept'
  BY <1>8, <1>13 DEF AuOpen, auCalls, auFlags, auSound
<1>14. CASE AuReleaseIn
  BY <1>6, <1>14 DEF AuReleaseIn
<1>15. CASE AuDmaIn
  <2>1. "in" \notin au_raced
    BY <1>15 DEF AuDmaIn
  <2>. QED BY <1>1, <1>15, <2>1, AuInTaken
<1>16. CASE AuDmaOut
  BY <1>8, <1>16, Zenon DEF AuDmaOut, auCalls, auFlags
<1>17. ASSUME NEW t \in AuThreads, AuSyncFrom(t), "in" \notin au_raced, UNCHANGED <<input_stream, au_taped, au_heard>>
       PROVE  AuInKept'
  <2>1. AuGo(t, "sdown", output_stream.idx, 0) \/ AuGo(t, "swait", AuPrev(output_stream), 0)
    BY <1>17 DEF AuSyncFrom
  <2>. QED BY <1>10, <1>11, <1>17, <2>1
<1>18. ASSUME NEW t \in AuThreads, AuRelease(t) PROVE AuInKept'
  <2>1. CASE AuClearIn
    BY <1>6, <2>1
  <2>2. CASE ~ AuClearIn
    <3>1. UNCHANGED <<input_stream, au_heard, au_taped>>
      BY <1>18, <2>2 DEF AuRelease, AuReleaseDone
    <3>2. CASE output_stream.set
      BY <1>17, <1>18, <3>1, <3>2 DEF AuRelease, auFlags
    <3>3. CASE ~ output_stream.set
      <4>1. UNCHANGED <<au_pc, au_b>> /\ "in" \notin au_raced
        BY <1>18, <3>3 DEF AuRelease, AuReleaseDone, auCalls
      <4>. QED BY <1>8, <3>1, <4>1
    <3>. QED BY <3>2, <3>3
  <2>. QED BY <2>1, <2>2
<1>19. ASSUME NEW t \in AuThreads, NEW stream, AuCall(t, stream) PROVE "in" \notin au_raced
  BY <1>19 DEF AuCall
<1>20. ASSUME NEW t \in AuThreads, AuSync(t) PROVE AuInKept'
  BY <1>17, <1>19, <1>20 DEF AuSync, auSound
<1>21. ASSUME NEW t \in AuThreads, AuSyncDown(t) PROVE AuInKept'
  <2>1. (\E b : AuGo(t, "swait", b, 0)) /\ UNCHANGED <<input_stream, au_taped, au_heard, au_raced>>
    BY <1>21 DEF AuSyncDown, auSound
  <2>. QED BY <1>10, <1>11, <2>1
<1>22. ASSUME NEW t \in AuThreads, AuSyncDone(t) PROVE AuInKept'
  BY <1>10, <1>11, <1>22 DEF AuSyncDone, auSound, auFlags
<1>23. ASSUME NEW t \in AuThreads, AuSyncReturn(t) PROVE AuInKept'
  <2>1. AuReturn(t) /\ UNCHANGED <<input_stream, au_taped, au_heard>> /\ "in" \notin au_raced
    BY <1>23 DEF AuSyncReturn, AuReleaseDone, auSound, auFlags
  <2>. QED BY <1>12, <2>1
<1>24. ASSUME NEW t \in AuThreads, NEW count \in AuCounts, AuWrite(t, count) PROVE AuInKept'
  <2>1. CASE UNCHANGED auCalls
    BY <1>8, <1>19, <1>24, <2>1 DEF AuWrite, auCalls, auSound
  <2>2. CASE ~ UNCHANGED auCalls
    BY <1>10, <1>11, <1>19, <1>24, <2>2 DEF AuWrite, auSound
  <2>. QED BY <2>1, <2>2
<1>25. ASSUME NEW t \in AuThreads, AuWriteDown(t) PROVE AuInKept'
  BY <1>10, <1>11, <1>25 DEF AuWriteDown, auSound, auFlags
<1>26. ASSUME NEW t \in AuThreads, AuWriteStop(t) \/ AuWriteFault(t) \/ AuReadStop(t) PROVE AuInKept'
  BY <1>12, <1>26 DEF AuWriteStop, AuWriteFault, AuReadStop, auSound, auFlags
<1>27. ASSUME NEW t \in AuThreads, AuWriteCopy(t) PROVE AuInKept'
  <2>1. AuReturn(t) \/ \E b, left : AuGo(t, "wdown", b, left)
    BY <1>27 DEF AuWriteCopy
  <2>2. "in" \notin au_raced /\ UNCHANGED <<input_stream, au_taped, au_heard>>
    BY <1>27 DEF AuWriteCopy
  <2>. QED BY ONLY <1>10, <1>11, <1>12, <2>1, <2>2
<1>28. ASSUME NEW t \in AuThreads, AuReadDown(t) \/ AuReadFault(t) PROVE AuInKept'
  <2>1. "in" \notin au_raced
    BY <1>28 DEF AuReadDown, AuReadFault, auFlags
  <2>. QED BY <1>1, <1>28, <2>1, AuInTouched
<1>29. ASSUME NEW t \in AuThreads, AuReadCopy(t) PROVE AuInKept'
  <2>1. "in" \notin au_raced
    BY <1>29 DEF AuReadCopy, auFlags
  <2>. QED BY <1>1, <1>29, <2>1, AuInRead
<1>30. ASSUME NEW t \in AuThreads, NEW count \in AuCounts, AuRead(t, count) PROVE AuInKept'
  <2>0. CASE UNCHANGED <<input_stream, auCalls>>
    BY <1>8, <1>19, <1>30, <2>0 DEF AuRead, auCalls, auSound
  <2>. SUFFICES ASSUME ~ UNCHANGED <<input_stream, auCalls>> PROVE AuInKept'
    BY <2>0
  <2>1. "in" \notin au_raced /\ AuGo(t, "rdown", input_stream'.idx, count) /\ UNCHANGED <<au_taped, au_heard>>
    BY <1>19, <1>30 DEF AuRead, auSound
  <2>2. au_pc'[t] = "rdown" /\ au_b'[t] = input_stream'.idx /\ \A u \in AuThreads : u # t => au_pc'[u] = au_pc[u] /\ au_b'[u] = au_b[u]
    BY <1>4, <2>1
  <2>3. CASE input_stream.set
    <3>1. input_stream' = input_stream
      BY <1>30, <2>3 DEF AuRead
    <3>. QED BY <1>7, <2>1, <2>2, <3>1
  <2>4. CASE ~ input_stream.set
    <3>. DEFINE s == input_stream r == input_stream'
    <3>1. /\ AuFormed(r) /\ r.set /\ r.idx = 0 /\ Len(r.q) = Len(s.q) + r.nb
          /\ \A i \in 1 .. Len(s.q) : r.q[i] = s.q[i]
          /\ \A i \in 1 .. r.nb : r.q[Len(s.q) + i] = [b |-> i - 1, n |-> r.frag]
          /\ \A b \in 0 .. r.nb - 1 : r.buf[b].sem = 0
      BY <1>1, <1>30, <2>4, AuFirstReadIs
    <3>2. \A i \in 1 .. Len(s.q) : s.q[i].n = 0
      BY <1>3, <2>4
    <3>. HIDE DEF r
    <3>3. AuInWhole(r, au_taped, au_taped, FALSE)
      BY ONLY <1>2, <3>1, <3>2, AuWholeFirst
    <3>4. \A u \in AuThreads : u # t => au_pc[u] \notin AuInput
      BY <1>3, <2>4
    <3>5. ~ AuCopying' /\ \A u \in AuThreads : AuInStands(u)'
      BY <1>10, <2>2, <3>4 DEF AuCopying, AuInStands
    <3>. QED BY <1>3, <2>1, <2>4, <3>3, <3>5 DEF AuInKept, AuInWhole, r
  <2>. QED BY <2>3, <2>4
<1>31. ASSUME NEW f, NEW first, NEW shape \in (Nat \ {0, 1}) \X (Nat \ {0}), AuSetupAs(f, shape, first), "in" \notin au_raced,
              UNCHANGED <<au_pc, au_b, au_taped, au_heard>>
       PROVE  AuInKept'
  <2>. DEFINE r == input_stream'
  <2>1. \/ input_stream' = input_stream
        \/ /\ ~ input_stream.set /\ r.set /\ r.idx = 0 /\ r.q = input_stream.q
           /\ \A b \in 0 .. r.nb - 1 : r.buf[b].size = 0
    BY <1>1, <1>31, AuSetupAsIs
  <2>2. CASE /\ ~ input_stream.set /\ r.set /\ r.idx = 0 /\ r.q = input_stream.q
             /\ \A b \in 0 .. r.nb - 1 : r.buf[b].size = 0
    <3>1. AuFormed(r) /\ \A i \in 1 .. Len(r.q) : r.q[i].n = 0
      BY <1>2, <1>3, <2>2
    <3>. HIDE DEF r
    <3>2. AuInWhole(r, au_taped, au_taped, TRUE)
      BY ONLY <2>2, <3>1, AuWholeSetup
    <3>3. \A u \in AuThreads : AuInStands(u)'
      BY <1>3, <1>10, <1>31, <2>2 DEF AuInStands
    <3>. QED BY <1>3, <1>31, <2>2, <3>2, <3>3 DEF AuInKept, AuInWhole, r
  <2>. QED BY <1>8, <1>31, <2>1, <2>2
<1>32. ASSUME NEW t \in AuThreads, NEW f \in au_files, AuPoll(t, f) PROVE AuInKept'
  <2>1. au_shape \in (Nat \ {0, 1}) \X (Nat \ {0})
    BY <1>1 DEF AuTyped
  <2>. QED BY <1>31, <1>32, <2>1 DEF AuPoll, auCalls, auSound, auFlags
<1>33. ASSUME NEW t \in AuThreads, NEW f \in au_files, NEW shape \in AuShapes, AuSetFragment(t, f, shape) PROVE AuInKept'
  <2>1. shape \in (Nat \ {0, 1}) \X (Nat \ {0})
    BY AudioAssumption
  <2>. QED BY <1>31, <1>33, <2>1 DEF AuSetFragment, auCalls, auSound, auFlags
<1>34. ASSUME NEW t \in AuThreads, NEW f \in au_files, AuReset(t, f) PROVE AuInKept'
  <2>1. CASE AuRecorder(f)
    BY <1>6, <1>34, <2>1 DEF AuReset
  <2>2. CASE ~ AuRecorder(f)
    BY <1>8, <1>34, <2>2 DEF AuReset, auCalls
  <2>. QED BY <2>1, <2>2
<1>35. ASSUME NEW t \in AuThreads, AuMeet(t) PROVE AuInKept'
  BY <1>35 DEF AuMeet
<1>. QED BY <1>13, <1>14, <1>15, <1>16, <1>18, <1>20, <1>21, <1>22, <1>23, <1>24, <1>25, <1>26, <1>27, <1>28, <1>29,
            <1>30, <1>32, <1>33, <1>34, <1>35 DEF AuNext

LEMMA AuCutStays == AuNext /\ ~ au_cut' => ~ au_cut
<1>. SUFFICES ASSUME AuNext, au_cut PROVE au_cut'
  OBVIOUS
<1>1. ASSUME NEW mode \in AuModes, AuOpen(mode) PROVE au_cut'
  BY <1>1 DEF AuOpen, auFlags
<1>2. CASE AuReleaseIn \/ AuDmaOut \/ AuDmaIn
  BY <1>2, Zenon DEF AuReleaseIn, AuDmaOut, AuDmaIn, auFlags
<1>3. ASSUME NEW t \in AuThreads, AuRelease(t) \/ AuSyncReturn(t) PROVE au_cut'
  BY <1>3 DEF AuRelease, AuSyncReturn, AuReleaseDone, AuClearOut, auFlags
<1>4. ASSUME NEW t \in AuThreads, AuSync(t) \/ AuSyncDown(t) \/ AuSyncDone(t) PROVE au_cut'
  BY <1>4 DEF AuSync, AuSyncDown, AuSyncDone, auFlags
<1>5. ASSUME NEW t \in AuThreads, AuWriteDown(t) \/ AuWriteStop(t) \/ AuWriteFault(t) \/ AuWriteCopy(t) PROVE au_cut'
  BY <1>5 DEF AuWriteDown, AuWriteStop, AuWriteFault, AuWriteCopy, auFlags
<1>6. ASSUME NEW t \in AuThreads, AuReadDown(t) \/ AuReadStop(t) \/ AuReadFault(t) \/ AuReadCopy(t) PROVE au_cut'
  BY <1>6 DEF AuReadDown, AuReadFault, AuReadStop, AuReadCopy, auFlags
<1>7. ASSUME NEW t \in AuThreads, NEW count \in AuCounts, AuWrite(t, count) \/ AuRead(t, count) PROVE au_cut'
  BY <1>7 DEF AuWrite, AuRead
<1>8. ASSUME NEW t \in AuThreads, NEW f \in au_files, AuPoll(t, f) \/ AuReset(t, f) PROVE au_cut'
  BY <1>8 DEF AuPoll, AuReset, AuClearOut, auFlags
<1>9. ASSUME NEW t \in AuThreads, NEW f \in au_files, NEW shape \in AuShapes, AuSetFragment(t, f, shape) PROVE au_cut'
  BY <1>9 DEF AuSetFragment, auFlags
<1>10. ASSUME NEW t \in AuThreads, AuMeet(t) PROVE au_cut'
  BY <1>10 DEF AuMeet
<1>. QED BY <1>1, <1>2, <1>3, <1>4, <1>5, <1>6, <1>7, <1>8, <1>9, <1>10 DEF AuNext

(* All the sound that is kept, together.                                   *)
AuAllKept ==
  /\ ~ au_oops => AuIdle
  /\ ~ au_oops /\ ~ au_failed => AuOwned
  /\ ~ au_oops /\ ~ au_failed /\ "out" \notin au_raced => AuOutKept
  /\ ~ au_oops /\ "in" \notin au_raced => AuInKept
  /\ AuInOrder

LEMMA AuOkStays ==
  ASSUME AuBase, AuAllKept, AuNext, ~ au_oops', ~ au_failed', ~ au_cut'
  PROVE  au_ok'
<1>1. AuTyped /\ AuHeld /\ AuTyped' /\ ~ au_oops
  BY AuTypedNext DEF AuBase, AuNext
<1>2. ~ au_failed /\ ~ au_cut
  BY AuFailedStays, AuCutStays
<1>3. au_ok /\ ("out" \notin au_raced => AuOutKept) /\ ("in" \notin au_raced => AuInKept)
  BY <1>1, <1>2 DEF AuAllKept, AuInOrder
<1>4. ASSUME NEW mode \in AuModes, AuOpen(mode) PROVE au_ok'
  BY <1>3, <1>4 DEF AuOpen, auSound
<1>5. CASE AuReleaseIn \/ AuDmaIn
  BY <1>3, <1>5, Zenon DEF AuReleaseIn, AuDmaIn
<1>6. CASE AuDmaOut
  <2>1. CASE "out" \in au_raced
    BY <1>3, <1>6, <2>1, Zenon DEF AuDmaOut
  <2>2. CASE "out" \notin au_raced
    BY <1>1, <1>2, <1>3, <1>6, <2>2, AuKeptPlayed
  <2>. QED BY <2>1, <2>2
<1>7. ASSUME NEW t \in AuThreads, AuRelease(t) \/ AuSyncReturn(t) PROVE au_ok'
  BY <1>3, <1>7 DEF AuRelease, AuSyncReturn, AuReleaseDone, auSound
<1>8. ASSUME NEW t \in AuThreads, AuSync(t) \/ AuSyncDown(t) \/ AuSyncDone(t) PROVE au_ok'
  BY <1>3, <1>8 DEF AuSync, AuSyncDown, AuSyncDone, auSound
<1>9. ASSUME NEW t \in AuThreads, AuWriteDown(t) \/ AuWriteStop(t) \/ AuWriteFault(t) \/ AuWriteCopy(t) PROVE au_ok'
  BY <1>3, <1>9 DEF AuWriteDown, AuWriteStop, AuWriteFault, AuWriteCopy, auSound
<1>10. ASSUME NEW t \in AuThreads, AuReadDown(t) \/ AuReadStop(t) \/ AuReadFault(t) PROVE au_ok'
  BY <1>3, <1>10 DEF AuReadDown, AuReadFault, AuReadStop, auSound
<1>11. ASSUME NEW t \in AuThreads, AuReadCopy(t) PROVE au_ok'
  <2>1. CASE "in" \in au_raced
    BY <1>3, <1>11, <2>1 DEF AuReadCopy
  <2>2. CASE "in" \notin au_raced
    BY <1>1, <1>3, <1>11, <2>2, AuInRead
  <2>. QED BY <2>1, <2>2
<1>12. ASSUME NEW t \in AuThreads, NEW count \in AuCounts, AuWrite(t, count) \/ AuRead(t, count) PROVE au_ok'
  BY <1>3, <1>12 DEF AuWrite, AuRead, auSound
<1>13. ASSUME NEW t \in AuThreads, NEW f \in au_files, AuPoll(t, f) \/ AuReset(t, f) PROVE au_ok'
  BY <1>3, <1>13 DEF AuPoll, AuReset, auSound
<1>14. ASSUME NEW t \in AuThreads, NEW f \in au_files, NEW shape \in AuShapes, AuSetFragment(t, f, shape) PROVE au_ok'
  BY <1>3, <1>14 DEF AuSetFragment, auSound
<1>15. ASSUME NEW t \in AuThreads, AuMeet(t) PROVE au_ok'
  BY <1>15 DEF AuMeet
<1>. QED BY <1>4, <1>5, <1>6, <1>7, <1>8, <1>9, <1>10, <1>11, <1>12, <1>13, <1>14, <1>15 DEF AuNext

LEMMA AuAllKeptNext == AuBase /\ AuAllKept /\ [AuNext]_auVars => AuAllKept'
<1>. SUFFICES ASSUME AuBase, AuAllKept, [AuNext]_auVars PROVE AuAllKept'
  OBVIOUS
<1>1. CASE AuNext
  <2>1. ~ au_oops /\ AuIdle
    BY <1>1 DEF AuNext, AuAllKept
  <2>2. ~ au_oops' => AuIdle'
    BY <1>1, <2>1, AuIdleNext
  <2>3. ~ au_oops' /\ ~ au_failed' => ~ au_failed /\ AuOwned /\ AuOwned'
    BY <1>1, <2>1, AuFailedStays, AuOwnedNext DEF AuAllKept
  <2>4. ~ au_oops' /\ ~ au_failed' /\ "out" \notin au_raced' => AuOutKept'
    <3>. SUFFICES ASSUME ~ au_oops', ~ au_failed', "out" \notin au_raced' PROVE AuOutKept'
      OBVIOUS
    <3>1. AuOwned /\ ("out" \notin au_raced => AuOutKept) /\ (~ output_stream.set => au_played = au_written)
      BY <2>1, <2>3 DEF AuAllKept, AuIdle
    <3>. QED BY <1>1, <3>1, AuKeptNext
  <2>5. ~ au_oops' /\ "in" \notin au_raced' => AuInKept'
    <3>1. "in" \notin au_raced => AuInKept
      BY <2>1 DEF AuAllKept
    <3>. QED BY <1>1, <2>1, <3>1, AuInKeptNext
  <2>6. AuInOrder'
    BY <1>1, AuOkStays DEF AuInOrder
  <2>. QED BY <2>2, <2>3, <2>4, <2>5, <2>6 DEF AuAllKept
<1>2. CASE UNCHANGED auVars
  <2>1. UNCHANGED <<output_stream, input_stream, au_pc, au_b, au_raced, au_cut, au_failed, au_oops,
                    au_written, au_played, au_taped, au_heard, au_ok>>
    BY <1>2 DEF auVars, auCalls, auSound, auFlags
  <2>2. AuIdle => AuIdle'
    BY <2>1 DEF AuIdle
  <2>3. AuOwned => AuOwned'
    BY <1>2, AuStutters
  <2>4. AuOutKept => AuOutKept'
    BY <2>1 DEF AuOutKept, AuStands
  <2>5. AuInKept => AuInKept'
    BY <2>1 DEF AuInKept, AuInStands, AuCopying
  <2>6. AuInOrder => AuInOrder'
    BY <2>1 DEF AuInOrder
  <2>. QED BY <2>1, <2>2, <2>3, <2>4, <2>5, <2>6 DEF AuAllKept
<1>. QED BY <1>1, <1>2

LEMMA AuAllKeptThen == AuBase /\ AuAllKept => SoundKept
<1>. SUFFICES ASSUME AuBase, AuAllKept, "out" \notin au_raced, ~ au_failed, ~ au_cut, ~ au_oops
     PROVE  /\ \A t \in AuThreads : au_pc[t] = "synced" => au_played = au_written
            /\ ~ AuPlaying => au_played = au_written
  BY DEF SoundKept, AuDrained, AuAllKept
<1>1. AuHeld /\ AuIdle /\ AuOutKept /\ au_played \in Nat /\ au_written \in Nat
  BY DEF AuBase, AuAllKept, AuTyped
<1>2. ASSUME NEW t \in AuThreads, au_pc[t] = "synced" PROVE au_played = au_written
  <2>. DEFINE s == output_stream
  <2>1. s.set
    BY <1>1, <1>2 DEF AuHeld, AuOut
  <2>2. s.q = <<>> /\ s.buf[s.idx].size = 0 /\ AuWhole(s, au_played, au_written)
    BY <1>1, <1>2, <2>1 DEF AuOutKept, AuStands
  <2>3. PICK pos \in AuPositions(s) : AuLaid(s, pos, au_played, au_written)
    BY <2>2 DEF AuWhole
  <2>4. Len(s.q) = 0 /\ 0 + 1 = 1
    BY <2>2
  <2>5. pos[1] = au_played /\ au_written = pos[1] + 0
    BY <2>2, <2>3, <2>4 DEF AuLaid
  <2>. QED BY <1>1, <2>5
<1>3. ~ AuPlaying => au_played = au_written
  BY <1>1 DEF AuHeld, AuIdle
<1>. QED BY <1>2, <1>3

(* What is played and read is what was written and recorded, whole and in  *)
(* order, and a sync and a close leave nothing behind (s3c2410-uda1341.c,  *)
(* smdk2410_audio_write, smdk2410_audio_read, audio_sync).                 *)
THEOREM SoundStaysKept == AuSpec => []SoundKept
<1>1. AuInit => AuAllKept
  <2>. SUFFICES ASSUME AuInit PROVE AuAllKept
    OBVIOUS
  <2>1. ~ output_stream.set /\ ~ input_stream.set /\ Len(input_stream.q) = 0
    BY AuEmpty DEF AuInit
  <2>2. au_played = au_written /\ au_heard = au_taped /\ au_ok
    BY DEF AuInit
  <2>. QED BY <2>1, <2>2, AuStart DEF AuAllKept, AuIdle, AuOutKept, AuInKept, AuInOrder
<1>. QED BY <1>1, AuAllKeptNext, AuAllKeptThen, AuBaseAlways, PTL DEF AuSpec
==============================================================================
