------------------------------ MODULE GlobalMem ------------------------------
(***************************************************************************)
(* The memory device of code/07, globalmem with a semaphore, and with      *)
(* GmLocked = FALSE that of code/06 without one. Threads share the memory, *)
(* and the position of a file that several of them use; they may run at    *)
(* once, and memory is copied byte by byte.                                *)
(***************************************************************************)
EXTENDS Integers, Sequences

CONSTANTS
  GmThreads, GmFiles,
  GmSize,     \* GLOBALMEM_SIZE
  GmWord,     \* values of an unsigned int and of an unsigned long: 2^32
  GmLocked,   \* reads, writes and clears hold dev->sem
  GmCounts,   \* sizes that are asked for
  GmOffsets,  \* offsets of the seeks
  GmMaxCalls  \* bound on the calls

ASSUME GlobalMemAssumption ==
  /\ GmSize \in Nat \ {0} /\ GmWord \in Nat /\ GmWord > 2 * GmSize
  /\ GmLocked \in BOOLEAN /\ GmCounts \subseteq Nat /\ GmOffsets \subseteq Int
  /\ GmMaxCalls \in Nat /\ 0 \notin GmThreads

GmNone == [op |-> "none"]

VARIABLES
  gm_mem,    \* dev->mem; a write stores the thread's name, a clear 0
  gm_sem,    \* dev->sem: who holds it, a set
  gm_pos,    \* f_pos of the files
  gm_call,   \* what a thread is doing
  gm_pc,     \* "user", "down", "copy", "up", "back" in sys_read or sys_write; a seek's "look", "move"
  gm_raced,  \* history: files whose position was changed between the looks of a seek
  gm_calls   \* calls that are left

gmVars == <<gm_mem, gm_sem, gm_pos, gm_call, gm_pc, gm_raced, gm_calls>>

GmInit ==
  /\ gm_mem = [i \in 0 .. GmSize - 1 |-> 0]
  /\ gm_sem = {}
  /\ gm_pos = [f \in GmFiles |-> 0]
  /\ gm_call = [t \in GmThreads |-> GmNone]
  /\ gm_pc = [t \in GmThreads |-> "user"]
  /\ gm_raced = {} /\ gm_calls = GmMaxCalls

GmGo(t, pc) == gm_pc' = [gm_pc EXCEPT ![t] = pc]
GmEnter(t, call, pc) ==
  /\ gm_pc[t] = "user" /\ gm_calls > 0
  /\ gm_calls' = gm_calls - 1
  /\ gm_call' = [gm_call EXCEPT ![t] = call]
  /\ GmGo(t, pc)

-----------------------------------------------------------------------------
(* globalmem_read and globalmem_write: the position is taken before the    *)
(* wait for the semaphore, as an unsigned long; at the end of the memory   *)
(* there is nothing to do.                                                 *)

(* Mutant: the position is not taken as unsigned.                          *)
GmAt_signed(f) == gm_pos[f]
GmAt(f) == gm_pos[f] % GmWord
GmPart(f, size) == IF size > GmSize - GmAt(f) THEN GmSize - GmAt(f) ELSE size

GmReadWrite(t, op, f, size) ==
  /\ GmEnter(t, [op |-> op, file |-> f, p |-> GmAt(f), count |-> GmPart(f, size),
                 got |-> <<>>, done |-> 0, end |-> gm_pos[f]],
             IF GmAt(f) >= GmSize THEN "back" ELSE "down")
  /\ UNCHANGED <<gm_mem, gm_sem, gm_pos, gm_raced>>

(* MEM_CLEAR.                                                              *)
GmClear(t) ==
  /\ GmEnter(t, [op |-> "clear", p |-> 0, count |-> GmSize, got |-> <<>>, done |-> 0], "down")
  /\ UNCHANGED <<gm_mem, gm_sem, gm_pos, gm_raced>>

(* Mutant: a clear does not take the semaphore.                            *)
GmDown_free(t) ==
  /\ gm_pc[t] = "down"
  /\ gm_sem = {} \/ gm_call[t].op = "clear"
  /\ gm_sem' = gm_sem \cup {t}
  /\ GmGo(t, "copy")
  /\ UNCHANGED <<gm_mem, gm_pos, gm_call, gm_raced, gm_calls>>

(* down_interruptible, and the signal that ends it.                        *)
GmDown(t) ==
  /\ gm_pc[t] = "down"
  /\ GmLocked => gm_sem = {}
  /\ gm_sem' = gm_sem \cup {t}
  /\ GmGo(t, "copy")
  /\ UNCHANGED <<gm_mem, gm_pos, gm_call, gm_raced, gm_calls>>

GmDownSignal(t) ==
  /\ gm_pc[t] = "down" /\ GmLocked
  /\ GmGo(t, IF gm_call[t].op = "clear" THEN "user" ELSE "back")
  /\ UNCHANGED <<gm_mem, gm_sem, gm_pos, gm_call, gm_raced, gm_calls>>

(* copy_to_user, copy_from_user and memset, a byte.                        *)
GmCopy(t) ==
  LET c == gm_call[t]
      i == c.p + c.done
  IN  /\ gm_pc[t] = "copy" /\ c.done < c.count
      /\ gm_call' = [gm_call EXCEPT ![t].done = @ + 1,
                                    ![t].got = IF c.op = "read" THEN Append(@, gm_mem[i]) ELSE @]
      /\ gm_mem' = CASE c.op = "read" -> gm_mem
                     [] c.op = "write" -> [gm_mem EXCEPT ![i] = t]
                     [] c.op = "clear" -> [gm_mem EXCEPT ![i] = 0]
      /\ UNCHANGED <<gm_sem, gm_pos, gm_pc, gm_raced, gm_calls>>

(* All is copied and *ppos, which is sys_read's, advanced.                 *)
GmCopied(t) ==
  /\ gm_pc[t] = "copy" /\ gm_call[t].done = gm_call[t].count
  /\ gm_call' = IF gm_call[t].op = "clear" THEN gm_call
                ELSE [gm_call EXCEPT ![t].end = @ + gm_call[t].count]
  /\ GmGo(t, "up")
  /\ UNCHANGED <<gm_mem, gm_sem, gm_pos, gm_raced, gm_calls>>

(* -EFAULT.                                                                *)
GmFault(t) ==
  /\ gm_pc[t] = "copy" /\ gm_call[t].op # "clear" /\ gm_call[t].done < gm_call[t].count
  /\ gm_sem' = gm_sem \ {t}
  /\ GmGo(t, "back")
  /\ UNCHANGED <<gm_mem, gm_pos, gm_call, gm_raced, gm_calls>>

GmUp(t) ==
  /\ gm_pc[t] = "up"
  /\ gm_sem' = gm_sem \ {t}
  /\ GmGo(t, IF gm_call[t].op = "clear" THEN "user" ELSE "back")
  /\ UNCHANGED <<gm_mem, gm_pos, gm_call, gm_raced, gm_calls>>

(* A thread other than t seeks file f and has compared but not moved.      *)
GmSeeking(t, f) ==
  \E u \in GmThreads \ {t} : gm_pc[u] \in {"look", "move"} /\ gm_call[u].file = f
GmSetPos(t, f, pos) ==
  /\ gm_pos' = [gm_pos EXCEPT ![f] = pos]
  /\ gm_raced' = IF GmSeeking(t, f) /\ pos # gm_pos[f] THEN gm_raced \cup {f} ELSE gm_raced

(* External: sys_read and sys_write store the position, also of a call     *)
(* that failed.                                                            *)
GmBack(t) ==
  /\ gm_pc[t] = "back"
  /\ GmSetPos(t, gm_call[t].file, gm_call[t].end)
  /\ gm_call' = [gm_call EXCEPT ![t] = GmNone]
  /\ GmGo(t, "user")
  /\ UNCHANGED <<gm_mem, gm_sem, gm_calls>>

(* globalmem_llseek: from the start, cut to 32 bits; or from the position, *)
(* which is compared with the end, then with the start and then changed,   *)
(* each time as it is by then. Refused offsets change nothing.             *)
GmSeekSet(t, f, offset) ==
  /\ offset >= 0 /\ offset % GmWord <= GmSize
  /\ GmEnter(t, GmNone, "user")
  /\ GmSetPos(t, f, offset % GmWord)
  /\ UNCHANGED <<gm_mem, gm_sem>>

GmSeekCur(t, f, offset) ==
  /\ gm_pos[f] + offset <= GmSize
  /\ GmEnter(t, [op |-> "seek", file |-> f, offset |-> offset], "look")
  /\ UNCHANGED <<gm_mem, gm_sem, gm_pos, gm_raced>>

GmSeekLook(t) ==
  /\ gm_pc[t] = "look"
  /\ IF gm_pos[gm_call[t].file] + gm_call[t].offset >= 0
       THEN GmGo(t, "move") /\ UNCHANGED gm_call
       ELSE GmGo(t, "user") /\ gm_call' = [gm_call EXCEPT ![t] = GmNone]
  /\ UNCHANGED <<gm_mem, gm_sem, gm_pos, gm_raced, gm_calls>>

GmSeekMove(t) ==
  /\ gm_pc[t] = "move"
  /\ LET f == gm_call[t].file
     IN  GmSetPos(t, f, gm_pos[f] + gm_call[t].offset)
  /\ gm_call' = [gm_call EXCEPT ![t] = GmNone]
  /\ GmGo(t, "user")
  /\ UNCHANGED <<gm_mem, gm_sem, gm_calls>>

GmNext ==
  \E t \in GmThreads :
    \/ \E op \in {"read", "write"}, f \in GmFiles, size \in GmCounts : GmReadWrite(t, op, f, size)
    \/ GmClear(t) \/ GmDown(t) \/ GmDownSignal(t)
    \/ GmCopy(t) \/ GmCopied(t) \/ GmFault(t) \/ GmUp(t) \/ GmBack(t)
    \/ \E f \in GmFiles, offset \in GmOffsets : GmSeekSet(t, f, offset) \/ GmSeekCur(t, f, offset)
    \/ GmSeekLook(t) \/ GmSeekMove(t)
GmSpec == GmInit /\ [][GmNext]_gmVars

-----------------------------------------------------------------------------
(* A call is one with the memory: when it is done with it, a read has got  *)
(* what is there, a write and a clear left there what they wrote, and no   *)
(* byte of another call is in between.                                     *)
GmCallAtomic ==
  \A t \in GmThreads : gm_pc[t] = "up" =>
    LET c == gm_call[t]
    IN  \A i \in 0 .. c.count - 1 :
          gm_mem[c.p + i] = CASE c.op = "read" -> c.got[i + 1]
                              [] c.op = "write" -> t
                              [] c.op = "clear" -> 0

(* No call reaches outside the memory, wherever racing seeks and calls of  *)
(* the same file have left its position, below 0 too; and that is one in   *)
(* the memory or its end, unless it was changed between the looks of a     *)
(* seek.                                                                   *)
GmInBounds ==
  /\ \A t \in GmThreads : gm_pc[t] \in {"down", "copy", "up"} =>
       gm_call[t].p >= 0 /\ gm_call[t].p + gm_call[t].count <= GmSize
  /\ \A f \in GmFiles \ gm_raced : gm_pos[f] \in 0 .. GmSize
=============================================================================
