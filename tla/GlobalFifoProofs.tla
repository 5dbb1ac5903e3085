-------------------------- MODULE GlobalFifoProofs --------------------------
(***************************************************************************)
(* Theorems about GlobalFifo, for any number of tasks, any buffer size and *)
(* any calls.                                                              *)
(***************************************************************************)
EXTENDS GlobalFifo, SequenceTheorems, TLAPS

(* What a write copies is what it was called with.                         *)
WriteArguments ==
  \A t \in Tasks : pc[t] \in Writing => req[t].count = Len(req[t].buf)

(* AtMost returns the smaller of two numbers.                              *)
LEMMA AtMostSmaller ==
  ASSUME NEW a \in Nat, NEW b \in Nat
  PROVE  /\ AtMost(a, b) \in Nat
         /\ AtMost(a, b) <= a
         /\ AtMost(a, b) <= b
BY DEF AtMost

(* The arguments of a call, as TypeOK has them.                            *)
Request == [count : Nat, buf : Seq(Byte), nonblock : BOOLEAN, want : SUBSET {"in", "out"}]

(* The arguments a call leaves empty.                                      *)
LEMMA EmptyArgs == <<>> \in Seq(Byte) /\ {} \in SUBSET {"in", "out"}
OBVIOUS

(* Well typed arguments make a request.                                    *)
LEMMA ArgsTyped ==
  ASSUME NEW n \in Nat, NEW s \in Seq(Byte), NEW nb \in BOOLEAN,
         NEW want \in SUBSET {"in", "out"}
  PROVE  Args(n, s, nb, want) \in Request
BY DEF Args, Request

(* What a read hands out is a sequence of bytes: the first n of Contents.  *)
LEMMA PrefixOfContents ==
  ASSUME TypeOK, NEW n \in 0 .. current_len
  PROVE  SubSeq(Contents, 1, n) \in Seq(Byte)
<1>1. \A i \in 1 .. current_len : i - 1 \in Index
  BY FifoAssumption DEF TypeOK, Index
<1>2. Contents \in Seq(Byte) /\ Len(Contents) = current_len
  <2>1. Contents \in [1 .. current_len -> Byte]
    BY <1>1 DEF Contents, TypeOK
  <2>2. current_len \in Nat
    BY DEF TypeOK
  <2>. QED BY <2>1, <2>2
<1>. QED BY <1>2, SubSeqProperties

(* Moving the contents to the front of mem keeps mem an array of bytes.    *)
LEMMA ShiftedType ==
  ASSUME TypeOK, NEW n \in 0 .. current_len, NEW order
  PROVE  Shifted(n, current_len - n, order) \in [Index -> Byte]
<1>1. ASSUME NEW i \in Index, i < current_len - n, n # 0
      PROVE  /\ i + n \in Index
             /\ current_len - n + ((i - (current_len - n)) % n) \in Index
  <2>1. /\ i \in Nat /\ current_len \in Nat /\ n \in Nat /\ n > 0
        /\ current_len <= GLOBALFIFO_SIZE /\ GLOBALFIFO_SIZE \in Nat
    BY <1>1, FifoAssumption DEF TypeOK, Index
  <2>2. (i - (current_len - n)) % n \in 0 .. n - 1
    BY <2>1
  <2>. QED BY <1>1, <2>1, <2>2 DEF Index
<1>2. ASSUME NEW i \in Index
      PROVE  Shifted(n, current_len - n, order)[i] \in Byte
  <2>1. mem \in [Index -> Byte]
    BY DEF TypeOK
  <2>2. CASE i >= current_len - n \/ n = 0
    BY <2>1, <2>2 DEF Shifted
  <2>3. CASE ~ (i >= current_len - n \/ n = 0)
    <3>1. i < current_len - n /\ n # 0
      BY <2>3, FifoAssumption DEF TypeOK, Index
    <3>. QED BY <1>1, <2>1, <2>3, <3>1 DEF Shifted
  <2>. QED BY <2>2, <2>3
<1>. QED BY <1>2 DEF Shifted

(* Storing bytes anywhere in mem keeps it an array of bytes.               *)
LEMMA StoredType ==
  ASSUME TypeOK, NEW s \in Seq(Byte)
  PROVE  Stored(current_len, s) \in [Index -> Byte]
<1>1. ASSUME NEW i \in Index, i \in current_len .. current_len + Len(s) - 1
      PROVE  s[i - current_len + 1] \in Byte
  <2>1. Len(s) \in Nat /\ current_len \in Nat /\ i \in Nat
    BY FifoAssumption DEF TypeOK, Index
  <2>2. i - current_len + 1 \in 1 .. Len(s)
    BY <1>1, <2>1
  <2>. QED BY <2>2, ElementOfSeq
<1>. QED BY <1>1 DEF Stored, TypeOK

(* A part of the caller's buffer is a sequence of bytes.                   *)
LEMMA BufferPrefixType ==
  ASSUME TypeOK, WriteArguments, NEW t \in Tasks, pc[t] = "w_copy",
         NEW k \in Nat, k <= req[t].count
  PROVE  SubSeq(req[t].buf, 1, k) \in Seq(Byte)
<1>1. req[t].buf \in Seq(Byte) /\ k <= Len(req[t].buf)
  BY DEF TypeOK, WriteArguments, Writing
<1>. QED BY <1>1, SubSeqProperties

-----------------------------------------------------------------------------
(* Type correctness.                                                       *)

LEMMA InitTyped == Init => TypeOK /\ WriteArguments
BY FifoAssumption DEF Init, TypeOK, WriteArguments, Index, NoReq, Args, Labels, Writing

(* A step moves its task to a label, and no other task.                    *)
LEMMA StepMoves ==
  ASSUME NEW t \in Tasks, Syscall(t) \/ Driver(t) \/ Signal(t)
  PROVE  UNCHANGED pc \/ \E l \in Labels : Goto(t, l)
<1>. USE DEF Labels, ReadLabels, WriteLabels
<1>1. ReadCall(t) => \E l \in Labels : Goto(t, l)
  BY DEF ReadCall
<1>2. ReadEnter(t) => \E l \in Labels : Goto(t, l)
  BY DEF ReadEnter
<1>3. ReadSleep(t) => \E l \in Labels : Goto(t, l)
  BY DEF ReadSleep
<1>4. ReadSchedule(t) => \E l \in Labels : Goto(t, l)
  BY DEF ReadSchedule
<1>5. ReadRedown(t) => \E l \in Labels : Goto(t, l)
  BY DEF ReadRedown
<1>6. ReadCopy(t) => \E l \in Labels : Goto(t, l)
  BY DEF ReadCopy
<1>7. ReadWake(t) => \E l \in Labels : Goto(t, l)
  BY DEF ReadWake
<1>8. ReadWoken(t) => \E l \in Labels : Goto(t, l)
  BY DEF ReadWoken
<1>9. ReadUp(t) => \E l \in Labels : Goto(t, l)
  BY DEF ReadUp
<1>10. ReadRemoveLock(t) => \E l \in Labels : Goto(t, l)
  BY DEF ReadRemoveLock
<1>11. ReadRemove(t) => \E l \in Labels : Goto(t, l)
  BY DEF ReadRemove
<1>12. WriteCall(t) => \E l \in Labels : Goto(t, l)
  BY DEF WriteCall
<1>13. WriteEnter(t) => \E l \in Labels : Goto(t, l)
  BY DEF WriteEnter
<1>14. WriteSleep(t) => \E l \in Labels : Goto(t, l)
  BY DEF WriteSleep
<1>15. WriteSchedule(t) => \E l \in Labels : Goto(t, l)
  BY DEF WriteSchedule
<1>16. WriteRedown(t) => \E l \in Labels : Goto(t, l)
  BY DEF WriteRedown
<1>17. WriteCopy(t) => \E l \in Labels : Goto(t, l)
  BY DEF WriteCopy
<1>18. WriteWake(t) => \E l \in Labels : Goto(t, l)
  BY DEF WriteWake
<1>19. WriteWoken(t) => \E l \in Labels : Goto(t, l)
  BY DEF WriteWoken
<1>20. WriteKill(t) => \E l \in Labels : Goto(t, l)
  BY DEF WriteKill
<1>21. WriteUp(t) => \E l \in Labels : Goto(t, l)
  BY DEF WriteUp
<1>22. WriteRemoveLock(t) => \E l \in Labels : Goto(t, l)
  BY DEF WriteRemoveLock
<1>23. WriteRemove(t) => \E l \in Labels : Goto(t, l)
  BY DEF WriteRemove
<1>24. IoctlCall(t) => \E l \in Labels : Goto(t, l)
  BY DEF IoctlCall
<1>25. IoctlClear(t) => \E l \in Labels : Goto(t, l)
  BY DEF IoctlClear
<1>26. PollCall(t) => \E l \in Labels : Goto(t, l)
  BY DEF PollCall
<1>27. Poll(t) => \E l \in Labels : Goto(t, l)
  BY DEF Poll
<1>28. PollSchedule(t) => \E l \in Labels : Goto(t, l)
  BY DEF PollSchedule
<1>29. PollFree(t) => \E l \in Labels : Goto(t, l)
  BY DEF PollFree
<1>30. Fasync(t) => UNCHANGED pc
  BY DEF Fasync
<1>31. Signal(t) => UNCHANGED pc
  BY DEF Signal
<1>32. Exit(t) => \E l \in Labels : Goto(t, l)
  BY DEF Exit
<1>. QED
  BY <1>1, <1>2, <1>3, <1>4, <1>5, <1>6, <1>7, <1>8, <1>9, <1>10, <1>11,
     <1>12, <1>13, <1>14, <1>15, <1>16, <1>17, <1>18, <1>19, <1>20, <1>21,
     <1>22, <1>23, <1>24, <1>25, <1>26, <1>27, <1>28, <1>29, <1>30, <1>31,
     <1>32
     DEF Syscall, Driver, Read, Write

(* A step sets the return value of its own task's call at most.            *)
LEMMA StepReturns ==
  ASSUME TypeOK, NEW t \in Tasks, Syscall(t) \/ Driver(t) \/ Signal(t)
  PROVE  UNCHANGED ret \/ \E v \in Int : Result(t, v)
<1>1. AtMost(req[t].count, current_len) \in Int /\ AtMost(req[t].count, Space) \in Int
  <2>1. req[t].count \in Nat /\ current_len \in Nat /\ Space \in Nat
    BY FifoAssumption DEF TypeOK, Space
  <2>2. AtMost(req[t].count, current_len) \in Nat
    BY <2>1, AtMostSmaller
  <2>3. AtMost(req[t].count, Space) \in Nat
    BY <2>1, AtMostSmaller
  <2>. QED BY <2>2, <2>3
<1>2. ReadEnter(t) \/ WriteEnter(t) => UNCHANGED ret \/ Result(t, -EAGAIN)
  BY DEF ReadEnter, WriteEnter
<1>3. ReadSchedule(t) \/ WriteSchedule(t) => UNCHANGED ret \/ Result(t, -ERESTARTSYS)
  BY DEF ReadSchedule, WriteSchedule
<1>4. ReadCopy(t) => Result(t, -EFAULT) \/ Result(t, AtMost(req[t].count, current_len))
  BY DEF ReadCopy
<1>5. WriteCopy(t) => Result(t, -EFAULT) \/ Result(t, AtMost(req[t].count, Space))
  BY DEF WriteCopy
<1>6. Poll(t) => UNCHANGED ret \/ Result(t, 1)
  BY DEF Poll
<1>7. IoctlCall(t) \/ PollSchedule(t) =>
        UNCHANGED ret \/ Result(t, -EINVAL) \/ Result(t, -EINTR)
  BY DEF IoctlCall, PollSchedule
<1>8. Exit(t) => Result(t, 0)
  BY DEF Exit, Result
<1>9. /\ -EAGAIN \in Int /\ -ERESTARTSYS \in Int /\ -EFAULT \in Int
      /\ -EINVAL \in Int /\ -EINTR \in Int
  BY DEF EAGAIN, ERESTARTSYS, EFAULT, EINVAL, EINTR
<1>10. ReadCall(t) \/ WriteCall(t) \/ PollCall(t) \/ Fasync(t) \/ Signal(t) => UNCHANGED ret
  BY DEF ReadCall, WriteCall, PollCall, Fasync, Signal, callVars
<1>11. \/ ReadSleep(t) \/ ReadRedown(t) \/ ReadWake(t) \/ ReadWoken(t) \/ ReadUp(t)
       \/ ReadRemoveLock(t) \/ ReadRemove(t) \/ WriteSleep(t) \/ WriteRedown(t)
       \/ WriteWake(t) \/ WriteWoken(t) \/ WriteKill(t) \/ WriteUp(t)
       \/ WriteRemoveLock(t) \/ WriteRemove(t) \/ IoctlClear(t) \/ PollFree(t)
       => UNCHANGED ret
  BY DEF ReadSleep, ReadRedown, ReadWake, ReadWoken, ReadUp, ReadRemoveLock, ReadRemove,
         WriteSleep, WriteRedown, WriteWake, WriteWoken, WriteKill, WriteUp,
         WriteRemoveLock, WriteRemove, IoctlClear, PollFree, callVars
<1>. QED
  BY <1>1, <1>2, <1>3, <1>4, <1>5, <1>6, <1>7, <1>8, <1>9, <1>10, <1>11
     DEF Syscall, Driver, Read, Write

(* Every step keeps the state well typed.                                  *)
LEMMA StepTyped ==
  ASSUME TypeOK, WriteArguments, NEW t \in Tasks, Syscall(t) \/ Driver(t) \/ Signal(t)
  PROVE  TypeOK'
<1>. DEFINE Rest == /\ sem' \in Tasks \cup {Free}
                    /\ mem' \in [Index -> Byte]
                    /\ current_len' \in 0 .. GLOBALFIFO_SIZE
                    /\ r_wait' \subseteq Tasks /\ w_wait' \subseteq Tasks
                    /\ async_queue' \subseteq Tasks
                    /\ tstate' \in [Tasks -> {"running", "interruptible"}]
                    /\ pending' \subseteq Tasks
                    /\ req' \in [Tasks -> [count : Nat, buf : Seq(Byte), nonblock : BOOLEAN,
                                            want : SUBSET {"in", "out"}]]
                    /\ ubuf' \in [Tasks -> Seq(Byte)]
<1>. USE FifoAssumption DEF TypeOK, fifoVars, callVars
<1>1. ASSUME ReadCall(t) PROVE Rest
  <2>1. PICK n \in Counts, nb \in Modes :
          req' = [req EXCEPT ![t] = Args(n, <<>>, nb, {})]
    BY <1>1 DEF ReadCall
  <2>2. n \in Nat /\ nb \in BOOLEAN
    OBVIOUS
  <2>3. Args(n, <<>>, nb, {}) \in Request
    BY <2>2, EmptyArgs, ArgsTyped
  <2>. QED BY <1>1, <2>1, <2>3 DEF ReadCall, Request
<1>2. ASSUME ReadEnter(t) PROVE Rest
  BY <1>2 DEF ReadEnter
<1>3. ASSUME ReadSleep(t) PROVE Rest
  BY <1>3 DEF ReadSleep
<1>4. ASSUME ReadSchedule(t) PROVE Rest
  BY <1>4 DEF ReadSchedule
<1>5. ASSUME ReadRedown(t) PROVE Rest
  BY <1>5 DEF ReadRedown
<1>6. ASSUME ReadCopy(t) PROVE Rest
  <2>. DEFINE n == AtMost(req[t].count, current_len)
  <2>1. req[t].count \in Nat /\ current_len \in Nat
    OBVIOUS
  <2>2. n \in 0 .. current_len
    <3>1. n \in Nat /\ n <= current_len
      BY <2>1, AtMostSmaller
    <3>. QED BY <2>1, <3>1
  <2>3. SubSeq(Contents, 1, n) \in Seq(Byte)
    BY <2>2, PrefixOfContents
  <2>4. \A order : Shifted(n, current_len - n, order) \in [Index -> Byte]
    BY <2>2, ShiftedType
  <2>5. \/ UNCHANGED <<mem, current_len, ubuf>>
        \/ /\ ubuf' = [ubuf EXCEPT ![t] = SubSeq(Contents, 1, n)]
           /\ \E order \in MemcpyOrders : mem' = Shifted(n, current_len - n, order)
           /\ current_len' = current_len - n
    BY <1>6 DEF ReadCopy
  <2>6. UNCHANGED <<sem, r_wait, w_wait, async_queue, tstate, pending, req>>
    BY <1>6 DEF ReadCopy
  <2>. HIDE DEF n
  <2>7. current_len - n \in 0 .. GLOBALFIFO_SIZE
    BY <2>1, <2>2
  <2>8. mem' \in [Index -> Byte] /\ current_len' \in 0 .. GLOBALFIFO_SIZE
    BY <2>4, <2>5, <2>7
  <2>9. ubuf' \in [Tasks -> Seq(Byte)]
    <3>1. CASE UNCHANGED ubuf
      BY <3>1
    <3>2. CASE ubuf' = [ubuf EXCEPT ![t] = SubSeq(Contents, 1, n)]
      BY ONLY <2>3, <3>2, TypeOK DEF TypeOK
    <3>. QED BY <2>5, <3>1, <3>2
  <2>. QED BY <2>6, <2>8, <2>9
<1>7. ASSUME ReadWake(t) PROVE Rest
  BY <1>7 DEF ReadWake
<1>8. ASSUME ReadWoken(t) PROVE Rest
  BY <1>8 DEF ReadWoken, Woken
<1>9. ASSUME ReadUp(t) PROVE Rest
  BY <1>9 DEF ReadUp
<1>10. ASSUME ReadRemoveLock(t) PROVE Rest
  BY <1>10 DEF ReadRemoveLock
<1>11. ASSUME ReadRemove(t) PROVE Rest
  BY <1>11 DEF ReadRemove
<1>12. ASSUME WriteCall(t) PROVE Rest
  <2>1. PICK s \in Payloads, nb \in Modes :
          req' = [req EXCEPT ![t] = Args(Len(s), s, nb, {})]
    BY <1>12 DEF WriteCall
  <2>2. s \in Seq(Byte) /\ nb \in BOOLEAN /\ Len(s) \in Nat
    OBVIOUS
  <2>3. Args(Len(s), s, nb, {}) \in Request
    BY <2>2, ArgsTyped
  <2>. QED BY <1>12, <2>1, <2>3 DEF WriteCall, Request
<1>13. ASSUME WriteEnter(t) PROVE Rest
  BY <1>13 DEF WriteEnter
<1>14. ASSUME WriteSleep(t) PROVE Rest
  BY <1>14 DEF WriteSleep
<1>15. ASSUME WriteSchedule(t) PROVE Rest
  BY <1>15 DEF WriteSchedule
<1>16. ASSUME WriteRedown(t) PROVE Rest
  BY <1>16 DEF WriteRedown
<1>17. ASSUME WriteCopy(t) PROVE Rest
  <2>. DEFINE n == AtMost(req[t].count, Space)
  <2>1. req[t].count \in Nat /\ Space \in Nat /\ Space = GLOBALFIFO_SIZE - current_len
    BY DEF Space
  <2>2. n \in Nat /\ n <= req[t].count /\ n <= GLOBALFIFO_SIZE - current_len
    BY <2>1, AtMostSmaller
  <2>3. ASSUME NEW k \in 0 .. n
        PROVE  Stored(current_len, SubSeq(req[t].buf, 1, k)) \in [Index -> Byte]
    <3>1. k \in Nat /\ k <= req[t].count /\ pc[t] = "w_copy"
      BY <1>17, <2>1, <2>2 DEF WriteCopy
    <3>. QED BY <3>1, BufferPrefixType, StoredType
  <2>4. \/ /\ \E k \in 0 .. n : mem' = Stored(current_len, SubSeq(req[t].buf, 1, k))
           /\ current_len' = current_len
        \/ /\ mem' = Stored(current_len, SubSeq(req[t].buf, 1, n))
           /\ current_len' = current_len + n
    BY <1>17 DEF WriteCopy
  <2>5. UNCHANGED <<sem, r_wait, w_wait, async_queue, tstate, pending, req, ubuf>>
    BY <1>17 DEF WriteCopy
  <2>. HIDE DEF n
  <2>6. n \in 0 .. n /\ current_len + n \in 0 .. GLOBALFIFO_SIZE
    BY <2>2
  <2>7. mem' \in [Index -> Byte] /\ current_len' \in 0 .. GLOBALFIFO_SIZE
    BY <2>3, <2>4, <2>6
  <2>. QED BY <2>5, <2>7
<1>18. ASSUME WriteWake(t) PROVE Rest
  BY <1>18 DEF WriteWake
<1>19. ASSUME WriteWoken(t) PROVE Rest
  BY <1>19 DEF WriteWoken, Woken
<1>20. ASSUME WriteKill(t) PROVE Rest
  BY <1>20 DEF WriteKill, Woken
<1>21. ASSUME WriteUp(t) PROVE Rest
  BY <1>21 DEF WriteUp
<1>22. ASSUME WriteRemoveLock(t) PROVE Rest
  BY <1>22 DEF WriteRemoveLock
<1>23. ASSUME WriteRemove(t) PROVE Rest
  BY <1>23 DEF WriteRemove
<1>24. ASSUME IoctlCall(t) PROVE Rest
  BY <1>24 DEF IoctlCall
<1>25. ASSUME IoctlClear(t) PROVE Rest
  BY <1>25 DEF IoctlClear, Index
<1>26. ASSUME PollCall(t) PROVE Rest
  <2>1. PICK want \in Wants :
          req' = [req EXCEPT ![t] = Args(0, <<>>, FALSE, want)]
    BY <1>26 DEF PollCall
  <2>2. want \in SUBSET {"in", "out"}
    OBVIOUS
  <2>3. Args(0, <<>>, FALSE, want) \in Request
    BY <2>2, EmptyArgs, ArgsTyped
  <2>. QED BY <1>26, <2>1, <2>3 DEF PollCall, Request
<1>27. ASSUME Poll(t) PROVE Rest
  BY <1>27 DEF Poll
<1>28. ASSUME PollSchedule(t) PROVE Rest
  BY <1>28 DEF PollSchedule
<1>29. ASSUME PollFree(t) PROVE Rest
  BY <1>29 DEF PollFree
<1>30. ASSUME Fasync(t) PROVE Rest
  BY <1>30 DEF Fasync
<1>31. ASSUME Signal(t) PROVE Rest
  BY <1>31 DEF Signal
<1>32. ASSUME Exit(t) PROVE Rest
  BY <1>32 DEF Exit, NoReq, Args
<1>33. Rest
  BY <1>1, <1>2, <1>3, <1>4, <1>5, <1>6, <1>7, <1>8, <1>9, <1>10, <1>11,
     <1>12, <1>13, <1>14, <1>15, <1>16, <1>17, <1>18, <1>19, <1>20, <1>21,
     <1>22, <1>23, <1>24, <1>25, <1>26, <1>27, <1>28, <1>29, <1>30, <1>31,
     <1>32
     DEF Syscall, Driver, Read, Write
<1>34. pc' \in [Tasks -> Labels]
  <2>. DEFINE f == pc
              g == pc'
  <2>1. g = f \/ \E v \in Labels : g = [f EXCEPT ![t] = v]
    BY StepMoves DEF Goto
  <2>2. f \in [Tasks -> Labels]
    OBVIOUS
  <2>. HIDE DEF f, g
  <2>3. g \in [Tasks -> Labels]
    BY ONLY <2>1, <2>2, t \in Tasks
  <2>. QED BY <2>3 DEF g
<1>35. ret' \in [Tasks -> Int]
  BY StepReturns DEF Result
<1>. QED BY <1>33, <1>34, <1>35

(* A write's count stays the length of the buffer it came with.            *)
LEMMA StepArguments ==
  ASSUME TypeOK, WriteArguments, NEW t \in Tasks, Syscall(t) \/ Driver(t) \/ Signal(t)
  PROVE  WriteArguments'
<1>. USE FifoAssumption DEF TypeOK, WriteArguments, Writing, Goto, callVars, NoReq, Args
<1>1. ASSUME ReadCall(t) PROVE WriteArguments'
  BY <1>1 DEF ReadCall, Args
<1>2. ASSUME ReadEnter(t) PROVE WriteArguments'
  BY <1>2 DEF ReadEnter
<1>3. ASSUME ReadSleep(t) PROVE WriteArguments'
  BY <1>3 DEF ReadSleep
<1>4. ASSUME ReadSchedule(t) PROVE WriteArguments'
  BY <1>4 DEF ReadSchedule
<1>5. ASSUME ReadRedown(t) PROVE WriteArguments'
  BY <1>5 DEF ReadRedown
<1>6. ASSUME ReadCopy(t) PROVE WriteArguments'
  BY <1>6 DEF ReadCopy
<1>7. ASSUME ReadWake(t) PROVE WriteArguments'
  BY <1>7 DEF ReadWake
<1>8. ASSUME ReadWoken(t) PROVE WriteArguments'
  BY <1>8 DEF ReadWoken
<1>9. ASSUME ReadUp(t) PROVE WriteArguments'
  BY <1>9 DEF ReadUp
<1>10. ASSUME ReadRemoveLock(t) PROVE WriteArguments'
  BY <1>10 DEF ReadRemoveLock
<1>11. ASSUME ReadRemove(t) PROVE WriteArguments'
  BY <1>11 DEF ReadRemove
<1>12. ASSUME WriteCall(t) PROVE WriteArguments'
  <2>1. PICK s \in Payloads, nb \in Modes :
          req' = [req EXCEPT ![t] = Args(Len(s), s, nb, {})]
    BY <1>12 DEF WriteCall
  <2>. QED BY <1>12, <2>1 DEF WriteCall, Args
<1>13. ASSUME WriteEnter(t) PROVE WriteArguments'
  BY <1>13 DEF WriteEnter
<1>14. ASSUME WriteSleep(t) PROVE WriteArguments'
  BY <1>14 DEF WriteSleep
<1>15. ASSUME WriteSchedule(t) PROVE WriteArguments'
  BY <1>15 DEF WriteSchedule
<1>16. ASSUME WriteRedown(t) PROVE WriteArguments'
  BY <1>16 DEF WriteRedown
<1>17. ASSUME WriteCopy(t) PROVE WriteArguments'
  BY <1>17 DEF WriteCopy
<1>18. ASSUME WriteWake(t) PROVE WriteArguments'
  BY <1>18 DEF WriteWake
<1>19. ASSUME WriteWoken(t) PROVE WriteArguments'
  BY <1>19 DEF WriteWoken
<1>20. ASSUME WriteKill(t) PROVE WriteArguments'
  BY <1>20 DEF WriteKill
<1>21. ASSUME WriteUp(t) PROVE WriteArguments'
  BY <1>21 DEF WriteUp
<1>22. ASSUME WriteRemoveLock(t) PROVE WriteArguments'
  BY <1>22 DEF WriteRemoveLock
<1>23. ASSUME WriteRemove(t) PROVE WriteArguments'
  BY <1>23 DEF WriteRemove
<1>24. ASSUME IoctlCall(t) PROVE WriteArguments'
  BY <1>24 DEF IoctlCall
<1>25. ASSUME IoctlClear(t) PROVE WriteArguments'
  BY <1>25 DEF IoctlClear
<1>26. ASSUME PollCall(t) PROVE WriteArguments'
  BY <1>26 DEF PollCall, Args
<1>27. ASSUME Poll(t) PROVE WriteArguments'
  BY <1>27 DEF Poll
<1>28. ASSUME PollSchedule(t) PROVE WriteArguments'
  BY <1>28 DEF PollSchedule
<1>29. ASSUME PollFree(t) PROVE WriteArguments'
  BY <1>29 DEF PollFree
<1>30. ASSUME Fasync(t) PROVE WriteArguments'
  BY <1>30 DEF Fasync
<1>31. ASSUME Signal(t) PROVE WriteArguments'
  BY <1>31 DEF Signal
<1>32. ASSUME Exit(t) PROVE WriteArguments'
  BY <1>32 DEF Exit
<1>. QED
  BY <1>1, <1>2, <1>3, <1>4, <1>5, <1>6, <1>7, <1>8, <1>9, <1>10, <1>11,
     <1>12, <1>13, <1>14, <1>15, <1>16, <1>17, <1>18, <1>19, <1>20, <1>21,
     <1>22, <1>23, <1>24, <1>25, <1>26, <1>27, <1>28, <1>29, <1>30, <1>31,
     <1>32
     DEF Syscall, Driver, Read, Write

(* The state stays well typed: no interleaving of calls drives current_len *)
(* out of 0 .. GLOBALFIFO_SIZE or stores anything but bytes.               *)
THEOREM TypeCorrect == Spec => []TypeOK
<1>1. TypeOK /\ WriteArguments /\ [Next]_vars => (TypeOK /\ WriteArguments)'
  <2>1. ASSUME TypeOK, WriteArguments, Next PROVE (TypeOK /\ WriteArguments)'
    BY <2>1, StepTyped, StepArguments DEF Next
  <2>2. ASSUME TypeOK, WriteArguments, UNCHANGED vars PROVE (TypeOK /\ WriteArguments)'
    BY <2>2 DEF vars, TypeOK, WriteArguments
  <2>. QED BY <2>1, <2>2
<1>. QED BY InitTyped, <1>1, PTL DEF Spec

-----------------------------------------------------------------------------
(* Who holds the semaphore, and who is in which queue.                     *)

(* The places at which a task has an entry in r_wait, in w_wait: on the    *)
(* way into a second poll it may have one or not.                          *)
InReadQueue == (ReadLabels \ {"r_down"}) \cup {"p_sched", "p_free"}
InWriteQueue == (WriteLabels \ {"w_down"}) \cup {"p_sched", "p_free"}

QueueEntries ==
  \A t \in Tasks :
    /\ pc[t] \in InReadQueue => t \in r_wait
    /\ t \in r_wait => pc[t] \in InReadQueue \cup {"p_down"}
    /\ pc[t] \in InWriteQueue => t \in w_wait
    /\ t \in w_wait => pc[t] \in InWriteQueue \cup {"p_down"}

(* A reader that is about to give the semaphore back and sleep has seen    *)
(* an empty fifo, and nobody has changed that since.                       *)
SleepsOnEmpty == \A t \in Tasks : pc[t] = "r_sleep" => current_len = 0

IInv ==
  /\ TypeOK /\ WriteArguments
  /\ SemaphoreHeld /\ QueueEntries /\ SleepsOnEmpty /\ ReadersWoken

(* down and up are paired on every path of every call.                     *)
LEMMA StepHeld ==
  ASSUME TypeOK, SemaphoreHeld,
         NEW t \in Tasks, Syscall(t) \/ Driver(t) \/ Signal(t)
  PROVE  SemaphoreHeld'
<1>. USE FifoAssumption DEF TypeOK, SemaphoreHeld, Critical, Goto, callVars
<1>1. ASSUME ReadCall(t) PROVE SemaphoreHeld'
  BY <1>1 DEF ReadCall
<1>2. ASSUME ReadEnter(t) PROVE SemaphoreHeld'
  BY <1>2 DEF ReadEnter
<1>3. ASSUME ReadSleep(t) PROVE SemaphoreHeld'
  BY <1>3 DEF ReadSleep
<1>4. ASSUME ReadSchedule(t) PROVE SemaphoreHeld'
  <2>1. pc[t] = "r_sched" /\ UNCHANGED <<sem, fifoVars, r_wait, w_wait>>
    BY ONLY <1>4 DEF ReadSchedule
  <2>2. PICK l \in {"r_remove", "r_redown"} : Goto(t, l)
    BY ONLY <1>4 DEF ReadSchedule
  <2>. QED BY <2>1, <2>2
<1>5. ASSUME ReadRedown(t) PROVE SemaphoreHeld'
  BY <1>5 DEF ReadRedown
<1>6. ASSUME ReadCopy(t) PROVE SemaphoreHeld'
  <2>1. pc[t] = "r_copy" /\ UNCHANGED <<sem, r_wait, w_wait>>
    BY ONLY <1>6 DEF ReadCopy
  <2>2. PICK l \in {"r_up", "r_wake"} : Goto(t, l)
    BY ONLY <1>6 DEF ReadCopy
  <2>. QED BY <2>1, <2>2
<1>7. ASSUME ReadWake(t) PROVE SemaphoreHeld'
  BY <1>7 DEF ReadWake
<1>8. ASSUME ReadWoken(t) PROVE SemaphoreHeld'
  BY <1>8 DEF ReadWoken
<1>9. ASSUME ReadUp(t) PROVE SemaphoreHeld'
  BY <1>9 DEF ReadUp
<1>10. ASSUME ReadRemoveLock(t) PROVE SemaphoreHeld'
  BY <1>10 DEF ReadRemoveLock
<1>11. ASSUME ReadRemove(t) PROVE SemaphoreHeld'
  BY <1>11 DEF ReadRemove
<1>12. ASSUME WriteCall(t) PROVE SemaphoreHeld'
  BY <1>12 DEF WriteCall
<1>13. ASSUME WriteEnter(t) PROVE SemaphoreHeld'
  BY <1>13 DEF WriteEnter
<1>14. ASSUME WriteSleep(t) PROVE SemaphoreHeld'
  BY <1>14 DEF WriteSleep
<1>15. ASSUME WriteSchedule(t) PROVE SemaphoreHeld'
  <2>1. pc[t] = "w_sched" /\ UNCHANGED <<sem, fifoVars, r_wait, w_wait>>
    BY ONLY <1>15 DEF WriteSchedule
  <2>2. PICK l \in {"w_remove", "w_redown"} : Goto(t, l)
    BY ONLY <1>15 DEF WriteSchedule
  <2>. QED BY <2>1, <2>2
<1>16. ASSUME WriteRedown(t) PROVE SemaphoreHeld'
  BY <1>16 DEF WriteRedown
<1>17. ASSUME WriteCopy(t) PROVE SemaphoreHeld'
  <2>1. pc[t] = "w_copy" /\ UNCHANGED <<sem, r_wait, w_wait>>
    BY ONLY <1>17 DEF WriteCopy
  <2>2. PICK l \in {"w_up", "w_wake"} : Goto(t, l)
    BY ONLY <1>17 DEF WriteCopy
  <2>. QED BY <2>1, <2>2
<1>18. ASSUME WriteWake(t) PROVE SemaphoreHeld'
  BY <1>18 DEF WriteWake
<1>19. ASSUME WriteWoken(t) PROVE SemaphoreHeld'
  BY <1>19 DEF WriteWoken
<1>20. ASSUME WriteKill(t) PROVE SemaphoreHeld'
  BY <1>20 DEF WriteKill
<1>21. ASSUME WriteUp(t) PROVE SemaphoreHeld'
  BY <1>21 DEF WriteUp
<1>22. ASSUME WriteRemoveLock(t) PROVE SemaphoreHeld'
  BY <1>22 DEF WriteRemoveLock
<1>23. ASSUME WriteRemove(t) PROVE SemaphoreHeld'
  BY <1>23 DEF WriteRemove
<1>24. ASSUME IoctlCall(t) PROVE SemaphoreHeld'
  <2>1. pc[t] = "idle" /\ UNCHANGED <<sem, fifoVars, r_wait, w_wait>>
    BY ONLY <1>24 DEF IoctlCall
  <2>2. PICK l \in {"i_down", "exit"} : Goto(t, l)
    BY ONLY <1>24 DEF IoctlCall
  <2>. QED BY <2>1, <2>2
<1>25. ASSUME IoctlClear(t) PROVE SemaphoreHeld'
  BY <1>25 DEF IoctlClear
<1>26. ASSUME PollCall(t) PROVE SemaphoreHeld'
  BY <1>26 DEF PollCall
<1>27. ASSUME Poll(t) PROVE SemaphoreHeld'
  BY <1>27 DEF Poll
<1>28. ASSUME PollSchedule(t) PROVE SemaphoreHeld'
  <2>1. pc[t] = "p_sched" /\ UNCHANGED <<sem, fifoVars, r_wait, w_wait>>
    BY ONLY <1>28 DEF PollSchedule
  <2>2. PICK l \in {"p_free", "p_down"} : Goto(t, l)
    BY ONLY <1>28 DEF PollSchedule
  <2>. QED BY <2>1, <2>2
<1>29. ASSUME PollFree(t) PROVE SemaphoreHeld'
  BY <1>29 DEF PollFree
<1>30. ASSUME Fasync(t) PROVE SemaphoreHeld'
  BY <1>30 DEF Fasync
<1>31. ASSUME Signal(t) PROVE SemaphoreHeld'
  BY <1>31 DEF Signal
<1>32. ASSUME Exit(t) PROVE SemaphoreHeld'
  BY <1>32 DEF Exit
<1>. QED
  BY <1>1, <1>2, <1>3, <1>4, <1>5, <1>6, <1>7, <1>8, <1>9, <1>10, <1>11,
     <1>12, <1>13, <1>14, <1>15, <1>16, <1>17, <1>18, <1>19, <1>20, <1>21,
     <1>22, <1>23, <1>24, <1>25, <1>26, <1>27, <1>28, <1>29, <1>30, <1>31,
     <1>32
     DEF Syscall, Driver, Read, Write

(* Entries enter and leave the queues where the places say they do.        *)
LEMMA StepEntries ==
  ASSUME TypeOK, QueueEntries,
         NEW t \in Tasks, Syscall(t) \/ Driver(t) \/ Signal(t)
  PROVE  QueueEntries'
<1>. USE FifoAssumption
     DEF TypeOK, QueueEntries, InReadQueue, InWriteQueue, ReadLabels, WriteLabels,
         Goto, callVars
<1>1. ASSUME ReadCall(t) PROVE QueueEntries'
  BY <1>1 DEF ReadCall
<1>2. ASSUME ReadEnter(t) PROVE QueueEntries'
  BY <1>2 DEF ReadEnter
<1>3. ASSUME ReadSleep(t) PROVE QueueEntries'
  BY <1>3 DEF ReadSleep
<1>4. ASSUME ReadSchedule(t) PROVE QueueEntries'
  <2>1. pc[t] = "r_sched" /\ UNCHANGED <<sem, fifoVars, r_wait, w_wait>>
    BY ONLY <1>4 DEF ReadSchedule
  <2>2. PICK l \in {"r_remove", "r_redown"} : Goto(t, l)
    BY ONLY <1>4 DEF ReadSchedule
  <2>. QED BY <2>1, <2>2
<1>5. ASSUME ReadRedown(t) PROVE QueueEntries'
  BY <1>5 DEF ReadRedown
<1>6. ASSUME ReadCopy(t) PROVE QueueEntries'
  <2>1. pc[t] = "r_copy" /\ UNCHANGED <<sem, r_wait, w_wait>>
    BY ONLY <1>6 DEF ReadCopy
  <2>2. PICK l \in {"r_up", "r_wake"} : Goto(t, l)
    BY ONLY <1>6 DEF ReadCopy
  <2>. QED BY <2>1, <2>2
<1>7. ASSUME ReadWake(t) PROVE QueueEntries'
  BY <1>7 DEF ReadWake
<1>8. ASSUME ReadWoken(t) PROVE QueueEntries'
  BY <1>8 DEF ReadWoken
<1>9. ASSUME ReadUp(t) PROVE QueueEntries'
  BY <1>9 DEF ReadUp
<1>10. ASSUME ReadRemoveLock(t) PROVE QueueEntries'
  BY <1>10 DEF ReadRemoveLock
<1>11. ASSUME ReadRemove(t) PROVE QueueEntries'
  BY <1>11 DEF ReadRemove
<1>12. ASSUME WriteCall(t) PROVE QueueEntries'
  BY <1>12 DEF WriteCall
<1>13. ASSUME WriteEnter(t) PROVE QueueEntries'
  BY <1>13 DEF WriteEnter
<1>14. ASSUME WriteSleep(t) PROVE QueueEntries'
  BY <1>14 DEF WriteSleep
<1>15. ASSUME WriteSchedule(t) PROVE QueueEntries'
  <2>1. pc[t] = "w_sched" /\ UNCHANGED <<sem, fifoVars, r_wait, w_wait>>
    BY ONLY <1>15 DEF WriteSchedule
  <2>2. PICK l \in {"w_remove", "w_redown"} : Goto(t, l)
    BY ONLY <1>15 DEF WriteSchedule
  <2>. QED BY <2>1, <2>2
<1>16. ASSUME WriteRedown(t) PROVE QueueEntries'
  BY <1>16 DEF WriteRedown
<1>17. ASSUME WriteCopy(t) PROVE QueueEntries'
  <2>1. pc[t] = "w_copy" /\ UNCHANGED <<sem, r_wait, w_wait>>
    BY ONLY <1>17 DEF WriteCopy
  <2>2. PICK l \in {"w_up", "w_wake"} : Goto(t, l)
    BY ONLY <1>17 DEF WriteCopy
  <2>. QED BY <2>1, <2>2
<1>18. ASSUME WriteWake(t) PROVE QueueEntries'
  BY <1>18 DEF WriteWake
<1>19. ASSUME WriteWoken(t) PROVE QueueEntries'
  BY <1>19 DEF WriteWoken
<1>20. ASSUME WriteKill(t) PROVE QueueEntries'
  BY <1>20 DEF WriteKill
<1>21. ASSUME WriteUp(t) PROVE QueueEntries'
  BY <1>21 DEF WriteUp
<1>22. ASSUME WriteRemoveLock(t) PROVE QueueEntries'
  BY <1>22 DEF WriteRemoveLock
<1>23. ASSUME WriteRemove(t) PROVE QueueEntries'
  BY <1>23 DEF WriteRemove
<1>24. ASSUME IoctlCall(t) PROVE QueueEntries'
  <2>1. pc[t] = "idle" /\ UNCHANGED <<sem, fifoVars, r_wait, w_wait>>
    BY ONLY <1>24 DEF IoctlCall
  <2>2. PICK l \in {"i_down", "exit"} : Goto(t, l)
    BY ONLY <1>24 DEF IoctlCall
  <2>. QED BY <2>1, <2>2
<1>25. ASSUME IoctlClear(t) PROVE QueueEntries'
  BY <1>25 DEF IoctlClear
<1>26. ASSUME PollCall(t) PROVE QueueEntries'
  BY <1>26 DEF PollCall
<1>27. ASSUME Poll(t) PROVE QueueEntries'
  BY <1>27 DEF Poll
<1>28. ASSUME PollSchedule(t) PROVE QueueEntries'
  <2>1. pc[t] = "p_sched" /\ UNCHANGED <<sem, fifoVars, r_wait, w_wait>>
    BY ONLY <1>28 DEF PollSchedule
  <2>2. PICK l \in {"p_free", "p_down"} : Goto(t, l)
    BY ONLY <1>28 DEF PollSchedule
  <2>. QED BY <2>1, <2>2
<1>29. ASSUME PollFree(t) PROVE QueueEntries'
  BY <1>29 DEF PollFree
<1>30. ASSUME Fasync(t) PROVE QueueEntries'
  BY <1>30 DEF Fasync
<1>31. ASSUME Signal(t) PROVE QueueEntries'
  BY <1>31 DEF Signal
<1>32. ASSUME Exit(t) PROVE QueueEntries'
  BY <1>32 DEF Exit
<1>. QED
  BY <1>1, <1>2, <1>3, <1>4, <1>5, <1>6, <1>7, <1>8, <1>9, <1>10, <1>11,
     <1>12, <1>13, <1>14, <1>15, <1>16, <1>17, <1>18, <1>19, <1>20, <1>21,
     <1>22, <1>23, <1>24, <1>25, <1>26, <1>27, <1>28, <1>29, <1>30, <1>31,
     <1>32
     DEF Syscall, Driver, Read, Write

(* Only the holder of the semaphore puts bytes into the fifo.              *)
LEMMA StepEmpty ==
  ASSUME TypeOK, SemaphoreHeld, SleepsOnEmpty,
         NEW t \in Tasks, Syscall(t) \/ Driver(t) \/ Signal(t)
  PROVE  SleepsOnEmpty'
<1>. USE FifoAssumption
     DEF TypeOK, SemaphoreHeld, Critical, SleepsOnEmpty, Goto, fifoVars, callVars
<1>1. ASSUME ReadCall(t) PROVE SleepsOnEmpty'
  BY <1>1 DEF ReadCall
<1>2. ASSUME ReadEnter(t) PROVE SleepsOnEmpty'
  BY <1>2 DEF ReadEnter
<1>3. ASSUME ReadSleep(t) PROVE SleepsOnEmpty'
  BY <1>3 DEF ReadSleep
<1>4. ASSUME ReadSchedule(t) PROVE SleepsOnEmpty'
  <2>1. pc[t] = "r_sched" /\ UNCHANGED <<sem, fifoVars, r_wait, w_wait>>
    BY ONLY <1>4 DEF ReadSchedule
  <2>2. PICK l \in {"r_remove", "r_redown"} : Goto(t, l)
    BY ONLY <1>4 DEF ReadSchedule
  <2>. QED BY <2>1, <2>2
<1>5. ASSUME ReadRedown(t) PROVE SleepsOnEmpty'
  BY <1>5 DEF ReadRedown
<1>6. ASSUME ReadCopy(t) PROVE SleepsOnEmpty'
  <2>1. pc[t] = "r_copy" /\ UNCHANGED <<sem, r_wait, w_wait>>
    BY ONLY <1>6 DEF ReadCopy
  <2>2. PICK l \in {"r_up", "r_wake"} : Goto(t, l)
    BY ONLY <1>6 DEF ReadCopy
  <2>. QED BY <2>1, <2>2
<1>7. ASSUME ReadWake(t) PROVE SleepsOnEmpty'
  BY <1>7 DEF ReadWake
<1>8. ASSUME ReadWoken(t) PROVE SleepsOnEmpty'
  BY <1>8 DEF ReadWoken
<1>9. ASSUME ReadUp(t) PROVE SleepsOnEmpty'
  BY <1>9 DEF ReadUp
<1>10. ASSUME ReadRemoveLock(t) PROVE SleepsOnEmpty'
  BY <1>10 DEF ReadRemoveLock
<1>11. ASSUME ReadRemove(t) PROVE SleepsOnEmpty'
  BY <1>11 DEF ReadRemove
<1>12. ASSUME WriteCall(t) PROVE SleepsOnEmpty'
  BY <1>12 DEF WriteCall
<1>13. ASSUME WriteEnter(t) PROVE SleepsOnEmpty'
  BY <1>13 DEF WriteEnter
<1>14. ASSUME WriteSleep(t) PROVE SleepsOnEmpty'
  BY <1>14 DEF WriteSleep
<1>15. ASSUME WriteSchedule(t) PROVE SleepsOnEmpty'
  <2>1. pc[t] = "w_sched" /\ UNCHANGED <<sem, fifoVars, r_wait, w_wait>>
    BY ONLY <1>15 DEF WriteSchedule
  <2>2. PICK l \in {"w_remove", "w_redown"} : Goto(t, l)
    BY ONLY <1>15 DEF WriteSchedule
  <2>. QED BY <2>1, <2>2
<1>16. ASSUME WriteRedown(t) PROVE SleepsOnEmpty'
  BY <1>16 DEF WriteRedown
<1>17. ASSUME WriteCopy(t) PROVE SleepsOnEmpty'
  <2>1. pc[t] = "w_copy" /\ UNCHANGED <<sem, r_wait, w_wait>>
    BY ONLY <1>17 DEF WriteCopy
  <2>2. PICK l \in {"w_up", "w_wake"} : Goto(t, l)
    BY ONLY <1>17 DEF WriteCopy
  <2>. QED BY <2>1, <2>2
<1>18. ASSUME WriteWake(t) PROVE SleepsOnEmpty'
  BY <1>18 DEF WriteWake
<1>19. ASSUME WriteWoken(t) PROVE SleepsOnEmpty'
  BY <1>19 DEF WriteWoken
<1>20. ASSUME WriteKill(t) PROVE SleepsOnEmpty'
  BY <1>20 DEF WriteKill
<1>21. ASSUME WriteUp(t) PROVE SleepsOnEmpty'
  BY <1>21 DEF WriteUp
<1>22. ASSUME WriteRemoveLock(t) PROVE SleepsOnEmpty'
  BY <1>22 DEF WriteRemoveLock
<1>23. ASSUME WriteRemove(t) PROVE SleepsOnEmpty'
  BY <1>23 DEF WriteRemove
<1>24. ASSUME IoctlCall(t) PROVE SleepsOnEmpty'
  <2>1. pc[t] = "idle" /\ UNCHANGED <<sem, fifoVars, r_wait, w_wait>>
    BY ONLY <1>24 DEF IoctlCall
  <2>2. PICK l \in {"i_down", "exit"} : Goto(t, l)
    BY ONLY <1>24 DEF IoctlCall
  <2>. QED BY <2>1, <2>2
<1>25. ASSUME IoctlClear(t) PROVE SleepsOnEmpty'
  BY <1>25 DEF IoctlClear
<1>26. ASSUME PollCall(t) PROVE SleepsOnEmpty'
  BY <1>26 DEF PollCall
<1>27. ASSUME Poll(t) PROVE SleepsOnEmpty'
  BY <1>27 DEF Poll
<1>28. ASSUME PollSchedule(t) PROVE SleepsOnEmpty'
  <2>1. pc[t] = "p_sched" /\ UNCHANGED <<sem, fifoVars, r_wait, w_wait>>
    BY ONLY <1>28 DEF PollSchedule
  <2>2. PICK l \in {"p_free", "p_down"} : Goto(t, l)
    BY ONLY <1>28 DEF PollSchedule
  <2>. QED BY <2>1, <2>2
<1>29. ASSUME PollFree(t) PROVE SleepsOnEmpty'
  BY <1>29 DEF PollFree
<1>30. ASSUME Fasync(t) PROVE SleepsOnEmpty'
  BY <1>30 DEF Fasync
<1>31. ASSUME Signal(t) PROVE SleepsOnEmpty'
  BY <1>31 DEF Signal
<1>32. ASSUME Exit(t) PROVE SleepsOnEmpty'
  BY <1>32 DEF Exit
<1>. QED
  BY <1>1, <1>2, <1>3, <1>4, <1>5, <1>6, <1>7, <1>8, <1>9, <1>10, <1>11,
     <1>12, <1>13, <1>14, <1>15, <1>16, <1>17, <1>18, <1>19, <1>20, <1>21,
     <1>22, <1>23, <1>24, <1>25, <1>26, <1>27, <1>28, <1>29, <1>30, <1>31,
     <1>32
     DEF Syscall, Driver, Read, Write

(* A writer that makes the fifo non-empty is about to wake r_wait, and     *)
(* every task that sleeps for input is in r_wait when it does.             *)
LEMMA StepWoken ==
  ASSUME TypeOK, QueueEntries, SleepsOnEmpty, ReadersWoken,
         NEW t \in Tasks, Syscall(t) \/ Driver(t) \/ Signal(t)
  PROVE  ReadersWoken'
<1>. DEFINE Waking == \E v \in Tasks : pc[v] \in {"w_wake", "w_waking"}
            Asleep(u) == /\ tstate[u] = "interruptible"
                         /\ pc[u] = "r_sched" \/ (pc[u] = "p_sched" /\ "in" \in req[u].want)
<1>1. SUFFICES ASSUME NEW u \in Tasks, Asleep(u)', current_len' # 0
               PROVE  Waking'
  BY DEF ReadersWoken, SleepsFor
<1>. USE <1>1, FifoAssumption DEF TypeOK, Goto, fifoVars, callVars
<1>100. Asleep(u) /\ current_len # 0 => Waking
  BY DEF ReadersWoken, SleepsFor
<1>2. ASSUME ReadCall(t) PROVE Waking'
  BY <1>2, <1>100 DEF ReadCall
<1>3. ASSUME ReadEnter(t) PROVE Waking'
  BY <1>3, <1>100 DEF ReadEnter
<1>4. ASSUME ReadSleep(t) PROVE Waking'
  <2>1. CASE u = t
    BY <1>4, <2>1 DEF ReadSleep, SleepsOnEmpty
  <2>2. CASE u # t
    BY <1>4, <1>100, <2>2 DEF ReadSleep
  <2>. QED BY <2>1, <2>2
<1>5. ASSUME ReadSchedule(t) PROVE Waking'
  BY <1>5, <1>100 DEF ReadSchedule
<1>6. ASSUME ReadRedown(t) PROVE Waking'
  BY <1>6, <1>100 DEF ReadRedown
<1>7. ASSUME ReadCopy(t) PROVE Waking'
  <2>. DEFINE n == AtMost(req[t].count, current_len)
  <2>1. req[t].count \in Nat /\ current_len \in Nat
    OBVIOUS
  <2>2. n \in Nat /\ n <= current_len
    BY <2>1, AtMostSmaller
  <2>3. current_len' = current_len \/ current_len' = current_len - n
    BY ONLY <1>7 DEF ReadCopy, fifoVars
  <2>. HIDE DEF n
  <2>4. current_len # 0
    BY <2>1, <2>2, <2>3
  <2>5. pc[t] = "r_copy" /\ UNCHANGED <<tstate, req>>
    BY ONLY <1>7 DEF ReadCopy
  <2>6. PICK l \in {"r_up", "r_wake"} : Goto(t, l)
    BY ONLY <1>7 DEF ReadCopy
  <2>. QED BY <1>100, <2>4, <2>5, <2>6
<1>8. ASSUME ReadWake(t) PROVE Waking'
  BY <1>8, <1>100 DEF ReadWake
<1>9. ASSUME ReadWoken(t) PROVE Waking'
  BY <1>9, <1>100 DEF ReadWoken, Woken
<1>10. ASSUME ReadUp(t) PROVE Waking'
  BY <1>10, <1>100 DEF ReadUp
<1>11. ASSUME ReadRemoveLock(t) PROVE Waking'
  BY <1>11, <1>100 DEF ReadRemoveLock
<1>12. ASSUME ReadRemove(t) PROVE Waking'
  BY <1>12, <1>100 DEF ReadRemove
<1>13. ASSUME WriteCall(t) PROVE Waking'
  BY <1>13, <1>100 DEF WriteCall
<1>14. ASSUME WriteEnter(t) PROVE Waking'
  BY <1>14, <1>100 DEF WriteEnter
<1>15. ASSUME WriteSleep(t) PROVE Waking'
  BY <1>15, <1>100 DEF WriteSleep
<1>16. ASSUME WriteSchedule(t) PROVE Waking'
  BY <1>16, <1>100 DEF WriteSchedule
<1>17. ASSUME WriteRedown(t) PROVE Waking'
  BY <1>17, <1>100 DEF WriteRedown
<1>18. ASSUME WriteCopy(t) PROVE Waking'
  BY <1>18, <1>100 DEF WriteCopy
<1>19. ASSUME WriteWake(t) PROVE Waking'
  BY <1>19, <1>100 DEF WriteWake
<1>20. ASSUME WriteWoken(t) PROVE Waking'
  <2>1. pc[t] = "w_waking" /\ UNCHANGED req
    BY ONLY <1>20 DEF WriteWoken, callVars
  <2>2. PICK l \in {"w_kill", "w_up"} : Goto(t, l)
    BY ONLY <1>20 DEF WriteWoken
  <2>3. u \in r_wait => tstate'[u] = "running"
    BY ONLY <1>20, u \in Tasks DEF WriteWoken, Woken
  <2>4. pc[u] \in {"r_sched", "p_sched"}
    BY <2>1, <2>2
  <2>5. u \in r_wait
    BY <2>4 DEF QueueEntries, InReadQueue, ReadLabels
  <2>. QED BY <2>3, <2>5
<1>21. ASSUME WriteKill(t) PROVE Waking'
  BY <1>21, <1>100 DEF WriteKill, Woken
<1>22. ASSUME WriteUp(t) PROVE Waking'
  BY <1>22, <1>100 DEF WriteUp
<1>23. ASSUME WriteRemoveLock(t) PROVE Waking'
  BY <1>23, <1>100 DEF WriteRemoveLock
<1>24. ASSUME WriteRemove(t) PROVE Waking'
  BY <1>24, <1>100 DEF WriteRemove
<1>25. ASSUME IoctlCall(t) PROVE Waking'
  BY <1>25, <1>100 DEF IoctlCall
<1>26. ASSUME IoctlClear(t) PROVE Waking'
  BY <1>26, <1>100 DEF IoctlClear
<1>27. ASSUME PollCall(t) PROVE Waking'
  BY <1>27, <1>100 DEF PollCall
<1>28. ASSUME Poll(t) PROVE Waking'
  <2>1. UNCHANGED <<current_len, req>> /\ pc[t] = "p_down"
    BY ONLY <1>28 DEF Poll, fifoVars
  <2>2. CASE u = t
    <3>1. \/ pc'[t] = "p_free"
          \/ pc'[t] = "p_sched" /\ PollMask \cap req[t].want = {}
      BY ONLY <1>28, TypeOK DEF Poll, Goto, TypeOK
    <3>2. "in" \in req[t].want
      BY <2>1, <2>2, <3>1
    <3>3. "in" \in PollMask
      BY <2>1 DEF PollMask
    <3>. QED BY <2>2, <3>1, <3>2, <3>3
  <2>3. CASE u # t
    BY <1>28, <1>100, <2>3 DEF Poll
  <2>. QED BY <2>2, <2>3
<1>29. ASSUME PollSchedule(t) PROVE Waking'
  BY <1>29, <1>100 DEF PollSchedule
<1>30. ASSUME PollFree(t) PROVE Waking'
  BY <1>30, <1>100 DEF PollFree
<1>31. ASSUME Fasync(t) PROVE Waking'
  BY <1>31, <1>100 DEF Fasync
<1>32. ASSUME Signal(t) PROVE Waking'
  BY <1>32, <1>100 DEF Signal
<1>33. ASSUME Exit(t) PROVE Waking'
  BY <1>33, <1>100 DEF Exit
<1>. QED
  BY <1>2, <1>3, <1>4, <1>5, <1>6, <1>7, <1>8, <1>9, <1>10, <1>11, <1>12,
     <1>13, <1>14, <1>15, <1>16, <1>17, <1>18, <1>19, <1>20, <1>21, <1>22,
     <1>23, <1>24, <1>25, <1>26, <1>27, <1>28, <1>29, <1>30, <1>31, <1>32,
     <1>33
     DEF Syscall, Driver, Read, Write

-----------------------------------------------------------------------------
(* The inductive invariant, and what it implies.                           *)

LEMMA InitInvariant == Init => IInv
BY FifoAssumption, InitTyped
   DEF Init, IInv, SemaphoreHeld, Critical, QueueEntries, InReadQueue, InWriteQueue,
       ReadLabels, WriteLabels, SleepsOnEmpty, ReadersWoken, SleepsFor

LEMMA NextInvariant == IInv /\ [Next]_vars => IInv'
<1>1. ASSUME IInv, Next PROVE IInv'
  BY <1>1, StepTyped, StepArguments, StepHeld, StepEntries, StepEmpty, StepWoken
     DEF IInv, Next
<1>2. ASSUME IInv, UNCHANGED vars PROVE IInv'
  BY <1>2 DEF IInv, vars, TypeOK, WriteArguments, SemaphoreHeld, QueueEntries,
              SleepsOnEmpty, ReadersWoken, SleepsFor
<1>. QED BY <1>1, <1>2

(* The semaphore is held by exactly the task between down and up.          *)
THEOREM MutualExclusion == Spec => []SemaphoreHeld
BY InitInvariant, NextInvariant, PTL DEF Spec, IInv

(* No finished call leaves an entry in a wait queue.                       *)
THEOREM EntriesRemoved == Spec => []NoDanglingEntry
<1>1. IInv => NoDanglingEntry
  BY DEF IInv, TypeOK, QueueEntries, NoDanglingEntry, InDriver, InReadQueue, InWriteQueue,
         ReadLabels, WriteLabels
<1>. QED BY InitInvariant, NextInvariant, <1>1, PTL DEF Spec

(* A task that sleeps for input while there is some is about to be woken.  *)
THEOREM NoLostWakeup == Spec => []ReadersWoken
BY InitInvariant, NextInvariant, PTL DEF Spec, IInv

-----------------------------------------------------------------------------
(* The other half of NoLostWakeup: when nobody clears the fifo, a task     *)
(* that sleeps for room while there is some is about to be woken. With     *)
(* FIFO_CLEAR it is not so, and the proof shows where: IoctlClear makes    *)
(* room and wakes nobody.                                                  *)

NobodyClears == \A t \in Tasks : pc[t] # "i_down"

(* A writer that is about to give the semaphore back and sleep has seen a  *)
(* full fifo, and nobody has changed that since.                           *)
SleepsOnFull == \A t \in Tasks : pc[t] = "w_sleep" => Space = 0

RoomInv == IInv /\ NobodyClears /\ SleepsOnFull /\ WritersWoken

(* Without FIFO_CLEAR no call waits to clear.                              *)
LEMMA StepClears ==
  ASSUME FIFO_CLEAR \notin Cmds, TypeOK, NobodyClears,
         NEW t \in Tasks, Syscall(t) \/ Driver(t) \/ Signal(t)
  PROVE  NobodyClears'
<1>1. UNCHANGED pc \/ \E l \in Labels \ {"i_down"} : Goto(t, l)
  <2>. USE DEF Labels, ReadLabels, WriteLabels
  <2>1. ASSUME Read(t) PROVE \E l \in Labels \ {"i_down"} : Goto(t, l)
    BY <2>1 DEF Read, ReadEnter, ReadSleep, ReadSchedule, ReadRedown, ReadCopy, ReadWake,
                ReadWoken, ReadUp, ReadRemoveLock, ReadRemove
  <2>2. ASSUME Write(t) PROVE \E l \in Labels \ {"i_down"} : Goto(t, l)
    BY <2>2 DEF Write, WriteEnter, WriteSleep, WriteSchedule, WriteRedown, WriteCopy,
                WriteWake, WriteWoken, WriteKill, WriteUp, WriteRemoveLock, WriteRemove
  <2>3. ASSUME ReadCall(t) \/ WriteCall(t) \/ PollCall(t)
        PROVE  \E l \in Labels \ {"i_down"} : Goto(t, l)
    BY <2>3 DEF ReadCall, WriteCall, PollCall
  <2>4. ASSUME IoctlCall(t) PROVE Goto(t, "exit")
    BY <2>4, FIFO_CLEAR \notin Cmds DEF IoctlCall
  <2>5. ASSUME IoctlClear(t) \/ Poll(t) \/ PollSchedule(t) \/ PollFree(t) \/ Exit(t)
        PROVE  \E l \in Labels \ {"i_down"} : Goto(t, l)
    BY <2>5 DEF IoctlClear, Poll, PollSchedule, PollFree, Exit
  <2>6. ASSUME Fasync(t) \/ Signal(t) PROVE UNCHANGED pc
    BY <2>6 DEF Fasync, Signal
  <2>. QED BY <2>1, <2>2, <2>3, <2>4, <2>5, <2>6 DEF Syscall, Driver
<1>. QED BY <1>1 DEF TypeOK, NobodyClears, Goto

(* Only the holder of the semaphore takes bytes out of the fifo.           *)
LEMMA StepFull ==
  ASSUME TypeOK, SemaphoreHeld, NobodyClears, SleepsOnFull,
         NEW t \in Tasks, Syscall(t) \/ Driver(t) \/ Signal(t)
  PROVE  SleepsOnFull'
<1>. USE FifoAssumption
     DEF TypeOK, SemaphoreHeld, Critical, NobodyClears, SleepsOnFull, Space, Goto,
         fifoVars, callVars
<1>1. ASSUME ReadCall(t) PROVE SleepsOnFull'
  BY <1>1 DEF ReadCall
<1>2. ASSUME ReadEnter(t) PROVE SleepsOnFull'
  BY <1>2 DEF ReadEnter
<1>3. ASSUME ReadSleep(t) PROVE SleepsOnFull'
  BY <1>3 DEF ReadSleep
<1>4. ASSUME ReadSchedule(t) PROVE SleepsOnFull'
  <2>1. pc[t] = "r_sched" /\ UNCHANGED <<sem, fifoVars, r_wait, w_wait>>
    BY ONLY <1>4 DEF ReadSchedule
  <2>2. PICK l \in {"r_remove", "r_redown"} : Goto(t, l)
    BY ONLY <1>4 DEF ReadSchedule
  <2>. QED BY <2>1, <2>2
<1>5. ASSUME ReadRedown(t) PROVE SleepsOnFull'
  BY <1>5 DEF ReadRedown
<1>6. ASSUME ReadCopy(t) PROVE SleepsOnFull'
  <2>1. pc[t] = "r_copy" /\ UNCHANGED <<sem, r_wait, w_wait>>
    BY ONLY <1>6 DEF ReadCopy
  <2>2. PICK l \in {"r_up", "r_wake"} : Goto(t, l)
    BY ONLY <1>6 DEF ReadCopy
  <2>. QED BY <2>1, <2>2
<1>7. ASSUME ReadWake(t) PROVE SleepsOnFull'
  BY <1>7 DEF ReadWake
<1>8. ASSUME ReadWoken(t) PROVE SleepsOnFull'
  BY <1>8 DEF ReadWoken
<1>9. ASSUME ReadUp(t) PROVE SleepsOnFull'
  BY <1>9 DEF ReadUp
<1>10. ASSUME ReadRemoveLock(t) PROVE SleepsOnFull'
  BY <1>10 DEF ReadRemoveLock
<1>11. ASSUME ReadRemove(t) PROVE SleepsOnFull'
  BY <1>11 DEF ReadRemove
<1>12. ASSUME WriteCall(t) PROVE SleepsOnFull'
  BY <1>12 DEF WriteCall
<1>13. ASSUME WriteEnter(t) PROVE SleepsOnFull'
  BY <1>13 DEF WriteEnter
<1>14. ASSUME WriteSleep(t) PROVE SleepsOnFull'
  BY <1>14 DEF WriteSleep
<1>15. ASSUME WriteSchedule(t) PROVE SleepsOnFull'
  <2>1. pc[t] = "w_sched" /\ UNCHANGED <<sem, fifoVars, r_wait, w_wait>>
    BY ONLY <1>15 DEF WriteSchedule
  <2>2. PICK l \in {"w_remove", "w_redown"} : Goto(t, l)
    BY ONLY <1>15 DEF WriteSchedule
  <2>. QED BY <2>1, <2>2
<1>16. ASSUME WriteRedown(t) PROVE SleepsOnFull'
  BY <1>16 DEF WriteRedown
<1>17. ASSUME WriteCopy(t) PROVE SleepsOnFull'
  <2>1. pc[t] = "w_copy" /\ UNCHANGED <<sem, r_wait, w_wait>>
    BY ONLY <1>17 DEF WriteCopy
  <2>2. PICK l \in {"w_up", "w_wake"} : Goto(t, l)
    BY ONLY <1>17 DEF WriteCopy
  <2>. QED BY <2>1, <2>2
<1>18. ASSUME WriteWake(t) PROVE SleepsOnFull'
  BY <1>18 DEF WriteWake
<1>19. ASSUME WriteWoken(t) PROVE SleepsOnFull'
  BY <1>19 DEF WriteWoken
<1>20. ASSUME WriteKill(t) PROVE SleepsOnFull'
  BY <1>20 DEF WriteKill
<1>21. ASSUME WriteUp(t) PROVE SleepsOnFull'
  BY <1>21 DEF WriteUp
<1>22. ASSUME WriteRemoveLock(t) PROVE SleepsOnFull'
  BY <1>22 DEF WriteRemoveLock
<1>23. ASSUME WriteRemove(t) PROVE SleepsOnFull'
  BY <1>23 DEF WriteRemove
<1>24. ASSUME IoctlCall(t) PROVE SleepsOnFull'
  <2>1. pc[t] = "idle" /\ UNCHANGED <<sem, fifoVars, r_wait, w_wait>>
    BY ONLY <1>24 DEF IoctlCall
  <2>2. PICK l \in {"i_down", "exit"} : Goto(t, l)
    BY ONLY <1>24 DEF IoctlCall
  <2>. QED BY <2>1, <2>2
<1>25. ASSUME IoctlClear(t) PROVE SleepsOnFull'
  BY <1>25 DEF IoctlClear
<1>26. ASSUME PollCall(t) PROVE SleepsOnFull'
  BY <1>26 DEF PollCall
<1>27. ASSUME Poll(t) PROVE SleepsOnFull'
  BY <1>27 DEF Poll
<1>28. ASSUME PollSchedule(t) PROVE SleepsOnFull'
  <2>1. pc[t] = "p_sched" /\ UNCHANGED <<sem, fifoVars, r_wait, w_wait>>
    BY ONLY <1>28 DEF PollSchedule
  <2>2. PICK l \in {"p_free", "p_down"} : Goto(t, l)
    BY ONLY <1>28 DEF PollSchedule
  <2>. QED BY <2>1, <2>2
<1>29. ASSUME PollFree(t) PROVE SleepsOnFull'
  BY <1>29 DEF PollFree
<1>30. ASSUME Fasync(t) PROVE SleepsOnFull'
  BY <1>30 DEF Fasync
<1>31. ASSUME Signal(t) PROVE SleepsOnFull'
  BY <1>31 DEF Signal
<1>32. ASSUME Exit(t) PROVE SleepsOnFull'
  BY <1>32 DEF Exit
<1>. QED
  BY <1>1, <1>2, <1>3, <1>4, <1>5, <1>6, <1>7, <1>8, <1>9, <1>10, <1>11,
     <1>12, <1>13, <1>14, <1>15, <1>16, <1>17, <1>18, <1>19, <1>20, <1>21,
     <1>22, <1>23, <1>24, <1>25, <1>26, <1>27, <1>28, <1>29, <1>30, <1>31,
     <1>32
     DEF Syscall, Driver, Read, Write

(* A reader that makes room is about to wake w_wait, and every task that   *)
(* sleeps for room is in w_wait when it does.                              *)
LEMMA StepRoomWoken ==
  ASSUME TypeOK, QueueEntries, NobodyClears, SleepsOnFull, WritersWoken,
         NEW t \in Tasks, Syscall(t) \/ Driver(t) \/ Signal(t)
  PROVE  WritersWoken'
<1>. DEFINE Waking == \E v \in Tasks : pc[v] \in {"r_wake", "r_waking"}
            Asleep(u) == /\ tstate[u] = "interruptible"
                         /\ pc[u] = "w_sched" \/ (pc[u] = "p_sched" /\ "out" \in req[u].want)
<1>1. SUFFICES ASSUME NEW u \in Tasks, Asleep(u)', Space' # 0
               PROVE  Waking'
  BY DEF WritersWoken, SleepsFor
<1>. USE <1>1, FifoAssumption DEF TypeOK, NobodyClears, Space, Goto, fifoVars, callVars
<1>100. Asleep(u) /\ Space # 0 => Waking
  BY DEF WritersWoken, SleepsFor
<1>2. ASSUME ReadCall(t) PROVE Waking'
  BY <1>2, <1>100 DEF ReadCall
<1>3. ASSUME ReadEnter(t) PROVE Waking'
  BY <1>3, <1>100 DEF ReadEnter
<1>4. ASSUME ReadSleep(t) PROVE Waking'
  BY <1>4, <1>100 DEF ReadSleep
<1>5. ASSUME ReadSchedule(t) PROVE Waking'
  BY <1>5, <1>100 DEF ReadSchedule
<1>6. ASSUME ReadRedown(t) PROVE Waking'
  BY <1>6, <1>100 DEF ReadRedown
<1>7. ASSUME ReadCopy(t) PROVE Waking'
  <2>1. pc[t] = "r_copy" /\ UNCHANGED <<tstate, req>>
    BY ONLY <1>7 DEF ReadCopy
  <2>2. Goto(t, "r_wake") \/ (current_len' = current_len /\ Goto(t, "r_up"))
    BY ONLY <1>7 DEF ReadCopy, fifoVars
  <2>3. CASE Goto(t, "r_wake")
    BY <2>1, <2>3
  <2>4. CASE current_len' = current_len /\ Goto(t, "r_up")
    BY <1>100, <2>1, <2>4
  <2>. QED BY <2>2, <2>3, <2>4
<1>8. ASSUME ReadWake(t) PROVE Waking'
  BY <1>8, <1>100 DEF ReadWake
<1>9. ASSUME ReadWoken(t) PROVE Waking'
  <2>1. pc[t] = "r_waking" /\ Goto(t, "r_up") /\ UNCHANGED req
    BY ONLY <1>9 DEF ReadWoken, callVars
  <2>2. u \in w_wait => tstate'[u] = "running"
    BY ONLY <1>9, u \in Tasks DEF ReadWoken, Woken
  <2>3. pc[u] \in {"w_sched", "p_sched"}
    BY <2>1
  <2>4. u \in w_wait
    BY <2>3 DEF QueueEntries, InWriteQueue, WriteLabels
  <2>. QED BY <2>2, <2>4
<1>10. ASSUME ReadUp(t) PROVE Waking'
  BY <1>10, <1>100 DEF ReadUp
<1>11. ASSUME ReadRemoveLock(t) PROVE Waking'
  BY <1>11, <1>100 DEF ReadRemoveLock
<1>12. ASSUME ReadRemove(t) PROVE Waking'
  BY <1>12, <1>100 DEF ReadRemove
<1>13. ASSUME WriteCall(t) PROVE Waking'
  BY <1>13, <1>100 DEF WriteCall
<1>14. ASSUME WriteEnter(t) PROVE Waking'
  BY <1>14, <1>100 DEF WriteEnter
<1>15. ASSUME WriteSleep(t) PROVE Waking'
  <2>1. CASE u = t
    BY <1>15, <2>1 DEF WriteSleep, SleepsOnFull
  <2>2. CASE u # t
    BY <1>15, <1>100, <2>2 DEF WriteSleep
  <2>. QED BY <2>1, <2>2
<1>16. ASSUME WriteSchedule(t) PROVE Waking'
  BY <1>16, <1>100 DEF WriteSchedule
<1>17. ASSUME WriteRedown(t) PROVE Waking'
  BY <1>17, <1>100 DEF WriteRedown
<1>18. ASSUME WriteCopy(t) PROVE Waking'
  <2>. DEFINE n == AtMost(req[t].count, Space)
  <2>1. req[t].count \in Nat /\ Space \in Nat
    OBVIOUS
  <2>2. n \in Nat /\ n <= Space
    BY <2>1, AtMostSmaller
  <2>3. current_len' = current_len \/ current_len' = current_len + n
    BY ONLY <1>18 DEF WriteCopy
  <2>. HIDE DEF n
  <2>4. Space # 0
    BY <2>1, <2>2, <2>3
  <2>5. pc[t] = "w_copy" /\ UNCHANGED <<tstate, req>>
    BY ONLY <1>18 DEF WriteCopy
  <2>6. PICK l \in {"w_up", "w_wake"} : Goto(t, l)
    BY ONLY <1>18 DEF WriteCopy
  <2>. QED BY <1>100, <2>4, <2>5, <2>6
<1>19. ASSUME WriteWake(t) PROVE Waking'
  BY <1>19, <1>100 DEF WriteWake
<1>20. ASSUME WriteWoken(t) PROVE Waking'
  BY <1>20, <1>100 DEF WriteWoken, Woken
<1>21. ASSUME WriteKill(t) PROVE Waking'
  BY <1>21, <1>100 DEF WriteKill, Woken
<1>22. ASSUME WriteUp(t) PROVE Waking'
  BY <1>22, <1>100 DEF WriteUp
<1>23. ASSUME WriteRemoveLock(t) PROVE Waking'
  BY <1>23, <1>100 DEF WriteRemoveLock
<1>24. ASSUME WriteRemove(t) PROVE Waking'
  BY <1>24, <1>100 DEF WriteRemove
<1>25. ASSUME IoctlCall(t) PROVE Waking'
  BY <1>25, <1>100 DEF IoctlCall
<1>26. ASSUME IoctlClear(t) PROVE Waking'
  BY <1>26, <1>100 DEF IoctlClear
<1>27. ASSUME PollCall(t) PROVE Waking'
  BY <1>27, <1>100 DEF PollCall
<1>28. ASSUME Poll(t) PROVE Waking'
  <2>1. UNCHANGED <<current_len, req>> /\ pc[t] = "p_down"
    BY ONLY <1>28 DEF Poll, fifoVars
  <2>2. CASE u = t
    <3>1. \/ pc'[t] = "p_free"
          \/ pc'[t] = "p_sched" /\ PollMask \cap req[t].want = {}
      BY ONLY <1>28, TypeOK DEF Poll, Goto, TypeOK
    <3>2. "out" \in req[t].want
      BY <2>1, <2>2, <3>1
    <3>3. "out" \in PollMask
      BY <2>1 DEF PollMask
    <3>. QED BY <2>2, <3>1, <3>2, <3>3
  <2>3. CASE u # t
    BY <1>28, <1>100, <2>3 DEF Poll
  <2>. QED BY <2>2, <2>3
<1>29. ASSUME PollSchedule(t) PROVE Waking'
  BY <1>29, <1>100 DEF PollSchedule
<1>30. ASSUME PollFree(t) PROVE Waking'
  BY <1>30, <1>100 DEF PollFree
<1>31. ASSUME Fasync(t) PROVE Waking'
  BY <1>31, <1>100 DEF Fasync
<1>32. ASSUME Signal(t) PROVE Waking'
  BY <1>32, <1>100 DEF Signal
<1>33. ASSUME Exit(t) PROVE Waking'
  BY <1>33, <1>100 DEF Exit
<1>. QED
  BY <1>2, <1>3, <1>4, <1>5, <1>6, <1>7, <1>8, <1>9, <1>10, <1>11, <1>12,
     <1>13, <1>14, <1>15, <1>16, <1>17, <1>18, <1>19, <1>20, <1>21, <1>22,
     <1>23, <1>24, <1>25, <1>26, <1>27, <1>28, <1>29, <1>30, <1>31, <1>32,
     <1>33
     DEF Syscall, Driver, Read, Write

-----------------------------------------------------------------------------
LEMMA RoomInit == Init => RoomInv
BY InitInvariant, FifoAssumption
   DEF Init, RoomInv, NobodyClears, SleepsOnFull, WritersWoken, SleepsFor

LEMMA RoomNext ==
  ASSUME FIFO_CLEAR \notin Cmds
  PROVE  RoomInv /\ [Next]_vars => RoomInv'
<1>1. ASSUME RoomInv, Next PROVE RoomInv'
  BY <1>1, FIFO_CLEAR \notin Cmds, NextInvariant, StepClears, StepFull, StepRoomWoken
     DEF RoomInv, IInv, Next
<1>2. ASSUME RoomInv, UNCHANGED vars PROVE RoomInv'
  BY <1>2, NextInvariant
     DEF RoomInv, vars, NobodyClears, SleepsOnFull, Space, WritersWoken, SleepsFor
<1>. QED BY <1>1, <1>2

(* While nobody clears the fifo, a task that sleeps for room while there   *)
(* is some is about to be woken.                                           *)
THEOREM RoomNotLost ==
  ASSUME FIFO_CLEAR \notin Cmds
  PROVE  Spec => []WritersWoken
BY FIFO_CLEAR \notin Cmds, RoomInit, RoomNext, PTL DEF Spec, RoomInv

(***************************************************************************)
(* With a memcpy that moves upwards, the driver implements FifoChannel, for *)
(* any tasks, any size and any calls: every step of the driver is a step of *)
(* the channel or leaves it alone.                                         *)
(***************************************************************************)
Upwards == MemcpyOrders \subseteq {"ascending"}

(* What a write has brought along, as ChannelSpec has it.                  *)
Given == [t \in Tasks |-> IF pc[t] \in Writing THEN req[t].buf ELSE <<>>]

(* Before a read has copied, and in the other calls, nothing is taken.     *)
NothingTaken ==
  \A t \in Tasks :
    pc[t] \notin {"r_wake", "r_waking", "r_up", "r_remove", "r_removing", "exit"} => ubuf[t] = <<>>

ChannelInv == TypeOK /\ WriteArguments /\ NothingTaken

LEMMA StepTaken ==
  ASSUME TypeOK, NothingTaken, NEW t \in Tasks, Syscall(t) \/ Driver(t) \/ Signal(t)
  PROVE  NothingTaken'
<1>. USE DEF TypeOK, NothingTaken, Goto, callVars
<1>1. ASSUME ReadCall(t) \/ WriteCall(t) \/ PollCall(t) \/ IoctlCall(t) \/ Fasync(t) \/ Signal(t)
      PROVE  NothingTaken'
  BY <1>1 DEF ReadCall, WriteCall, PollCall, IoctlCall, Fasync, Signal
<1>2. ASSUME ReadEnter(t) \/ ReadSleep(t) \/ ReadSchedule(t) \/ ReadRedown(t)
      PROVE  NothingTaken'
  BY <1>2 DEF ReadEnter, ReadSleep, ReadSchedule, ReadRedown
<1>3. ASSUME ReadCopy(t) PROVE NothingTaken'
  <2>1. /\ pc[t] = "r_copy" /\ \E l \in {"r_up", "r_wake"} : Goto(t, l)
        /\ \A u \in Tasks \ {t} : ubuf'[u] = ubuf[u]
    BY <1>3 DEF ReadCopy
  <2>. QED BY <2>1
<1>4. ASSUME ReadWake(t) \/ ReadWoken(t) \/ ReadUp(t) \/ ReadRemoveLock(t) \/ ReadRemove(t)
      PROVE  NothingTaken'
  BY <1>4 DEF ReadWake, ReadWoken, ReadUp, ReadRemoveLock, ReadRemove
<1>5. ASSUME Write(t) PROVE NothingTaken'
  <2>1. pc[t] \in WriteLabels /\ UNCHANGED ubuf
        /\ \E l \in WriteLabels \cup {"exit"} : Goto(t, l)
    BY ONLY <1>5
       DEF Write, WriteEnter, WriteSleep, WriteSchedule, WriteRedown, WriteCopy, WriteWake,
           WriteWoken, WriteKill, WriteUp, WriteRemoveLock, WriteRemove, WriteLabels, callVars
  <2>. QED BY <2>1 DEF WriteLabels
<1>6. ASSUME IoctlClear(t) \/ Poll(t) \/ PollSchedule(t) \/ PollFree(t) PROVE NothingTaken'
  BY <1>6 DEF IoctlClear, Poll, PollSchedule, PollFree
<1>7. ASSUME Exit(t) PROVE NothingTaken'
  BY <1>7 DEF Exit
<1>. QED BY <1>1, <1>2, <1>3, <1>4, <1>5, <1>6, <1>7 DEF Syscall, Driver, Read

-----------------------------------------------------------------------------
(* The contents.                                                           *)

(* The first n bytes of an array are a sequence.                           *)
LEMMA ArraySeq ==
  ASSUME NEW m \in [Index -> Byte], NEW n \in 0 .. GLOBALFIFO_SIZE
  PROVE  /\ [i \in 1 .. n |-> m[i - 1]] \in Seq(Byte)
         /\ Len([i \in 1 .. n |-> m[i - 1]]) = n
         /\ \A i \in 1 .. n : [j \in 1 .. n |-> m[j - 1]][i] = m[i - 1] /\ m[i - 1] \in Byte
<1>1. \A i \in 1 .. n : i - 1 \in Index
  BY FifoAssumption DEF Index
<1>2. n \in Nat
  BY FifoAssumption
<1>3. [i \in 1 .. n |-> m[i - 1]] \in [1 .. n -> Byte]
  BY <1>1
<1>. QED BY <1>1, <1>2, <1>3

LEMMA ContentsSeq ==
  ASSUME TypeOK
  PROVE  /\ Contents \in Seq(Byte) /\ Len(Contents) = current_len /\ current_len \in Nat
         /\ \A i \in 1 .. current_len : Contents[i] = mem[i - 1] /\ mem[i - 1] \in Byte
<1>1. mem \in [Index -> Byte] /\ current_len \in 0 .. GLOBALFIFO_SIZE /\ current_len \in Nat
  BY FifoAssumption DEF TypeOK
<1>2. /\ [i \in 1 .. current_len |-> mem[i - 1]] \in Seq(Byte)
      /\ Len([i \in 1 .. current_len |-> mem[i - 1]]) = current_len
      /\ \A i \in 1 .. current_len :
           [j \in 1 .. current_len |-> mem[j - 1]][i] = mem[i - 1] /\ mem[i - 1] \in Byte
  BY <1>1, ArraySeq
<1>. QED BY <1>1, <1>2 DEF Contents

LEMMA ContentsSeqNext ==
  ASSUME TypeOK'
  PROVE  /\ Contents' \in Seq(Byte) /\ Len(Contents') = current_len'
         /\ \A i \in 1 .. current_len' : Contents'[i] = mem'[i - 1]
<1>. DEFINE m == mem'
            n == current_len'
<1>1. m \in [Index -> Byte] /\ n \in 0 .. GLOBALFIFO_SIZE
  BY DEF TypeOK
<1>2. Contents' = [i \in 1 .. n |-> m[i - 1]]
  BY DEF Contents
<1>. HIDE DEF m, n
<1>3. /\ [i \in 1 .. n |-> m[i - 1]] \in Seq(Byte)
      /\ Len([i \in 1 .. n |-> m[i - 1]]) = n
      /\ \A i \in 1 .. n : [j \in 1 .. n |-> m[j - 1]][i] = m[i - 1]
  BY <1>1, ArraySeq
<1>. QED BY <1>2, <1>3 DEF m, n

(* A read of n bytes leaves what was behind them.                          *)
LEMMA ContentsAfterRead ==
  ASSUME TypeOK, TypeOK', Upwards, NEW n \in 0 .. current_len,
         \E order \in MemcpyOrders : mem' = Shifted(n, current_len - n, order),
         current_len' = current_len - n
  PROVE  Contents' = SubSeq(Contents, n + 1, Len(Contents))
<1>1. mem' = Shifted(n, current_len - n, "ascending")
  BY DEF Upwards
<1>2. /\ Contents \in Seq(Byte) /\ Len(Contents) = current_len /\ current_len \in Nat
      /\ \A i \in 1 .. current_len : Contents[i] = mem[i - 1] /\ mem[i - 1] \in Byte
  BY ContentsSeq
<1>3. /\ Contents' \in Seq(Byte) /\ Len(Contents') = current_len - n
      /\ \A i \in 1 .. current_len - n : Contents'[i] = mem'[i - 1]
  BY ContentsSeqNext
<1>4. n \in Nat /\ n <= current_len
  BY <1>2
<1>5. \A i \in n + 1 .. current_len : Contents[i] \in Byte
  BY <1>2, <1>4
<1>6. /\ SubSeq(Contents, n + 1, current_len) \in Seq(Byte)
      /\ Len(SubSeq(Contents, n + 1, current_len)) = current_len - n
      /\ \A i \in 1 .. current_len - n : SubSeq(Contents, n + 1, current_len)[i] = Contents[n + i]
  BY <1>2, <1>4, <1>5, SubSeqProperties
<1>7. ASSUME NEW i \in 1 .. current_len - n PROVE Contents'[i] = Contents[n + i]
  <2>1. i - 1 \in Index /\ i \in Nat /\ n + i \in 1 .. current_len
    BY <1>2, <1>4, FifoAssumption DEF Index, TypeOK
  <2>2. mem'[i - 1] = mem[i - 1 + n]
    BY <1>1, <1>2, <1>4, <2>1 DEF Shifted
  <2>3. i - 1 + n = (n + i) - 1
    BY <1>4, <2>1
  <2>. QED BY <1>2, <1>3, <2>1, <2>2, <2>3
<1>. QED BY <1>2, <1>3, <1>6, <1>7, SeqEqual

(* A write of n bytes puts them behind what was there.                     *)
LEMMA ContentsAfterWrite ==
  ASSUME TypeOK, TypeOK', NEW s \in Seq(Byte),
         mem' = Stored(current_len, s), current_len' = current_len + Len(s)
  PROVE  Contents' = Contents \o s
<1>2. /\ Contents \in Seq(Byte) /\ Len(Contents) = current_len /\ current_len \in Nat
      /\ \A i \in 1 .. current_len : Contents[i] = mem[i - 1]
  BY ContentsSeq
<1>3. /\ Contents' \in Seq(Byte) /\ Len(Contents') = current_len + Len(s)
      /\ \A i \in 1 .. current_len + Len(s) : Contents'[i] = mem'[i - 1]
      /\ current_len + Len(s) <= GLOBALFIFO_SIZE
  BY ContentsSeqNext DEF TypeOK
<1>4. Len(s) \in Nat
  OBVIOUS
<1>5. /\ Contents \o s \in Seq(Byte) /\ Len(Contents \o s) = current_len + Len(s)
      /\ \A i \in 1 .. current_len + Len(s) :
           (Contents \o s)[i] = IF i <= current_len THEN Contents[i] ELSE s[i - current_len]
  BY <1>2, ConcatProperties
<1>6. ASSUME NEW i \in 1 .. current_len + Len(s) PROVE Contents'[i] = (Contents \o s)[i]
  <2>1. i - 1 \in Index /\ i \in Nat
    BY <1>2, <1>3, <1>4, FifoAssumption DEF Index
  <2>2. CASE i <= current_len
    <3>1. mem'[i - 1] = mem[i - 1]
      BY <1>2, <2>1, <2>2 DEF Stored
    <3>. QED BY <1>2, <1>3, <1>5, <2>1, <2>2, <3>1
  <2>3. CASE i > current_len
    <3>1. i - 1 \in current_len .. current_len + Len(s) - 1
          /\ (i - 1) - current_len + 1 = i - current_len
      BY <1>2, <1>4, <2>1, <2>3
    <3>2. mem'[i - 1] = s[i - current_len]
      BY <2>1, <3>1 DEF Stored
    <3>. QED BY <1>2, <1>3, <1>5, <2>1, <2>3, <3>2
  <2>. QED BY <1>2, <2>1, <2>2, <2>3
<1>. QED BY <1>2, <1>3, <1>5, <1>6, SeqEqual

-----------------------------------------------------------------------------
(* The steps of the driver as steps of the channel.                        *)

(* A step changes what its own task has brought along at most.             *)
LEMMA GivenOfOthers ==
  ASSUME TypeOK, NEW t \in Tasks,
         \A u \in Tasks \ {t} : pc'[u] = pc[u] /\ req'[u] = req[u]
  PROVE  /\ Given' = [Given EXCEPT ![t] = Given'[t]]
         /\ Given'[t] = IF pc'[t] \in Writing THEN req'[t].buf ELSE <<>>
         /\ Given'[t] = Given[t] => Given' = Given
BY DEF Given

(* The channel is left alone.                                              *)
LEMMA ChannelStutters ==
  ASSUME TypeOK, NEW t \in Tasks, UNCHANGED <<mem, current_len, ubuf>>,
         \A u \in Tasks \ {t} : pc'[u] = pc[u] /\ req'[u] = req[u],
         \/ pc[t] \notin Writing /\ pc'[t] \notin Writing
         \/ pc[t] \in Writing /\ pc'[t] \in Writing /\ req'[t] = req[t]
  PROVE  UNCHANGED Channel!vars
<1>1. Given'[t] = Given[t]
  BY GivenOfOthers DEF Given
<1>2. Given' = Given
  BY <1>1, GivenOfOthers
<1>3. Contents' = Contents
  BY DEF Contents
<1>. QED BY <1>2, <1>3 DEF Channel!vars, Given

(* A call returns what it was given and what it took.                      *)
LEMMA ChannelReturns ==
  ASSUME TypeOK, NEW t \in Tasks, Contents' = Contents,
         ubuf' = [ubuf EXCEPT ![t] = <<>>],
         \A u \in Tasks \ {t} : pc'[u] = pc[u] /\ req'[u] = req[u],
         pc'[t] \notin Writing
  PROVE  [Channel!Next]_(Channel!vars)
<1>1. Given' = [Given EXCEPT ![t] = <<>>]
  BY GivenOfOthers
<1>2. Channel!Return(t)
  BY <1>1 DEF Channel!Return, Given
<1>. QED BY <1>2 DEF Channel!Next

LEMMA ChannelInit == Init => Channel!Init
<1>. SUFFICES ASSUME Init PROVE Channel!Init
  OBVIOUS
<1>1. Contents = <<>>
  <2>1. Init => TypeOK
    BY InitTyped
  <2>2. Contents \in Seq(Byte) /\ Len(Contents) = 0
    BY <2>1, ContentsSeq DEF Init
  <2>. QED BY <2>2, EmptySeq
<1>2. Given = [t \in Tasks |-> <<>>]
  BY DEF Init, Given, Writing
<1>. QED BY <1>1, <1>2 DEF Init, Channel!Init, Given

(* Calls that bring nothing, and every wait, leave the channel alone.      *)
LEMMA StepsStutter ==
  ASSUME TypeOK, NEW t \in Tasks,
         \/ ReadCall(t) \/ PollCall(t) \/ IoctlCall(t) \/ Fasync(t) \/ Signal(t)
         \/ ReadEnter(t) \/ ReadSleep(t) \/ ReadSchedule(t) \/ ReadRedown(t)
         \/ ReadWake(t) \/ ReadWoken(t) \/ ReadUp(t) \/ ReadRemoveLock(t) \/ ReadRemove(t)
         \/ WriteSleep(t) \/ WriteRedown(t) \/ WriteWake(t) \/ WriteWoken(t) \/ WriteKill(t)
         \/ WriteUp(t) \/ WriteRemoveLock(t) \/ WriteRemove(t)
         \/ Poll(t) \/ PollSchedule(t) \/ PollFree(t)
  PROVE  UNCHANGED Channel!vars
<1>. USE DEF fifoVars, callVars, Writing
<1>1. CASE ReadCall(t) \/ PollCall(t) \/ IoctlCall(t)
  <2>1. pc[t] = "idle" /\ UNCHANGED <<mem, current_len, ubuf>>
    BY <1>1 DEF ReadCall, PollCall, IoctlCall
  <2>2. \E l \in {"r_down", "p_down", "i_down", "exit"} : Goto(t, l)
    BY <1>1 DEF ReadCall, PollCall, IoctlCall
  <2>3. \A u \in Tasks \ {t} : req'[u] = req[u]
    BY <1>1 DEF ReadCall, PollCall, IoctlCall, TypeOK
  <2>. QED BY <2>1, <2>2, <2>3, ChannelStutters DEF Goto, TypeOK
<1>2. CASE Fasync(t) \/ Signal(t)
  BY <1>2, ChannelStutters DEF Fasync, Signal
<1>3. CASE \/ ReadEnter(t) \/ ReadSleep(t) \/ ReadSchedule(t) \/ ReadRedown(t)
           \/ ReadWake(t) \/ ReadWoken(t) \/ ReadUp(t) \/ ReadRemoveLock(t) \/ ReadRemove(t)
  <2>1. pc[t] \in ReadLabels /\ UNCHANGED <<mem, current_len, ubuf, req>>
        /\ \E l \in ReadLabels \cup {"exit"} : Goto(t, l)
    BY <1>3 DEF ReadEnter, ReadSleep, ReadSchedule, ReadRedown, ReadWake, ReadWoken, ReadUp,
                ReadRemoveLock, ReadRemove, ReadLabels
  <2>. QED BY <2>1, ChannelStutters DEF Goto, TypeOK, ReadLabels
<1>4. CASE WriteSleep(t) \/ WriteRedown(t)
  BY <1>4, ChannelStutters DEF WriteSleep, WriteRedown, Goto, TypeOK
<1>5. CASE \/ WriteWake(t) \/ WriteWoken(t) \/ WriteKill(t) \/ WriteUp(t)
           \/ WriteRemoveLock(t) \/ WriteRemove(t)
  <2>1. pc[t] \notin Writing /\ UNCHANGED <<mem, current_len, ubuf, req>>
        /\ \E l \in {"w_waking", "w_kill", "w_up", "w_remove", "w_removing", "exit"} : Goto(t, l)
    BY <1>5 DEF WriteWake, WriteWoken, WriteKill, WriteUp, WriteRemoveLock, WriteRemove
  <2>. QED BY <2>1, ChannelStutters DEF Goto, TypeOK
<1>6. CASE Poll(t) \/ PollSchedule(t) \/ PollFree(t)
  <2>1. pc[t] \in {"p_down", "p_sched", "p_free"} /\ UNCHANGED <<mem, current_len, ubuf, req>>
        /\ \E l \in {"p_down", "p_sched", "p_free", "exit"} : Goto(t, l)
    BY <1>6 DEF Poll, PollSchedule, PollFree
  <2>. QED BY <2>1, ChannelStutters DEF Goto, TypeOK
<1>. QED BY <1>1, <1>2, <1>3, <1>4, <1>5, <1>6

(* A write brings its buffer along.                                        *)
LEMMA WriteCallStep ==
  ASSUME ChannelInv, NEW t \in Tasks, WriteCall(t)
  PROVE  [Channel!Next]_(Channel!vars)
<1>. USE DEF ChannelInv, callVars, fifoVars
<1>1. pc[t] = "idle" /\ UNCHANGED <<mem, current_len, ubuf>> /\ Goto(t, "w_down")
  BY DEF WriteCall
<1>2. PICK s \in Payloads, nb \in Modes : req' = [req EXCEPT ![t] = Args(Len(s), s, nb, {})]
  BY DEF WriteCall
<1>3. \A u \in Tasks \ {t} : pc'[u] = pc[u] /\ req'[u] = req[u]
  BY <1>1, <1>2 DEF Goto, TypeOK
<1>4. pc'[t] = "w_down" /\ req'[t].buf = s
  BY <1>1, <1>2 DEF Goto, TypeOK, Args
<1>5. Given' = [Given EXCEPT ![t] = s] /\ Given'[t] = s
  BY <1>3, <1>4, GivenOfOthers DEF Writing
<1>6. Given[t] = <<>> /\ ubuf[t] = <<>>
  BY <1>1 DEF Given, Writing, NothingTaken
<1>7. Contents' = Contents
  BY <1>1 DEF Contents
<1>8. s \in Seq(Byte)
  BY FifoAssumption
<1>9. Channel!Call(t)
  BY <1>1, <1>5, <1>6, <1>7, <1>8 DEF Channel!Call, Given
<1>. QED BY <1>9 DEF Channel!Next

(* A write that does not wait, or whose wait is interrupted, puts nothing  *)
(* into the channel.                                                       *)
LEMMA WriteWaitStep ==
  ASSUME ChannelInv, NEW t \in Tasks, WriteEnter(t) \/ WriteSchedule(t)
  PROVE  [Channel!Next]_(Channel!vars)
<1>. USE DEF ChannelInv, fifoVars
<1>1. pc[t] \in {"w_down", "w_sched"} /\ UNCHANGED <<mem, current_len, ubuf, req>>
  BY DEF WriteEnter, WriteSchedule
<1>2. PICK l \in {"w_copy", "w_up", "w_sleep", "w_remove", "w_redown"} : Goto(t, l)
  BY DEF WriteEnter, WriteSchedule
<1>3. pc'[t] = l /\ \A u \in Tasks \ {t} : pc'[u] = pc[u]
  BY <1>2 DEF Goto, TypeOK
<1>4. CASE l \in Writing
  BY <1>1, <1>3, <1>4, ChannelStutters DEF Writing
<1>5. CASE l \notin Writing
  <2>1. ubuf' = [ubuf EXCEPT ![t] = <<>>]
    BY <1>1 DEF NothingTaken, TypeOK
  <2>2. Contents' = Contents
    BY <1>1 DEF Contents
  <2>. QED BY <1>1, <1>3, <1>5, <2>1, <2>2, ChannelReturns
<1>. QED BY <1>4, <1>5

(* A read takes the oldest bytes.                                          *)
LEMMA ReadCopyStep ==
  ASSUME Upwards, ChannelInv, TypeOK', NEW t \in Tasks, ReadCopy(t)
  PROVE  [Channel!Next]_(Channel!vars)
<1>. DEFINE n == AtMost(req[t].count, current_len)
<1>1. /\ pc[t] = "r_copy" /\ UNCHANGED req
      /\ \E l \in {"r_up", "r_wake"} : Goto(t, l)
  BY DEF ReadCopy
<1>2. \A u \in Tasks \ {t} : pc'[u] = pc[u] /\ req'[u] = req[u]
  BY <1>1 DEF ChannelInv, TypeOK, Goto
<1>3. pc[t] \notin Writing /\ pc'[t] \notin Writing
  BY <1>1 DEF ChannelInv, TypeOK, Goto, Writing
<1>4. Given[t] = <<>> /\ Given' = Given /\ ubuf[t] = <<>>
  BY <1>1, <1>2, <1>3, GivenOfOthers DEF Given, ChannelInv, NothingTaken
<1>5. CASE UNCHANGED <<mem, current_len, ubuf>>
  BY <1>2, <1>3, <1>5, ChannelStutters DEF ChannelInv
<1>6. CASE /\ ubuf' = [ubuf EXCEPT ![t] = SubSeq(Contents, 1, n)]
           /\ \E order \in MemcpyOrders : mem' = Shifted(n, current_len - n, order)
           /\ current_len' = current_len - n
  <2>1. n \in 0 .. current_len
    <3>1. req[t].count \in Nat /\ current_len \in Nat
      BY FifoAssumption DEF ChannelInv, TypeOK
    <3>. QED BY <3>1, AtMostSmaller
  <2>2. Contents' = SubSeq(Contents, n + 1, Len(Contents))
    BY <1>6, <2>1, ContentsAfterRead DEF ChannelInv
  <2>3. Contents \in Seq(Byte) /\ Len(Contents) = current_len /\ current_len \in Nat
    BY ContentsSeq DEF ChannelInv
  <2>. HIDE DEF n
  <2>4. CASE n = 0
    <3>1. SubSeq(Contents, 1, n) = <<>> /\ SubSeq(Contents, n + 1, Len(Contents)) = Contents
      BY <2>3, <2>4, SubSeqEmpty, SubSeqFull
    <3>2. ubuf' = ubuf
      BY <1>4, <1>6, <3>1 DEF ChannelInv, TypeOK
    <3>. QED BY <1>4, <2>2, <3>1, <3>2 DEF Channel!vars, Given
  <2>5. CASE n # 0
    <3>1. n \in 1 .. Len(Contents)
      BY <2>1, <2>3, <2>5
    <3>2. Channel!Get(t)
      BY <1>4, <1>6, <2>2, <3>1 DEF Channel!Get, Given
    <3>. QED BY <3>2 DEF Channel!Next
  <2>. QED BY <2>4, <2>5
<1>. QED BY <1>5, <1>6 DEF ReadCopy, fifoVars

(* A write puts a part of its buffer behind what was there, or, when it    *)
(* faults, something above the contents.                                   *)
LEMMA WriteCopyStep ==
  ASSUME ChannelInv, TypeOK', NEW t \in Tasks, WriteCopy(t)
  PROVE  [Channel!Next]_(Channel!vars)
<1>. DEFINE n == AtMost(req[t].count, Space)
<1>1. /\ pc[t] = "w_copy" /\ UNCHANGED <<req, ubuf>>
      /\ \E l \in {"w_up", "w_wake"} : Goto(t, l)
  BY DEF WriteCopy
<1>2. \A u \in Tasks \ {t} : pc'[u] = pc[u] /\ req'[u] = req[u]
  BY <1>1 DEF ChannelInv, TypeOK, Goto
<1>3. pc[t] \in Writing /\ pc'[t] \notin Writing
  BY <1>1 DEF ChannelInv, TypeOK, Goto, Writing
<1>4. Given[t] = req[t].buf /\ Given' = [Given EXCEPT ![t] = <<>>]
      /\ ubuf' = [ubuf EXCEPT ![t] = <<>>]
  <2>1. Given[t] = req[t].buf
    BY <1>3 DEF Given
  <2>2. Given' = [Given EXCEPT ![t] = <<>>]
    BY <1>2, <1>3, GivenOfOthers DEF ChannelInv
  <2>3. ubuf[t] = <<>>
    BY <1>1 DEF ChannelInv, NothingTaken
  <2>4. ubuf' = [ubuf EXCEPT ![t] = <<>>]
    BY <1>1, <2>3 DEF ChannelInv, TypeOK
  <2>. QED BY <2>1, <2>2, <2>4
<1>5. n \in Nat /\ n <= req[t].count /\ n <= Space /\ req[t].buf \in Seq(Byte)
      /\ req[t].count = Len(req[t].buf) /\ current_len \in Nat /\ GLOBALFIFO_SIZE \in Nat
  <2>1. req[t].count \in Nat /\ Space \in Nat /\ current_len \in Nat
    BY FifoAssumption DEF ChannelInv, TypeOK, Space
  <2>2. n \in Nat /\ n <= req[t].count /\ n <= Space
    BY <2>1, AtMostSmaller
  <2>3. req[t].buf \in Seq(Byte) /\ req[t].count = Len(req[t].buf)
    BY <1>3 DEF ChannelInv, TypeOK, WriteArguments
  <2>. QED BY <2>1, <2>2, <2>3, FifoAssumption
<1>6. \A k \in 0 .. n : /\ SubSeq(req[t].buf, 1, k) \in Seq(Byte)
                        /\ Len(SubSeq(req[t].buf, 1, k)) = k
  <2>. HIDE DEF n
  <2>1. ASSUME NEW k \in 0 .. n PROVE SubSeq(req[t].buf, 1, k) \in Seq(Byte)
                                    /\ Len(SubSeq(req[t].buf, 1, k)) = k
    <3>1. k \in Int /\ k <= Len(req[t].buf) /\ k >= 0
      BY <1>5
    <3>2. \A i \in 1 .. k : req[t].buf[i] \in Byte
      BY <1>5, <3>1, ElementOfSeq
    <3>. QED BY <3>1, <3>2, SubSeqProperties
  <2>. QED BY <2>1
<1>7. ASSUME NEW k \in 0 .. n, mem' = Stored(current_len, SubSeq(req[t].buf, 1, k)),
             current_len' = current_len
      PROVE  [Channel!Next]_(Channel!vars)
  <2>1. Contents' = Contents
    <3>1. \A i \in 1 .. current_len : mem'[i - 1] = mem[i - 1]
      <4>1. \A i \in 1 .. current_len :
              i - 1 \in Index /\ \A m \in Int : i - 1 \notin current_len .. m
        BY <1>5, FifoAssumption DEF Index, ChannelInv, TypeOK
      <4>2. Len(SubSeq(req[t].buf, 1, k)) \in Nat
        BY <1>6
      <4>. QED BY <1>5, <1>7, <4>1, <4>2 DEF Stored
    <3>. QED BY <1>7, <3>1 DEF Contents
  <2>. QED BY <1>2, <1>3, <1>4, <2>1, ChannelReturns DEF ChannelInv
<1>8. ASSUME mem' = Stored(current_len, SubSeq(req[t].buf, 1, n)),
             current_len' = current_len + n
      PROVE  [Channel!Next]_(Channel!vars)
  <2>. DEFINE s == SubSeq(req[t].buf, 1, n)
  <2>1. s \in Seq(Byte) /\ Len(s) = n
    BY <1>5, <1>6
  <2>2. Contents \in Seq(Byte) /\ Len(Contents) = current_len
    BY ContentsSeq DEF ChannelInv
  <2>. HIDE DEF s
  <2>3. Contents' = Contents \o s
    BY <1>8, <2>1, ContentsAfterWrite DEF ChannelInv, s
  <2>. HIDE DEF n
  <2>4. CASE n = 0
    <3>1. s = <<>>
      BY <2>1, <2>4, EmptySeq
    <3>2. Contents' = Contents
      BY <2>2, <2>3, <3>1, ConcatEmptySeq
    <3>. QED BY <1>2, <1>3, <1>4, <3>2, ChannelReturns DEF ChannelInv
  <2>5. CASE n # 0
    <3>1. n \in 1 .. Len(Given[t]) /\ Len(Contents) + n <= GLOBALFIFO_SIZE
      BY <1>4, <1>5, <2>2, <2>5 DEF Space
    <3>2. Contents' = Contents \o SubSeq(Given[t], 1, n)
      BY <1>4, <2>3 DEF s
    <3>3. Channel!Put(t)
      BY <1>1, <1>4, <3>1, <3>2 DEF Channel!Put, Given
    <3>. QED BY <3>3 DEF Channel!Next
  <2>. QED BY <2>4, <2>5
<1>. QED BY <1>7, <1>8 DEF WriteCopy

(* A clear empties the channel, and the end of a call gives its buffers    *)
(* back.                                                                   *)
LEMMA IoctlClearStep ==
  ASSUME ChannelInv, TypeOK', NEW t \in Tasks, IoctlClear(t)
  PROVE  [Channel!Next]_(Channel!vars)
<1>1. pc[t] = "i_down" /\ UNCHANGED <<req, ubuf>> /\ Goto(t, "exit") /\ current_len' = 0
  BY DEF IoctlClear, callVars
<1>2. (\A u \in Tasks \ {t} : pc'[u] = pc[u] /\ req'[u] = req[u])
      /\ pc[t] \notin Writing /\ pc'[t] \notin Writing
  BY <1>1 DEF ChannelInv, TypeOK, Goto, Writing
<1>3. Given' = Given
  BY <1>2, GivenOfOthers DEF ChannelInv, Given
<1>4. Contents' = <<>>
  <2>1. Contents' \in Seq(Byte) /\ Len(Contents') = 0
    BY <1>1, ContentsSeqNext
  <2>. QED BY <2>1, EmptySeq
<1>5. Channel!Clear
  BY <1>1, <1>3, <1>4 DEF Channel!Clear, Given
<1>. QED BY <1>5 DEF Channel!Next

LEMMA ExitStep ==
  ASSUME ChannelInv, NEW t \in Tasks, Exit(t)
  PROVE  [Channel!Next]_(Channel!vars)
<1>1. /\ Contents' = Contents /\ ubuf' = [ubuf EXCEPT ![t] = <<>>]
      /\ pc'[t] \notin Writing
      /\ \A u \in Tasks \ {t} : pc'[u] = pc[u] /\ req'[u] = req[u]
  BY DEF Exit, fifoVars, Contents, Goto, Writing, ChannelInv, TypeOK
<1>. QED BY <1>1, ChannelReturns DEF ChannelInv

LEMMA ChannelInvInit == Init => ChannelInv
BY InitTyped DEF Init, ChannelInv, NothingTaken

LEMMA ChannelInvNext == ChannelInv /\ [Next]_vars => ChannelInv'
<1>1. ASSUME ChannelInv, Next PROVE ChannelInv'
  BY <1>1, StepTyped, StepArguments, StepTaken DEF ChannelInv, Next
<1>2. ASSUME ChannelInv, UNCHANGED vars PROVE ChannelInv'
  BY <1>2 DEF vars, ChannelInv, TypeOK, WriteArguments, NothingTaken
<1>. QED BY <1>1, <1>2

LEMMA ChannelStep ==
  ASSUME Upwards
  PROVE  ChannelInv /\ ChannelInv' /\ [Next]_vars => [Channel!Next]_(Channel!vars)
<1>1. ASSUME ChannelInv, ChannelInv', NEW t \in Tasks, Syscall(t) \/ Driver(t) \/ Signal(t)
      PROVE  [Channel!Next]_(Channel!vars)
  BY <1>1, Upwards, StepsStutter, WriteCallStep, WriteWaitStep, ReadCopyStep, WriteCopyStep,
     IoctlClearStep, ExitStep DEF ChannelInv, Syscall, Driver, Read, Write
<1>2. ASSUME UNCHANGED vars PROVE UNCHANGED Channel!vars
  BY <1>2 DEF vars, Channel!vars, Contents
<1>. QED BY <1>1, <1>2 DEF Next

(* The driver implements a fifo channel: every byte a read delivers is the *)
(* oldest one written and not yet delivered, whatever the other calls do.  *)
THEOREM DriverIsChannel ==
  ASSUME Upwards
  PROVE  Spec => ChannelSpec
BY Upwards, ChannelInvInit, ChannelInvNext, ChannelInit, ChannelStep, PTL
   DEF Spec, ChannelSpec
=============================================================================
