----------------------------- MODULE GlobalFifo -----------------------------
(***************************************************************************)
(* The globalfifo character device (code/08, and code/09 which adds        *)
(* asynchronous notification): a byte buffer guarded by a semaphore, with  *)
(* one wait queue for blocked readers and one for blocked writers, poll,   *)
(* and an ioctl that empties it.                                           *)
(*                                                                         *)
(* Every task runs one system call at a time; pc[t] names the place in the *)
(* driver it has reached.  A step is the code between two places where     *)
(* another task can be observed: taking or giving back the semaphore, the  *)
(* spin locks of the wait queues, and schedule().                          *)
(***************************************************************************)
EXTENDS Integers, Sequences, FiniteSets

CONSTANTS
  Tasks,           \* the processes that have the device open
  Free,            \* sem = Free: the semaphore's count is 1
  GLOBALFIFO_SIZE, \* length of dev->mem
  Byte,            \* the values of a byte; 0 is what memset stores
  Payloads,        \* the buffers a write may be called with
  Counts,          \* the lengths a read may be called with
  Modes,           \* values of (f_flags & O_NONBLOCK) # 0
  Cmds,            \* ioctl commands in use
  Wants,           \* event sets a select() may wait for
  Async,           \* TRUE: the code/09 driver, with async_queue
  MemcpyOrders     \* orders in which the build's memcpy may move bytes

FIFO_CLEAR == 1
EINTR       == 4
EAGAIN      == 11
EFAULT      == 14
EINVAL      == 22
ERESTARTSYS == 512

ASSUME FifoAssumption ==
  /\ Free \notin Tasks
  /\ GLOBALFIFO_SIZE \in Nat \ {0}
  /\ 0 \in Byte
  /\ Payloads \subseteq Seq(Byte)
  /\ Counts \subseteq Nat
  /\ Modes \subseteq BOOLEAN
  /\ Cmds \subseteq Nat
  /\ Wants \subseteq SUBSET {"in", "out"}
  /\ Async \in BOOLEAN
  /\ MemcpyOrders \subseteq {"ascending", "descending"}

VARIABLES
  sem,          \* who is inside down(&dev->sem) .. up(&dev->sem), or Free
  mem,          \* dev->mem
  current_len,  \* dev->current_len
  r_wait,       \* the tasks with an entry in dev->r_wait
  w_wait,       \* the tasks with an entry in dev->w_wait
  async_queue,  \* the tasks registered for SIGIO
  pc,           \* pc[t]: where in the driver t is
  tstate,       \* tstate[t]: current->state
  pending,      \* the tasks for which signal_pending(current) holds
  req,          \* req[t]: the arguments of the call t is in
  ret,          \* ret[t]: the call's return value, once set
  ubuf          \* ubuf[t]: the bytes copied to the user buffer of t

vars == <<sem, mem, current_len, r_wait, w_wait, async_queue, pc, tstate,
          pending, req, ret, ubuf>>
fifoVars == <<mem, current_len>>
callVars == <<req, ret, ubuf>>

Index == 0 .. GLOBALFIFO_SIZE - 1

(* The arguments of a call; a want belongs to select() only.               *)
Args(n, s, nb, want) == [count |-> n, buf |-> s, nonblock |-> nb, want |-> want]
NoReq == Args(0, <<>>, FALSE, {})

ReadLabels == {"r_down", "r_sleep", "r_sched", "r_redown", "r_copy", "r_wake",
               "r_waking", "r_up", "r_remove", "r_removing"}
WriteLabels == {"w_down", "w_sleep", "w_sched", "w_redown", "w_copy", "w_wake",
                "w_waking", "w_kill", "w_up", "w_remove", "w_removing"}
Labels == ReadLabels \cup WriteLabels
            \cup {"idle", "exit", "i_down", "p_down", "p_sched", "p_free"}

Goto(t, label) == pc' = [pc EXCEPT ![t] = label]
Result(t, v)   == ret' = [ret EXCEPT ![t] = v]

(* The two spin locks inside the wait queue heads, by who is where: a task *)
(* holds w_wait.lock while it walks w_wait or runs remove_wait_queue -     *)
(* read, too, names w_wait there - and r_wait.lock while it walks r_wait.  *)
WLockFree == \A u \in Tasks : pc[u] \notin {"r_waking", "r_removing", "w_removing"}
RLockFree == \A u \in Tasks : pc[u] # "w_waking"

(* Mutant: the wake-up is forgotten.                                       *)
Woken_nobody(q) == tstate

(* wake_up_interruptible on a queue whose entries belong to q.             *)
Woken(q) == [t \in Tasks |-> IF t \in q THEN "running" ELSE tstate[t]]

(* Mutant: the rest of the fifo is not moved to its front.                 *)
Shifted_not(n, len, order) == mem

(* memcpy(mem, mem + n, len): the ranges overlap when n < len.  Moving the *)
(* bytes upwards from the first shifts them; moving them downwards from    *)
(* the last reads source bytes that the copy itself has already replaced,  *)
(* so that what arrives at i is the byte that was at the first place       *)
(* len, len + 1, ... whose distance from i is a multiple of n.             *)
Shifted(n, len, order) ==
  [i \in Index |->
     IF i >= len \/ n = 0 THEN mem[i]
     ELSE IF order = "ascending" THEN mem[i + n]
     ELSE mem[len + ((i - len) % n)]]

(* copy_from_user(mem + at, s, Len(s)).                                    *)
Stored(at, s) ==
  [i \in Index |-> IF i \in at .. at + Len(s) - 1 THEN s[i - at + 1] ELSE mem[i]]

(* if (count > limit) count = limit.                                       *)
AtMost(a, b) == IF a <= b THEN a ELSE b
Space == GLOBALFIFO_SIZE - current_len

(* The bytes between the device and its readers, oldest first.             *)
Contents == [i \in 1 .. current_len |-> mem[i - 1]]

(* globalfifo_init: kmalloc, memset 0, semaphore count 1, empty queues.    *)
Init ==
  /\ sem = Free
  /\ mem = [i \in Index |-> 0]
  /\ current_len = 0
  /\ r_wait = {}
  /\ w_wait = {}
  /\ async_queue = {}
  /\ pc = [t \in Tasks |-> "idle"]
  /\ tstate = [t \in Tasks |-> "running"]
  /\ pending = {}
  /\ req = [t \in Tasks |-> NoReq]
  /\ ret = [t \in Tasks |-> 0]
  /\ ubuf = [t \in Tasks |-> <<>>]

-----------------------------------------------------------------------------
(* globalfifo_read.                                                        *)

ReadCall(t) ==
  /\ pc[t] = "idle"
  /\ \E n \in Counts, nb \in Modes :
       req' = [req EXCEPT ![t] = Args(n, <<>>, nb, {})]
  /\ Goto(t, "r_down")
  /\ UNCHANGED <<sem, fifoVars, r_wait, w_wait, async_queue, tstate, pending, ret, ubuf>>

(* down, add_wait_queue(&dev->r_wait), the test for an empty fifo and,     *)
(* before the semaphore is given back, the change of the task's state.     *)
ReadEnter(t) ==
  /\ pc[t] = "r_down"
  /\ sem = Free
  /\ RLockFree
  /\ sem' = t
  /\ r_wait' = r_wait \cup {t}
  /\ \/ /\ current_len # 0
        /\ Goto(t, "r_copy")
        /\ UNCHANGED <<ret, tstate>>
     \/ /\ current_len = 0 /\ req[t].nonblock
        /\ Result(t, -EAGAIN)
        /\ Goto(t, "r_up")
        /\ UNCHANGED tstate
     \/ /\ current_len = 0 /\ ~ req[t].nonblock
        /\ tstate' = [tstate EXCEPT ![t] = "interruptible"]
        /\ Goto(t, "r_sleep")
        /\ UNCHANGED ret
  /\ UNCHANGED <<fifoVars, w_wait, async_queue, pending, req, ubuf>>

(* Mutant: the reader goes to sleep with the semaphore.                    *)
ReadSleep_holding(t) ==
  /\ pc[t] = "r_sleep"
  /\ Goto(t, "r_sched")
  /\ UNCHANGED <<sem, fifoVars, r_wait, w_wait, async_queue, tstate, pending, callVars>>

(* up(&dev->sem), on the way to schedule().                                *)
ReadSleep(t) ==
  /\ pc[t] = "r_sleep"
  /\ sem' = Free
  /\ Goto(t, "r_sched")
  /\ UNCHANGED <<fifoVars, r_wait, w_wait, async_queue, tstate, pending, callVars>>

(* schedule() returns once the task is runnable; a pending signal makes it *)
(* so.  The driver looks at signal_pending before it looks at the fifo.    *)
ReadSchedule(t) ==
  /\ pc[t] = "r_sched"
  /\ tstate[t] = "running" \/ t \in pending
  /\ tstate' = [tstate EXCEPT ![t] = "running"]
  /\ IF t \in pending
       THEN Result(t, -ERESTARTSYS) /\ Goto(t, "r_remove")
       ELSE Goto(t, "r_redown") /\ UNCHANGED ret
  /\ UNCHANGED <<sem, fifoVars, r_wait, w_wait, async_queue, pending, req, ubuf>>

ReadRedown(t) ==
  /\ pc[t] = "r_redown"
  /\ sem = Free
  /\ sem' = t
  /\ Goto(t, "r_copy")
  /\ UNCHANGED <<fifoVars, r_wait, w_wait, async_queue, tstate, pending, callVars>>

ReadCopy(t) ==
  LET n == AtMost(req[t].count, current_len) IN
  /\ pc[t] = "r_copy"
  /\ \/ /\ Result(t, -EFAULT)
        /\ Goto(t, "r_up")
        /\ UNCHANGED <<fifoVars, ubuf>>
     \/ /\ ubuf' = [ubuf EXCEPT ![t] = SubSeq(Contents, 1, n)]
        /\ \E order \in MemcpyOrders : mem' = Shifted(n, current_len - n, order)
        /\ current_len' = current_len - n
        /\ Result(t, n)
        /\ Goto(t, "r_wake")
  /\ UNCHANGED <<sem, r_wait, w_wait, async_queue, tstate, pending, req>>

ReadWake(t) ==
  /\ pc[t] = "r_wake"
  /\ WLockFree
  /\ Goto(t, "r_waking")
  /\ UNCHANGED <<sem, fifoVars, r_wait, w_wait, async_queue, tstate, pending, callVars>>

(* Mutant: the reader wakes the readers.                                   *)
ReadWoken_readers(t) ==
  /\ pc[t] = "r_waking"
  /\ tstate' = Woken(r_wait)
  /\ Goto(t, "r_up")
  /\ UNCHANGED <<sem, fifoVars, r_wait, w_wait, async_queue, pending, callVars>>

(* The walk of w_wait, under its lock.                                     *)
ReadWoken(t) ==
  /\ pc[t] = "r_waking"
  /\ tstate' = Woken(w_wait)
  /\ Goto(t, "r_up")
  /\ UNCHANGED <<sem, fifoVars, r_wait, w_wait, async_queue, pending, callVars>>

ReadUp(t) ==
  /\ pc[t] = "r_up"
  /\ sem' = Free
  /\ Goto(t, "r_remove")
  /\ UNCHANGED <<fifoVars, r_wait, w_wait, async_queue, tstate, pending, callVars>>

(* remove_wait_queue(&dev->w_wait, &wait): w_wait's lock, but the entry it *)
(* unlinks is in r_wait.                                                   *)
ReadRemoveLock(t) ==
  /\ pc[t] = "r_remove"
  /\ WLockFree
  /\ Goto(t, "r_removing")
  /\ UNCHANGED <<sem, fifoVars, r_wait, w_wait, async_queue, tstate, pending, callVars>>

ReadRemove(t) ==
  /\ pc[t] = "r_removing"
  /\ r_wait' = r_wait \ {t}
  /\ tstate' = [tstate EXCEPT ![t] = "running"]
  /\ Goto(t, "exit")
  /\ UNCHANGED <<sem, fifoVars, w_wait, async_queue, pending, callVars>>

Read(t) ==
  \/ ReadEnter(t) \/ ReadSleep(t) \/ ReadSchedule(t) \/ ReadRedown(t)
  \/ ReadCopy(t) \/ ReadWake(t) \/ ReadWoken(t) \/ ReadUp(t)
  \/ ReadRemoveLock(t) \/ ReadRemove(t)

-----------------------------------------------------------------------------
(* globalfifo_write.                                                       *)

WriteCall(t) ==
  /\ pc[t] = "idle"
  /\ \E s \in Payloads, nb \in Modes :
       req' = [req EXCEPT ![t] = Args(Len(s), s, nb, {})]
  /\ Goto(t, "w_down")
  /\ UNCHANGED <<sem, fifoVars, r_wait, w_wait, async_queue, tstate, pending, ret, ubuf>>

WriteEnter(t) ==
  /\ pc[t] = "w_down"
  /\ sem = Free
  /\ WLockFree
  /\ sem' = t
  /\ w_wait' = w_wait \cup {t}
  /\ \/ /\ Space # 0
        /\ Goto(t, "w_copy")
        /\ UNCHANGED <<ret, tstate>>
     \/ /\ Space = 0 /\ req[t].nonblock
        /\ Result(t, -EAGAIN)
        /\ Goto(t, "w_up")
        /\ UNCHANGED tstate
     \/ /\ Space = 0 /\ ~ req[t].nonblock
        /\ tstate' = [tstate EXCEPT ![t] = "interruptible"]
        /\ Goto(t, "w_sleep")
        /\ UNCHANGED ret
  /\ UNCHANGED <<fifoVars, r_wait, async_queue, pending, req, ubuf>>

WriteSleep(t) ==
  /\ pc[t] = "w_sleep"
  /\ sem' = Free
  /\ Goto(t, "w_sched")
  /\ UNCHANGED <<fifoVars, r_wait, w_wait, async_queue, tstate, pending, callVars>>

(* Mutant: an interrupted writer returns without out2's remove_wait_queue. *)
WriteSchedule_leaves(t) ==
  /\ pc[t] = "w_sched"
  /\ tstate[t] = "running" \/ t \in pending
  /\ tstate' = [tstate EXCEPT ![t] = "running"]
  /\ IF t \in pending
       THEN Result(t, -ERESTARTSYS) /\ Goto(t, "exit")
       ELSE Goto(t, "w_redown") /\ UNCHANGED ret
  /\ UNCHANGED <<sem, fifoVars, r_wait, w_wait, async_queue, pending, req, ubuf>>

WriteSchedule(t) ==
  /\ pc[t] = "w_sched"
  /\ tstate[t] = "running" \/ t \in pending
  /\ tstate' = [tstate EXCEPT ![t] = "running"]
  /\ IF t \in pending
       THEN Result(t, -ERESTARTSYS) /\ Goto(t, "w_remove")
       ELSE Goto(t, "w_redown") /\ UNCHANGED ret
  /\ UNCHANGED <<sem, fifoVars, r_wait, w_wait, async_queue, pending, req, ubuf>>

WriteRedown(t) ==
  /\ pc[t] = "w_redown"
  /\ sem = Free
  /\ sem' = t
  /\ Goto(t, "w_copy")
  /\ UNCHANGED <<fifoVars, r_wait, w_wait, async_queue, tstate, pending, callVars>>

(* A faulting copy_from_user may have stored a part of the buffer above    *)
(* current_len before it stopped.                                          *)
WriteCopy(t) ==
  LET n == AtMost(req[t].count, Space) IN
  /\ pc[t] = "w_copy"
  /\ \/ /\ \E k \in 0 .. n : mem' = Stored(current_len, SubSeq(req[t].buf, 1, k))
        /\ Result(t, -EFAULT)
        /\ Goto(t, "w_up")
        /\ UNCHANGED current_len
     \/ /\ mem' = Stored(current_len, SubSeq(req[t].buf, 1, n))
        /\ current_len' = current_len + n
        /\ Result(t, n)
        /\ Goto(t, "w_wake")
  /\ UNCHANGED <<sem, r_wait, w_wait, async_queue, tstate, pending, req, ubuf>>

WriteWake(t) ==
  /\ pc[t] = "w_wake"
  /\ RLockFree
  /\ Goto(t, "w_waking")
  /\ UNCHANGED <<sem, fifoVars, r_wait, w_wait, async_queue, tstate, pending, callVars>>

WriteWoken(t) ==
  /\ pc[t] = "w_waking"
  /\ tstate' = Woken(r_wait)
  /\ Goto(t, IF Async THEN "w_kill" ELSE "w_up")
  /\ UNCHANGED <<sem, fifoVars, r_wait, w_wait, async_queue, pending, callVars>>

(* kill_fasync, in code/09: SIGIO becomes pending for every registered     *)
(* task that is in a call, and wakes it; one that is in user space handles *)
(* the signal there.                                                       *)
WriteKill(t) ==
  LET signalled == {u \in async_queue : pc[u] # "idle"} IN
  /\ pc[t] = "w_kill"
  /\ tstate' = Woken(signalled)
  /\ pending' = pending \cup signalled
  /\ Goto(t, "w_up")
  /\ UNCHANGED <<sem, fifoVars, r_wait, w_wait, async_queue, callVars>>

WriteUp(t) ==
  /\ pc[t] = "w_up"
  /\ sem' = Free
  /\ Goto(t, "w_remove")
  /\ UNCHANGED <<fifoVars, r_wait, w_wait, async_queue, tstate, pending, callVars>>

WriteRemoveLock(t) ==
  /\ pc[t] = "w_remove"
  /\ WLockFree
  /\ Goto(t, "w_removing")
  /\ UNCHANGED <<sem, fifoVars, r_wait, w_wait, async_queue, tstate, pending, callVars>>

WriteRemove(t) ==
  /\ pc[t] = "w_removing"
  /\ w_wait' = w_wait \ {t}
  /\ tstate' = [tstate EXCEPT ![t] = "running"]
  /\ Goto(t, "exit")
  /\ UNCHANGED <<sem, fifoVars, r_wait, async_queue, pending, callVars>>

Write(t) ==
  \/ WriteEnter(t) \/ WriteSleep(t) \/ WriteSchedule(t) \/ WriteRedown(t)
  \/ WriteCopy(t) \/ WriteWake(t) \/ WriteWoken(t) \/ WriteKill(t) \/ WriteUp(t)
  \/ WriteRemoveLock(t) \/ WriteRemove(t)

-----------------------------------------------------------------------------
(* globalfifo_ioctl, globalfifo_poll and globalfifo_fasync.                *)

IoctlCall(t) ==
  /\ pc[t] = "idle"
  /\ \E cmd \in Cmds :
       IF cmd = FIFO_CLEAR
         THEN Goto(t, "i_down") /\ UNCHANGED ret
         ELSE Result(t, -EINVAL) /\ Goto(t, "exit")
  /\ UNCHANGED <<sem, fifoVars, r_wait, w_wait, async_queue, tstate, pending, req, ubuf>>

(* down, current_len = 0, memset, up: nobody is woken.                     *)
IoctlClear(t) ==
  /\ pc[t] = "i_down"
  /\ sem = Free
  /\ current_len' = 0
  /\ mem' = [i \in Index |-> 0]
  /\ Goto(t, "exit")
  /\ UNCHANGED <<sem, r_wait, w_wait, async_queue, tstate, pending, callVars>>

PollMask ==
  {e \in {"in", "out"} : (e = "in" /\ current_len # 0) \/ (e = "out" /\ Space # 0)}

PollCall(t) ==
  /\ pc[t] = "idle"
  /\ \E want \in Wants : req' = [req EXCEPT ![t] = Args(0, <<>>, FALSE, want)]
  /\ Goto(t, "p_down")
  /\ UNCHANGED <<sem, fifoVars, r_wait, w_wait, async_queue, tstate, pending, ret, ubuf>>

(* down, poll_wait on both queues, the mask, up.  select() then goes to    *)
(* sleep unless the mask has an event it asked for.                        *)
Poll(t) ==
  /\ pc[t] = "p_down"
  /\ sem = Free
  /\ RLockFree /\ WLockFree
  /\ r_wait' = r_wait \cup {t}
  /\ w_wait' = w_wait \cup {t}
  /\ IF PollMask \cap req[t].want # {}
       THEN Result(t, 1) /\ Goto(t, "p_free") /\ UNCHANGED tstate
       ELSE /\ tstate' = [tstate EXCEPT ![t] = "interruptible"]
            /\ Goto(t, "p_sched")
            /\ UNCHANGED ret
  /\ UNCHANGED <<sem, fifoVars, async_queue, pending, req, ubuf>>

(* select() wakes up: a signal ends it, anything else polls again.         *)
PollSchedule(t) ==
  /\ pc[t] = "p_sched"
  /\ tstate[t] = "running" \/ t \in pending
  /\ tstate' = [tstate EXCEPT ![t] = "running"]
  /\ IF t \in pending
       THEN Result(t, -EINTR) /\ Goto(t, "p_free")
       ELSE Goto(t, "p_down") /\ UNCHANGED ret
  /\ UNCHANGED <<sem, fifoVars, r_wait, w_wait, async_queue, pending, req, ubuf>>

PollFree(t) ==
  /\ pc[t] = "p_free"
  /\ RLockFree /\ WLockFree
  /\ r_wait' = r_wait \ {t}
  /\ w_wait' = w_wait \ {t}
  /\ Goto(t, "exit")
  /\ UNCHANGED <<sem, fifoVars, async_queue, tstate, pending, callVars>>

(* fcntl(F_SETFL) with or without FASYNC: fasync_helper adds or removes.   *)
Fasync(t) ==
  /\ Async
  /\ pc[t] = "idle"
  /\ async_queue' = IF t \in async_queue THEN async_queue \ {t} ELSE async_queue \cup {t}
  /\ UNCHANGED <<sem, fifoVars, r_wait, w_wait, pc, tstate, pending, callVars>>

-----------------------------------------------------------------------------
(* The kernel around the driver: a signal arrives and wakes an             *)
(* interruptible sleeper; a call returns to user space, where pending      *)
(* signals are handled.                                                    *)

Signal(t) ==
  /\ pc[t] # "idle"
  /\ t \notin pending
  /\ pending' = pending \cup {t}
  /\ tstate' = [tstate EXCEPT ![t] = "running"]
  /\ UNCHANGED <<sem, fifoVars, r_wait, w_wait, async_queue, pc, callVars>>

Exit(t) ==
  /\ pc[t] = "exit"
  /\ pending' = pending \ {t}
  /\ req' = [req EXCEPT ![t] = NoReq]
  /\ ret' = [ret EXCEPT ![t] = 0]
  /\ ubuf' = [ubuf EXCEPT ![t] = <<>>]
  /\ Goto(t, "idle")
  /\ UNCHANGED <<sem, fifoVars, r_wait, w_wait, async_queue, tstate>>

Syscall(t) == ReadCall(t) \/ WriteCall(t) \/ IoctlCall(t) \/ PollCall(t) \/ Fasync(t)
Driver(t) == Read(t) \/ Write(t) \/ IoctlClear(t) \/ Poll(t) \/ PollSchedule(t)
               \/ PollFree(t) \/ Exit(t)

Next == \E t \in Tasks : Syscall(t) \/ Driver(t) \/ Signal(t)

Spec == Init /\ [][Next]_vars

(* A task inside the driver keeps running, and down() serves its waiters   *)
(* in order: a task that waits for the semaphore again and again finds it  *)
(* free gets it.  Nothing forces a task to make a call.                    *)
Fairness ==
  \A t \in Tasks :
    /\ WF_vars(Driver(t))
    /\ SF_vars(ReadEnter(t) \/ ReadRedown(t) \/ WriteEnter(t) \/ WriteRedown(t)
                 \/ IoctlClear(t) \/ Poll(t))
    /\ SF_vars(ReadWake(t) \/ ReadRemoveLock(t) \/ WriteRemoveLock(t) \/ PollFree(t))

FairSpec == Spec /\ Fairness

-----------------------------------------------------------------------------
(* Properties.                                                             *)

InDriver == {t \in Tasks : pc[t] \notin {"idle", "exit"}}

(* The state of the driver is well formed: in particular current_len never *)
(* leaves 0 .. GLOBALFIFO_SIZE, whatever the interleaving of the calls.    *)
TypeOK ==
  /\ sem \in Tasks \cup {Free}
  /\ mem \in [Index -> Byte]
  /\ current_len \in 0 .. GLOBALFIFO_SIZE
  /\ r_wait \subseteq Tasks /\ w_wait \subseteq Tasks /\ async_queue \subseteq Tasks
  /\ pc \in [Tasks -> Labels]
  /\ tstate \in [Tasks -> {"running", "interruptible"}]
  /\ pending \subseteq Tasks
  /\ req \in [Tasks -> [count : Nat, buf : Seq(Byte), nonblock : BOOLEAN,
                        want : SUBSET {"in", "out"}]]
  /\ ret \in [Tasks -> Int]
  /\ ubuf \in [Tasks -> Seq(Byte)]

(* The places between down and up.                                         *)
Critical == {"r_sleep", "r_copy", "r_wake", "r_waking", "r_up",
             "w_sleep", "w_copy", "w_wake", "w_waking", "w_kill", "w_up"}

(* The semaphore is held by exactly the task that is between down and up:  *)
(* none sleeps in schedule() or leaves the driver holding it, and two are  *)
(* never inside together.                                                  *)
SemaphoreHeld == \A t \in Tasks : sem = t <=> pc[t] \in Critical

(* The wait queue entries live on the stack of the call (DECLARE_WAITQUEUE *)
(* in read and write, the poll table in select): a task whose call is over *)
(* has no entry left in either queue, on whichever path it left.           *)
NoDanglingEntry == \A t \in r_wait \cup w_wait : t \in InDriver

(* A task sleeps in schedule() until event e.                              *)
SleepsFor(t, e) ==
  /\ tstate[t] = "interruptible"
  /\ \/ e = "in" /\ pc[t] = "r_sched"
     \/ e = "out" /\ pc[t] = "w_sched"
     \/ pc[t] = "p_sched" /\ e \in req[t].want

(* No lost wake-up: while a task sleeps until the fifo is not empty and it *)
(* is not, the writer that filled it is about to wake r_wait.              *)
ReadersWoken ==
  (\E t \in Tasks : SleepsFor(t, "in")) /\ current_len # 0
     => \E u \in Tasks : pc[u] \in {"w_wake", "w_waking"}

(* The same for tasks that sleep until the fifo is not full.               *)
WritersWoken ==
  (\E t \in Tasks : SleepsFor(t, "out")) /\ Space # 0
     => \E u \in Tasks : pc[u] \in {"r_wake", "r_waking"}

(* A blocking read of at least one byte that ends without an error has     *)
(* waited until there was something to read: it returns at least one byte. *)
BlockingReadHasData ==
  \A t \in Tasks :
    pc[t] = "r_remove" /\ ret[t] >= 0 /\ req[t].count > 0 => ret[t] > 0

(* A write that has not reached its copy_from_user yet.                    *)
Writing == {"w_down", "w_sleep", "w_sched", "w_redown", "w_copy"}

(* The driver implements a fifo channel of GLOBALFIFO_SIZE bytes: every    *)
(* byte a read delivers is the oldest one written and not yet delivered,   *)
(* calls that fail leave the contents alone, and nothing else changes them.*)
Channel == INSTANCE FifoChannel WITH
  Capacity <- GLOBALFIFO_SIZE,
  queue <- Contents,
  given <- [t \in Tasks |-> IF pc[t] \in Writing THEN req[t].buf ELSE <<>>],
  taken <- ubuf
ChannelSpec == Channel!Init /\ [][Channel!Next]_(Channel!vars)

(* A non-blocking call always comes back, whatever the other tasks do: the *)
(* semaphore it needs is never kept by a task that waits for data. And a   *)
(* blocked reader does not sleep on while there is something to read.      *)
CallsProceed ==
  \A t \in Tasks :
    /\ pc[t] # "idle" /\ req[t].nonblock ~> pc[t] = "idle"
    /\ pc[t] = "r_sched" /\ current_len # 0 ~> pc[t] # "r_sched"
=============================================================================
