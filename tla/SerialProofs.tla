---------------------------- MODULE SerialProofs ----------------------------
(***************************************************************************)
(* Theorems about SerialCore over S3cUart, for any finite set of tasks,    *)
(* any lengths and settings, and any sizes of buffer and FIFO: the port's  *)
(* life and its openers first, then the transmit buffer and the            *)
(* transmitter that empties it.                                            *)
(***************************************************************************)
EXTENDS SerialCore, FiniteSetTheorems, TLAPS

(* Where state->mutex is held, and where by the last close.                *)
Held == {"o_ready", "c_drain", "c_sent", "c_free", "s_free", "s_start"}
Closing == {"c_drain", "c_sent", "c_free"}
Blocked == {t \in Tasks : pc[t] \in {"o_ready", "o_wait"}}

(* The values of the port's state; what is a flag needs no more.           *)
PortType ==
  /\ mutex \in Tasks \cup {Eventd, Free}
  /\ count \in Nat /\ blocked_open \in Nat
  /\ flags \subseteq {"INITIALIZED", "NORMAL_ACTIVE", "CTS_FLOW", "CHECK_CD"}
  /\ cflag \subseteq {"CLOCAL", "CRTSCTS"}
  /\ hangup \in {"none", "queued", "h_lock", "h_free"}
  /\ ldisc \in {"none", "flush"}
  /\ file \in [Tasks -> {"none", "live", "hung"}]
  /\ pc \in [Tasks -> Labels]
  /\ asleep \subseteq Tasks

(* state->mutex is held by the task, or by the hangup, that is where it is *)
(* held; a hangup that waits for it finds no call under the kernel lock.   *)
MutexHeld ==
  /\ \A t \in Tasks : pc[t] \in Held <=> mutex = t
  /\ hangup = "h_free" <=> mutex = Eventd
  /\ hangup = "h_lock" =>
       \A t \in Tasks : pc[t] \notin {"o_ready", "s_free", "s_start", "m_on", "m_off"}

FilesKept ==
  /\ \A t \in Tasks : file[t] = "none" => pc[t] = "idle"
  /\ \A t \in Tasks : pc[t] \in {"s_free", "s_start", "m_on", "m_off"} => file[t] = "live"
  /\ suspended => hangup = "none" /\ ldisc = "none" /\ \A t \in Tasks : pc[t] = "idle"

(* A started port has its interrupts, unless the system sleeps, and its    *)
(* buffer and tty; it is not started between a shutdown and what follows.  *)
Started ==
  /\ claimed => Initialized
  /\ Initialized => buf /\ tty
  /\ Initialized /\ ~ suspended => claimed
  /\ tlet => tty
  /\ \A t \in Tasks : pc[t] \in {"c_free", "s_free", "s_start"} => ~ Initialized
  /\ hangup = "h_free" => ~ Initialized

(* A user has a tty, or is closing; the last close, a hangup and a         *)
(* reconfiguration are alone with the port.                                *)
UsersKept ==
  /\ \A t \in Users : pc[t] # "c_lock" => tty
  /\ \A t \in Tasks : pc[t] \in Closing => Users = {}
  /\ \A t \in Tasks : pc[t] = "s_free" => Users = {t} /\ Blocked = {}
  /\ hangup \in {"h_lock", "h_free"} => Users = {}

WritersStarted == \A t \in Writers : file[t] = "live" => Initialized

Counted ==
  /\ Cardinality(Users) <= count
  /\ blocked_open = Cardinality(Blocked)

(* TTY_IO_ERROR tells every open file that its port is not started.        *)
ErrorTold == Initialized \/ io_error \/ \A t \in Tasks : file[t] # "live" \/ pc[t] = "o_get"

CarrierAsked == "CHECK_CD" \in flags <=> "CLOCAL" \notin cflag

PortInv ==
  /\ PortType /\ MutexHeld /\ FilesKept /\ Started /\ UsersKept /\ WritersStarted
  /\ Counted /\ ErrorTold /\ CarrierAsked

-----------------------------------------------------------------------------
(* Sets of tasks are finite.                                               *)
LEMMA TasksCounted ==
  ASSUME NEW S \in SUBSET Tasks
  PROVE  IsFiniteSet(S) /\ Cardinality(S) \in Nat /\ (Cardinality(S) = 0 <=> S = {})
BY SerialAssumption, FS_Subset, FS_CardinalityType, FS_EmptySet

(* A set of tasks that only t joins or leaves.                             *)
LEMMA OneCounted ==
  ASSUME NEW S \in SUBSET Tasks, NEW T \in SUBSET Tasks, NEW t \in Tasks,
         S \ {t} = T \ {t}
  PROVE  /\ t \in S /\ t \notin T => T = S \ {t} /\ Cardinality(T) = Cardinality(S) - 1
         /\ t \notin S /\ t \in T => T = S \cup {t} /\ Cardinality(T) = Cardinality(S) + 1
         /\ (t \in S <=> t \in T) => T = S
<1>1. CASE t \in S /\ t \notin T
  <2>1. T = S \ {t}
    BY <1>1
  <2>. QED BY <1>1, <2>1, TasksCounted, FS_RemoveElement
<1>2. CASE t \notin S /\ t \in T
  <2>1. T = S \cup {t}
    BY <1>2
  <2>. QED BY <1>2, <2>1, TasksCounted, FS_AddElement
<1>3. CASE t \in S <=> t \in T
  BY <1>3
<1>. QED BY <1>1, <1>2, <1>3

(* What a step of t does to the users and the blocked openers.             *)
OneMoved(t) ==
  /\ t \in Users /\ t \notin Users' =>
       Users' = Users \ {t} /\ Cardinality(Users') = Cardinality(Users) - 1
  /\ t \notin Users /\ t \in Users' =>
       Users' = Users \cup {t} /\ Cardinality(Users') = Cardinality(Users) + 1
  /\ (t \in Users <=> t \in Users') => Users' = Users
  /\ t \in Blocked /\ t \notin Blocked' => Cardinality(Blocked') = Cardinality(Blocked) - 1
  /\ t \notin Blocked /\ t \in Blocked' => Cardinality(Blocked') = Cardinality(Blocked) + 1
  /\ (t \in Blocked <=> t \in Blocked') => Blocked' = Blocked
  /\ Cardinality(Users) \in Nat /\ Cardinality(Blocked) \in Nat /\ Cardinality(Blocked') \in Nat
  /\ Users \subseteq Tasks /\ Users' \subseteq Tasks

(* A step of task t changes pc and file of t alone.                        *)
LEMMA OneMoves ==
  ASSUME NEW t \in Tasks, \A u \in Tasks \ {t} : pc'[u] = pc[u] /\ file'[u] = file[u]
  PROVE  OneMoved(t)
<1>1. /\ Users \in SUBSET Tasks /\ Users' \in SUBSET Tasks
      /\ Blocked \in SUBSET Tasks /\ Blocked' \in SUBSET Tasks
  BY DEF Users, LiveTasks, Blocked
<1>2. Users \ {t} = Users' \ {t} /\ Blocked \ {t} = Blocked' \ {t}
  BY DEF Users, LiveTasks, Blocked
<1>3. Cardinality(Users) \in Nat /\ Cardinality(Blocked) \in Nat /\ Cardinality(Blocked') \in Nat
  BY <1>1, TasksCounted
<1>. HIDE DEF Users, Blocked
<1>4. /\ t \in Users /\ t \notin Users' =>
           Users' = Users \ {t} /\ Cardinality(Users') = Cardinality(Users) - 1
      /\ t \notin Users /\ t \in Users' =>
           Users' = Users \cup {t} /\ Cardinality(Users') = Cardinality(Users) + 1
      /\ (t \in Users <=> t \in Users') => Users' = Users
  BY <1>1, <1>2, OneCounted
<1>5. /\ t \in Blocked /\ t \notin Blocked' =>
           Blocked' = Blocked \ {t} /\ Cardinality(Blocked') = Cardinality(Blocked) - 1
      /\ t \notin Blocked /\ t \in Blocked' =>
           Blocked' = Blocked \cup {t} /\ Cardinality(Blocked') = Cardinality(Blocked) + 1
      /\ (t \in Blocked <=> t \in Blocked') => Blocked' = Blocked
  BY <1>1, <1>2, OneCounted
<1>. QED BY <1>1, <1>3, <1>4, <1>5 DEF OneMoved

(* The port starts unopened, which the invariant allows.                   *)
LEMMA PortInit == Init => PortInv
<1>. SUFFICES ASSUME Init PROVE PortInv
  OBVIOUS
<1>1. Users = {} /\ Blocked = {} /\ Writers = {}
  BY DEF Init, Users, LiveTasks, Blocked, Writers
<1>2. Cardinality(Users) = 0 /\ Cardinality(Blocked) = 0
  BY <1>1, FS_EmptySet
<1>3. Counted
  BY <1>2 DEF Counted, Init
<1>4. PortType
  BY DEF Init, InitUart, PortType, Labels
<1>5. MutexHeld /\ FilesKept /\ Started
  BY SerialAssumption DEF Init, InitUart, MutexHeld, Held, FilesKept, Started, Initialized
<1>6. UsersKept /\ WritersStarted /\ ErrorTold /\ CarrierAsked
  BY <1>1 DEF Init, UsersKept, WritersStarted, ErrorTold, CarrierAsked, Closing
<1>. QED BY <1>3, <1>4, <1>5, <1>6 DEF PortInv

-----------------------------------------------------------------------------
(* Steps that neither the port's state nor the tasks' places depend on.    *)
Quietly ==
  \/ Tasklet \/ FlushBuffer \/ PutChar \/ FlushChars \/ StopTty \/ StartTty
  \/ SendXchar \/ TakeBackXchar \/ TransmitIrq \/ Hardware \/ CtsChange

(* What the steps that only move bytes and flags leave alone.              *)
LEMMA QuietEffect ==
  ASSUME Quietly
  PROVE  UNCHANGED <<buf, claimed, rx_enabled, portVars, cflag, carrier, mutex, hangup, suspended,
                     file, nonblock, pc>>
<1>. USE DEF portVars, ringVars, irqVars, lineVars, restVars, taskVars
<1>1. CASE Tasklet BY <1>1 DEF Tasklet
<1>2. CASE FlushBuffer BY <1>2 DEF FlushBuffer
<1>3. CASE PutChar \/ FlushChars BY <1>3 DEF PutChar, FlushChars
<1>4. CASE StopTty \/ StartTty BY <1>4 DEF StopTty, StartTty, uartVars
<1>5. CASE SendXchar \/ TakeBackXchar BY <1>5 DEF SendXchar, TakeBackXchar
<1>6. CASE TransmitIrq \/ Hardware BY <1>6 DEF TransmitIrq, TxChars, Hardware
<1>7. CASE CtsChange BY <1>7 DEF CtsChange
<1>. QED BY <1>1, <1>2, <1>3, <1>4, <1>5, <1>6, <1>7 DEF Quietly

(* They keep the invariant.                                                *)
LEMMA QuietSteps == ASSUME PortInv, ~ suspended, Quietly PROVE PortInv'
<1>1. UNCHANGED <<buf, claimed, rx_enabled, portVars, cflag, carrier, mutex, hangup, suspended,
                  file, nonblock, pc>>
  BY QuietEffect
<1>2. PortType'
  <2>. USE <1>1 DEF PortInv, PortType, portVars, ringVars, irqVars, lineVars, restVars, taskVars
  <2>1. CASE Tasklet BY <2>1 DEF Tasklet
  <2>2. CASE FlushBuffer BY <2>2 DEF FlushBuffer
  <2>3. CASE PutChar BY <2>3 DEF PutChar
  <2>4. CASE FlushChars BY <2>4 DEF FlushChars, UartStart, StartTx
  <2>5. CASE StopTty \/ StartTty BY <2>5 DEF StopTty, StartTty, StopTx, uartVars
  <2>6. CASE SendXchar \/ TakeBackXchar BY <2>6 DEF SendXchar, TakeBackXchar, StartTx
  <2>7. CASE TransmitIrq BY <2>7 DEF TransmitIrq, TxChars, StopTx
  <2>8. CASE Hardware BY <2>8 DEF Hardware
  <2>9. CASE CtsChange BY <2>9 DEF CtsChange, StartTx, StopTx
  <2>. QED BY <2>1, <2>2, <2>3, <2>4, <2>5, <2>6, <2>7, <2>8, <2>9 DEF Quietly
<1>3. tlet' => tlet \/ claimed
  BY DEF Quietly, Tasklet, FlushBuffer, PutChar, FlushChars, StopTty, StartTty, SendXchar,
         TakeBackXchar, TransmitIrq, TxChars, TxIrq, Hardware, CtsChange, irqVars, uartVars
<1>4. Users' = Users /\ Blocked' = Blocked /\ Writers' = Writers
  BY <1>1 DEF Users, LiveTasks, Blocked, Writers
<1>5. MutexHeld' /\ FilesKept' /\ ErrorTold' /\ CarrierAsked'
  BY <1>1 DEF portVars, PortInv, MutexHeld, FilesKept, ErrorTold, CarrierAsked, Initialized
<1>6. Started' /\ UsersKept' /\ WritersStarted' /\ Counted'
  BY <1>1, <1>3, <1>4 DEF portVars, PortInv, Started, UsersKept, WritersStarted, Counted, Initialized
<1>. QED BY <1>2, <1>5, <1>6 DEF PortInv

-----------------------------------------------------------------------------
(* uart_startup starts the port with its buffer, or sets TTY_IO_ERROR.     *)
LEMMA StartupEffect ==
  ASSUME PortType, CarrierAsked, Started, NEW init_hw, Startup(init_hw)
  PROVE  /\ flags' \subseteq {"INITIALIZED", "NORMAL_ACTIVE", "CTS_FLOW", "CHECK_CD"}
         /\ "CHECK_CD" \in flags' <=> "CLOCAL" \notin cflag
         /\ Initialized => UNCHANGED <<buf, claimed, flags, io_error>>
         /\ ~ Initialized => /\ Initialized' => buf'
                             /\ (claimed' <=> Initialized') /\ (io_error' <=> ~ Initialized')
         /\ tlet' = tlet
<1>1. CASE Initialized
  BY <1>1 DEF Startup, PortType, CarrierAsked, uartVars
<1>2. CASE ~ Initialized
  <2>1. \/ UNCHANGED <<buf, claimed, flags>> /\ io_error' = TRUE
        \/ /\ buf' = TRUE
           /\ \E ok \in Startups :
                /\ StartupUart(ok)
                /\ io_error' = ~ ok
                /\ IF ok
                     THEN LET f == IF init_hw /\ tty THEN ChangedSpeed(flags, cflag) ELSE flags
                          IN  flags' = f \cup {"INITIALIZED"}
                     ELSE UNCHANGED flags
    <3>1. CASE /\ io_error' = TRUE
               /\ UNCHANGED <<buf, head, tail, mem, line, claimed, tx_enabled, rx_enabled,
                              flags, hw_stopped>>
      BY <3>1
    <3>2. CASE /\ FreshBuffer
               /\ \E ok \in Startups :
                    /\ StartupUart(ok)
                    /\ io_error' = ~ ok
                    /\ IF ok
                         THEN LET f == IF init_hw /\ tty THEN ChangedSpeed(flags, cflag) ELSE flags
                              IN  /\ flags' = f \cup {"INITIALIZED"}
                                  /\ hw_stopped' = (hw_stopped \/ ("CTS_FLOW" \in f /\ ~ cts))
                         ELSE UNCHANGED <<flags, hw_stopped>>
      <4>1. buf' = TRUE
        BY <3>2 DEF FreshBuffer
      <4>. QED BY <3>2, <4>1
    <3>. QED BY <1>2, <3>1, <3>2 DEF Startup
  <2>2. tlet' = tlet
    BY <1>2 DEF Startup
  <2>3. CASE UNCHANGED <<buf, claimed, flags>> /\ io_error' = TRUE
    BY <1>2, <2>2, <2>3 DEF Initialized, Started, PortType, CarrierAsked
  <2>4. ASSUME buf' = TRUE, NEW ok \in Startups,
               StartupUart(ok), io_error' = ~ ok,
               IF ok
                 THEN LET f == IF init_hw /\ tty THEN ChangedSpeed(flags, cflag) ELSE flags
                      IN  flags' = f \cup {"INITIALIZED"}
                 ELSE UNCHANGED flags
        PROVE  /\ flags' \subseteq {"INITIALIZED", "NORMAL_ACTIVE", "CTS_FLOW", "CHECK_CD"}
               /\ "CHECK_CD" \in flags' <=> "CLOCAL" \notin cflag
               /\ (claimed' <=> Initialized') /\ (io_error' <=> ~ Initialized')
    <3>1. claimed' = ok
      BY <2>4 DEF StartupUart
    <3>2. CASE ok
      BY <1>2, <2>4, <3>1, <3>2 DEF Initialized, ChangedSpeed, PortType, CarrierAsked
    <3>3. CASE ~ ok
      BY <1>2, <2>4, <3>1, <3>3 DEF Initialized, PortType, CarrierAsked
    <3>. QED BY <3>2, <3>3
  <2>. QED BY <1>2, <2>1, <2>2, <2>3, <2>4
<1>. QED BY <1>1, <1>2

(* uart_get, up to the loop of uart_block_til_ready.                       *)
LEMMA OpenGetPort == ASSUME PortInv, NEW t \in Tasks, ~ suspended, OpenGet(t) PROVE PortInv'
<1>1. /\ pc[t] = "o_get" /\ file[t] = "live" /\ mutex = Free /\ hangup # "h_lock"
      /\ \A u \in Tasks : pc[u] \notin {"o_ready", "c_free", "s_free", "s_start", "m_on", "m_off"}
      /\ tty' = TRUE
      /\ UNCHANGED <<cflag, hangup, suspended, ldisc, file, asleep>>
      /\ Startup(FALSE)
  BY DEF OpenGet, MutexFree, BklFree
<1>2. \/ /\ io_error' /\ ~ Initialized
         /\ count' = count + 1 /\ pc' = [pc EXCEPT ![t] = "c_lock"]
         /\ UNCHANGED <<blocked_open, mutex>>
      \/ /\ blocked_open' = blocked_open + 1 /\ mutex' = t /\ pc' = [pc EXCEPT ![t] = "o_ready"]
         /\ UNCHANGED count
  BY DEF OpenGet, Goto
<1>. USE DEF PortInv
<1>3. /\ flags' \subseteq {"INITIALIZED", "NORMAL_ACTIVE", "CTS_FLOW", "CHECK_CD"}
      /\ CarrierAsked'
      /\ Initialized => UNCHANGED <<buf, claimed, flags, io_error>>
      /\ ~ Initialized => /\ Initialized' => buf'
                          /\ (claimed' <=> Initialized') /\ (io_error' <=> ~ Initialized')
      /\ tlet' = tlet
  BY <1>1, StartupEffect DEF CarrierAsked
<1>4. PortType'
  BY <1>1, <1>2, <1>3 DEF PortType, Labels
<1>5. MutexHeld'
  BY <1>1, <1>2, SerialAssumption DEF MutexHeld, PortType, Held
<1>6. FilesKept'
  BY <1>1, <1>2 DEF FilesKept, PortType
<1>7. Started'
  BY <1>1, <1>2, <1>3, SerialAssumption DEF Started, Initialized, PortType, MutexHeld
<1>8. /\ t \notin Users /\ t \notin Blocked /\ Writers' = Writers
      /\ t \in Users' <=> pc'[t] = "c_lock"
      /\ t \in Blocked' <=> pc'[t] = "o_ready"
  BY <1>1, <1>2 DEF Users, LiveTasks, Blocked, Writers, PortType
<1>9. UsersKept'
  BY <1>1, <1>2, SerialAssumption DEF UsersKept, MutexHeld, Held, Closing, PortType
<1>10. Counted'
  <2>1. \A u \in Tasks \ {t} : pc'[u] = pc[u] /\ file'[u] = file[u]
    BY <1>1, <1>2 DEF PortType
  <2>2. pc'[t] \in {"c_lock", "o_ready"} /\ (pc'[t] = "c_lock" => count' = count + 1 /\ UNCHANGED blocked_open)
        /\ (pc'[t] = "o_ready" => blocked_open' = blocked_open + 1 /\ UNCHANGED count)
    BY <1>2 DEF PortType
  <2>. QED BY <1>8, <2>1, <2>2, OneMoves DEF OneMoved, Counted, PortType
<1>11. WritersStarted' /\ ErrorTold'
  BY <1>1, <1>3, <1>8 DEF WritersStarted, ErrorTold, Initialized
<1>. QED BY <1>3, <1>4, <1>5, <1>6, <1>7, <1>9, <1>10, <1>11

(* A task goes on where the mutex and the counts do not change.            *)
WritePlaces == {"w_check", "w_copy", "w_start", "w_block"}
coreVars == <<buf, claimed, portVars, cflag, hangup, suspended, ldisc, tlet>>

(* A task moves between two stages that claim nothing of the port.         *)
LEMMA SimpleMove ==
  ASSUME PortInv, ~ suspended, NEW t \in Tasks, NEW l \in Labels,
         pc' = [pc EXCEPT ![t] = l], UNCHANGED <<coreVars, mutex, file>>, asleep' \subseteq Tasks,
         file[t] # "none",
         \/ pc[t] = "c_drain" /\ l = "c_sent"
         \/ pc[t] \in {"idle", "m_on", "m_off"} \cup WritePlaces /\ l \in {"idle", "c_lock"} \cup WritePlaces,
         pc[t] \notin WritePlaces /\ l \in WritePlaces /\ file[t] = "live" => Initialized
  PROVE  PortInv'
<1>. USE DEF PortInv, coreVars, portVars
<1>1. \A u \in Tasks \ {t} : pc'[u] = pc[u] /\ file'[u] = file[u]
  BY DEF PortType
<1>2. pc'[t] = l
  BY DEF PortType
<1>3. (t \in Users' <=> t \in Users) /\ t \notin Blocked /\ t \notin Blocked'
  BY <1>2 DEF Users, LiveTasks, Blocked, WritePlaces
<1>4. Users' = Users /\ Blocked' = Blocked
  BY <1>1, <1>3, OneMoves DEF OneMoved
<1>5. PortType'
  BY DEF PortType
<1>6. MutexHeld'
  BY <1>1, <1>2 DEF MutexHeld, Held, WritePlaces
<1>7. FilesKept'
  BY <1>1, <1>2 DEF FilesKept, WritePlaces
<1>8. Started'
  BY <1>1, <1>2 DEF Started, Initialized, WritePlaces
<1>9. UsersKept'
  BY <1>1, <1>2, <1>4 DEF UsersKept, Closing, WritePlaces
<1>10. WritersStarted'
  BY <1>1, <1>2 DEF WritersStarted, Writers, Initialized, WritePlaces
<1>11. Counted' /\ CarrierAsked'
  BY <1>4 DEF Counted, CarrierAsked
<1>12. ErrorTold'
  BY <1>1, <1>2 DEF ErrorTold, Initialized, WritePlaces
<1>. QED BY <1>5, <1>6, <1>7, <1>8, <1>9, <1>10, <1>11, <1>12

(* Such are most steps of a write, of a close and of set_termios.          *)
LEMMA SimpleMoves ==
  ASSUME PortInv, ~ suspended, NEW t \in Tasks,
         \/ CloseCall(t) \/ CloseDrained(t) \/ WriteCall(t) \/ WriteCheck(t) \/ WriteCopy(t)
         \/ WriteStart(t) \/ WriteWoken(t) \/ FlowOn(t) \/ FlowOff(t)
  PROVE  PortInv'
<1>. DEFINE Core == UNCHANGED <<coreVars, mutex, file>> /\ asleep' \subseteq Tasks
<1>0. asleep \subseteq Tasks /\ (file[t] = "none" => pc[t] = "idle") /\ WritePlaces \subseteq Labels
  BY DEF PortInv, PortType, FilesKept, WritePlaces, Labels
<1>. USE DEF coreVars, uartVars, ringVars, irqVars, portVars, lineVars, restVars
<1>1. CASE CloseCall(t)
  <2>1. Core /\ file[t] # "none" /\ pc[t] = "idle" /\ pc' = [pc EXCEPT ![t] = "c_lock"]
    BY <1>0, <1>1 DEF CloseCall, Goto
  <2>. QED BY <2>1, SimpleMove DEF Labels, WritePlaces
<1>2. CASE CloseDrained(t)
  <2>1. Core /\ pc[t] = "c_drain" /\ pc' = [pc EXCEPT ![t] = "c_sent"]
    BY <1>0, <1>2 DEF CloseDrained, Goto
  <2>. QED BY <1>0, <2>1, SimpleMove DEF Labels, WritePlaces
<1>3. CASE WriteCall(t)
  <2>1. Core /\ file[t] = "live" /\ pc[t] = "idle" /\ pc' = [pc EXCEPT ![t] = "w_check"] /\ ~ io_error
    BY <1>0, <1>3 DEF WriteCall, Goto
  <2>2. Initialized
    BY <2>1 DEF PortInv, ErrorTold
  <2>. QED BY <2>1, <2>2, SimpleMove DEF Labels, WritePlaces
<1>4. CASE WriteCheck(t)
  <2>1. PICK l \in {"idle", "w_copy", "w_block"} :
          Core /\ pc[t] = "w_check" /\ pc' = [pc EXCEPT ![t] = l]
    BY <1>0, <1>4 DEF WriteCheck, Goto
  <2>. QED BY <1>0, <2>1, SimpleMove DEF Labels, WritePlaces
<1>5. CASE WriteCopy(t)
  <2>1. Core /\ pc[t] = "w_copy" /\ pc' = [pc EXCEPT ![t] = "w_start"]
    BY <1>0, <1>5 DEF WriteCopy, Goto
  <2>. QED BY <1>0, <2>1, SimpleMove DEF Labels, WritePlaces
<1>6. CASE WriteStart(t)
  <2>1. PICK l \in {"idle", "w_block"} :
          Core /\ pc[t] = "w_start" /\ pc' = [pc EXCEPT ![t] = l]
    BY <1>0, <1>6 DEF WriteStart, Goto
  <2>. QED BY <1>0, <2>1, SimpleMove DEF Labels, WritePlaces
<1>7. CASE WriteWoken(t)
  <2>1. Core /\ pc[t] = "w_block" /\ pc' = [pc EXCEPT ![t] = "w_check"]
    BY <1>0, <1>7 DEF WriteWoken, Goto
  <2>. QED BY <1>0, <2>1, SimpleMove DEF Labels, WritePlaces
<1>8. CASE FlowOn(t) \/ FlowOff(t)
  <2>1. Core /\ pc[t] \in {"m_on", "m_off"} /\ pc' = [pc EXCEPT ![t] = "idle"]
    BY <1>0, <1>8 DEF FlowOn, FlowOff, Goto
  <2>. QED BY <1>0, <2>1, SimpleMove DEF Labels, WritePlaces
<1>. QED BY <1>1, <1>2, <1>3, <1>4, <1>5, <1>6, <1>7, <1>8

(* A new file, and an open that finds it hung up.                          *)
LEMMA OpenCallPort == ASSUME PortInv, NEW t \in Tasks, ~ suspended, OpenCall(t) PROVE PortInv'
<1>1. /\ pc[t] = "idle" /\ file[t] = "none" /\ file' = [file EXCEPT ![t] = "live"]
      /\ pc' = [pc EXCEPT ![t] = "o_get"]
      /\ UNCHANGED <<buf, claimed, tlet, portVars, cflag, restVars, asleep>>
  BY DEF OpenCall, Goto, uartVars, lineVars
<1>. USE DEF PortInv, portVars, restVars
<1>2. \A u \in Tasks \ {t} : pc'[u] = pc[u] /\ file'[u] = file[u]
  BY <1>1 DEF PortType
<1>3. pc'[t] = "o_get" /\ file'[t] = "live"
  BY <1>1 DEF PortType
<1>4. t \notin Users' /\ t \notin Users /\ t \notin Blocked /\ t \notin Blocked'
  BY <1>1, <1>3 DEF Users, LiveTasks, Blocked
<1>5. Users' = Users /\ Blocked' = Blocked /\ Writers' = Writers
  BY <1>1, <1>2, <1>3, <1>4, OneMoves DEF OneMoved, Writers
<1>6. PortType'
  BY <1>1 DEF PortType, Labels
<1>7. MutexHeld' /\ FilesKept'
  BY <1>1, <1>2, <1>3 DEF MutexHeld, FilesKept, Held
<1>8. Started' /\ Counted' /\ CarrierAsked'
  BY <1>1, <1>2, <1>3, <1>5 DEF Started, Counted, CarrierAsked, Initialized
<1>9. UsersKept'
  BY <1>1, <1>2, <1>3, <1>5 DEF UsersKept, Closing
<1>10. WritersStarted' /\ ErrorTold'
  <2>1. t \notin Writers
    BY <1>1 DEF Writers
  <2>. QED BY <1>1, <1>2, <1>3, <1>5, <2>1 DEF WritersStarted, ErrorTold, Initialized, Writers
<1>. QED BY <1>6, <1>7, <1>8, <1>9, <1>10

(* An opener finds the port hung up.                                       *)
LEMMA OpenHungUpPort == ASSUME PortInv, NEW t \in Tasks, ~ suspended, OpenHungUp(t) PROVE PortInv'
<1>1. /\ pc[t] = "o_get" /\ file[t] = "hung" /\ tty' = TRUE
      /\ pc' = [pc EXCEPT ![t] = "c_lock"]
      /\ UNCHANGED <<buf, claimed, tlet, count, blocked_open, flags, io_error, cflag, restVars, file, asleep>>
  BY DEF OpenHungUp, Goto, uartVars, lineVars
<1>. USE DEF PortInv, restVars
<1>2. \A u \in Tasks \ {t} : pc'[u] = pc[u] /\ file'[u] = file[u]
  BY <1>1 DEF PortType
<1>3. pc'[t] = "c_lock"
  BY <1>1 DEF PortType
<1>4. t \notin Users' /\ t \notin Users /\ t \notin Blocked /\ t \notin Blocked'
  BY <1>1, <1>3 DEF Users, LiveTasks, Blocked
<1>5. Users' = Users /\ Blocked' = Blocked /\ Writers' = Writers
  BY <1>1, <1>2, <1>3, <1>4, OneMoves DEF OneMoved, Writers
<1>6. PortType'
  BY <1>1 DEF PortType, Labels
<1>7. MutexHeld' /\ FilesKept'
  BY <1>1, <1>2, <1>3 DEF MutexHeld, FilesKept, Held
<1>8. Started' /\ Counted' /\ CarrierAsked'
  BY <1>1, <1>2, <1>3, <1>5 DEF Started, Counted, CarrierAsked, Initialized
<1>9. UsersKept'
  BY <1>1, <1>2, <1>3, <1>4, <1>5 DEF UsersKept, Closing
<1>10. WritersStarted' /\ ErrorTold'
  BY <1>1, <1>2, <1>3, <1>5 DEF WritersStarted, ErrorTold, Initialized
<1>. QED BY <1>6, <1>7, <1>8, <1>9, <1>10

(* The loop is left: the opener is a user, or goes back through the close.  *)
LEMMA OpenReadyPort == ASSUME PortInv, NEW t \in Tasks, ~ suspended, OpenReady(t) PROVE PortInv'
<1>1. /\ pc[t] = "o_ready" /\ mutex' = Free
      /\ count' = count + 1 /\ blocked_open' = blocked_open - 1 /\ asleep' = asleep \ {t}
      /\ pc' = [pc EXCEPT ![t] = "c_lock"] \/ (pc' = [pc EXCEPT ![t] = "idle"] /\ tty)
      /\ UNCHANGED <<buf, claimed, tlet, tty, io_error, cflag, hangup, suspended, ldisc, file>>
  BY DEF OpenReady, Goto, uartVars, lineVars
<1>0. /\ flags' \subseteq {"INITIALIZED", "NORMAL_ACTIVE", "CTS_FLOW", "CHECK_CD"}
      /\ (Initialized' <=> Initialized) /\ ("CHECK_CD" \in flags' <=> "CLOCAL" \notin cflag)
  <2>1. \/ flags' = flags \/ flags' = flags \cup {"NORMAL_ACTIVE"}
        \/ flags' = ChangedSpeed(flags, cflag) \cup {"NORMAL_ACTIVE"}
    BY DEF OpenReady
  <2>. QED BY <2>1 DEF ChangedSpeed, PortInv, PortType, CarrierAsked, Initialized
<1>. USE DEF PortInv, portVars, restVars
<1>2. (\A u \in Tasks \ {t} : pc'[u] = pc[u] /\ file'[u] = file[u]) /\ pc'[t] \in {"c_lock", "idle"}
  BY <1>1 DEF PortType
<1>3. /\ t \notin Users /\ (t \in Users' => file[t] = "live") /\ t \in Blocked /\ t \notin Blocked'
      /\ Writers' = Writers
  BY <1>1, <1>2 DEF Users, LiveTasks, Blocked, Writers, UsersKept, Closing
<1>4. OneMoved(t)
  BY <1>2, OneMoves
<1>5. Counted'
  BY <1>1, <1>3, <1>4 DEF OneMoved, Counted, PortType
<1>6. PortType'
  BY <1>0, <1>1, <1>3, <1>4 DEF OneMoved, PortType, Labels, Counted
<1>7. MutexHeld'
  BY <1>1, <1>2, SerialAssumption DEF MutexHeld, Held, PortType
<1>8. FilesKept'
  BY <1>1, <1>2 DEF FilesKept
<1>9. Started'
  BY <1>0, <1>1, <1>2, SerialAssumption DEF Started, Initialized, MutexHeld, Held
<1>10. UsersKept'
  <2>1. (\A u \in Tasks : pc'[u] \notin Closing \cup {"s_free"}) /\ hangup' \notin {"h_lock", "h_free"}
    BY <1>1, <1>2, SerialAssumption DEF MutexHeld, Held, Closing
  <2>2. Users' \ {t} = Users \ {t}
    BY <1>3, <1>4 DEF OneMoved
  <2>3. tty' = tty /\ (pc'[t] # "c_lock" => tty)
    BY <1>1 DEF PortType
  <2>4. \A u \in Users' : pc'[u] # "c_lock" => tty'
    BY <1>2, <1>4, <2>2, <2>3 DEF UsersKept, OneMoved
  <2>. QED BY <2>1, <2>4 DEF UsersKept, Closing
<1>11. WritersStarted'
  BY <1>0, <1>1, <1>2, <1>3 DEF WritersStarted, Initialized
<1>12. ErrorTold' /\ CarrierAsked'
  BY <1>0, <1>1, <1>2 DEF ErrorTold, CarrierAsked, Initialized
<1>. QED BY <1>5, <1>6, <1>7, <1>8, <1>9, <1>10, <1>11, <1>12

(* The loop sleeps, and goes on.                                           *)
LEMMA OpenSleepPort == ASSUME PortInv, NEW t \in Tasks, ~ suspended, OpenSleep(t) PROVE PortInv'
<1>1. /\ pc[t] = "o_ready" /\ mutex' = Free /\ asleep' = asleep \cup {t}
      /\ pc' = [pc EXCEPT ![t] = "o_wait"]
      /\ UNCHANGED <<buf, claimed, tlet, portVars, cflag, hangup, suspended, ldisc, file>>
  BY DEF OpenSleep, Goto, uartVars, lineVars
<1>. USE DEF PortInv, portVars, restVars
<1>2. (\A u \in Tasks \ {t} : pc'[u] = pc[u] /\ file'[u] = file[u]) /\ pc'[t] = "o_wait"
  BY <1>1 DEF PortType
<1>3. /\ t \notin Users /\ t \notin Users' /\ t \in Blocked /\ t \in Blocked'
      /\ Writers' = Writers
  BY <1>1, <1>2 DEF Users, LiveTasks, Blocked, Writers, UsersKept, Closing
<1>4. OneMoved(t)
  BY <1>2, OneMoves
<1>5. Counted'
  BY <1>1, <1>3, <1>4 DEF OneMoved, Counted, PortType
<1>6. PortType'
  BY <1>1, <1>3, <1>4 DEF OneMoved, PortType, Labels, Counted
<1>7. MutexHeld'
  BY <1>1, <1>2, SerialAssumption DEF MutexHeld, Held, PortType
<1>8. FilesKept'
  BY <1>1, <1>2 DEF FilesKept
<1>9. Started'
  BY <1>1, <1>2, SerialAssumption DEF Started, Initialized, MutexHeld, Held
<1>10. UsersKept'
  BY <1>1, <1>2, <1>3, <1>4, SerialAssumption DEF OneMoved, UsersKept, Closing, MutexHeld, Held
<1>11. WritersStarted'
  BY <1>1, <1>2, <1>3 DEF WritersStarted, Initialized
<1>12. ErrorTold' /\ CarrierAsked'
  BY <1>1, <1>2 DEF ErrorTold, CarrierAsked, Initialized
<1>. QED BY <1>5, <1>6, <1>7, <1>8, <1>9, <1>10, <1>11, <1>12

(* The other way round, with the mutex again.                              *)
LEMMA OpenWokenPort == ASSUME PortInv, NEW t \in Tasks, ~ suspended, OpenWoken(t) PROVE PortInv'
<1>1. /\ pc[t] = "o_wait" /\ mutex = Free /\ hangup # "h_lock" /\ mutex' = t
      /\ pc' = [pc EXCEPT ![t] = "o_ready"]
      /\ UNCHANGED <<buf, claimed, tlet, portVars, cflag, hangup, suspended, ldisc, file, asleep>>
  BY DEF OpenWoken, Goto, uartVars, lineVars, MutexFree
<1>. USE DEF PortInv, portVars, restVars
<1>2. (\A u \in Tasks \ {t} : pc'[u] = pc[u] /\ file'[u] = file[u]) /\ pc'[t] = "o_ready"
  BY <1>1 DEF PortType
<1>3. /\ t \notin Users /\ t \notin Users' /\ t \in Blocked /\ t \in Blocked'
      /\ Writers' = Writers
  BY <1>1, <1>2 DEF Users, LiveTasks, Blocked, Writers, UsersKept, Closing
<1>4. OneMoved(t)
  BY <1>2, OneMoves
<1>5. Counted'
  BY <1>1, <1>3, <1>4 DEF OneMoved, Counted, PortType
<1>6. PortType'
  BY <1>1, <1>3, <1>4 DEF OneMoved, PortType, Labels, Counted
<1>7. MutexHeld'
  BY <1>1, <1>2, SerialAssumption DEF MutexHeld, Held, PortType
<1>8. FilesKept'
  BY <1>1, <1>2 DEF FilesKept
<1>9. Started'
  BY <1>1, <1>2, SerialAssumption DEF Started, Initialized, MutexHeld, Held
<1>10. UsersKept'
  BY <1>1, <1>2, <1>3, <1>4, SerialAssumption DEF OneMoved, UsersKept, Closing, MutexHeld, Held
<1>11. WritersStarted'
  BY <1>1, <1>2, <1>3 DEF WritersStarted, Initialized
<1>12. ErrorTold' /\ CarrierAsked'
  BY <1>1, <1>2 DEF ErrorTold, CarrierAsked, Initialized
<1>. QED BY <1>5, <1>6, <1>7, <1>8, <1>9, <1>10, <1>11, <1>12

(* A signal ends the wait for the carrier.                                 *)
LEMMA OpenSignalledPort == ASSUME PortInv, NEW t \in Tasks, ~ suspended, OpenSignalled(t) PROVE PortInv'
<1>1. /\ pc[t] = "o_wait" /\ mutex = Free /\ hangup # "h_lock"
      /\ pc' = [pc EXCEPT ![t] = "c_lock"]
      /\ count' = count + 1 /\ blocked_open' = blocked_open - 1 /\ asleep' = asleep \ {t}
      /\ UNCHANGED <<buf, claimed, tlet, flags, tty, io_error, cflag, restVars, file>>
  BY DEF OpenSignalled, Goto, uartVars, lineVars, MutexFree
<1>. USE DEF PortInv, portVars, restVars
<1>2. (\A u \in Tasks \ {t} : pc'[u] = pc[u] /\ file'[u] = file[u]) /\ pc'[t] = "c_lock"
  BY <1>1 DEF PortType
<1>3. /\ t \notin Users /\ (t \in Users' => file[t] = "live") /\ t \in Blocked /\ t \notin Blocked'
      /\ Writers' = Writers
  BY <1>1, <1>2 DEF Users, LiveTasks, Blocked, Writers, UsersKept, Closing
<1>4. OneMoved(t)
  BY <1>2, OneMoves
<1>5. Counted'
  BY <1>1, <1>3, <1>4 DEF OneMoved, Counted, PortType
<1>6. PortType'
  BY <1>1, <1>3, <1>4 DEF OneMoved, PortType, Labels, Counted
<1>7. MutexHeld'
  BY <1>1, <1>2, SerialAssumption DEF MutexHeld, Held, PortType
<1>8. FilesKept'
  BY <1>1, <1>2 DEF FilesKept
<1>9. Started'
  BY <1>1, <1>2, SerialAssumption DEF Started, Initialized, MutexHeld, Held
<1>10. UsersKept'
  BY <1>1, <1>2, <1>3, <1>4, SerialAssumption DEF OneMoved, UsersKept, Closing, MutexHeld, Held
<1>11. WritersStarted'
  BY <1>1, <1>2, <1>3 DEF WritersStarted, Initialized
<1>12. ErrorTold' /\ CarrierAsked'
  BY <1>1, <1>2 DEF ErrorTold, CarrierAsked, Initialized
<1>. QED BY <1>5, <1>6, <1>7, <1>8, <1>9, <1>10, <1>11, <1>12

-----------------------------------------------------------------------------
(* uart_shutdown leaves no interrupt on, and every file is told.           *)
LEMMA ShutdownEffect ==
  ASSUME Started, ShutdownPort
  PROVE  /\ ~ Initialized' /\ ~ claimed' /\ flags' = flags \ {"INITIALIZED"}
         /\ io_error' <=> io_error \/ tty
         /\ Initialized => io_error'
BY DEF Started, ShutdownPort, ShutdownUart, Initialized

(* Who closes and leaves no count was the only user.                       *)
LEMMA LastCloser ==
  ASSUME PortInv, NEW t \in Tasks, pc[t] = "c_lock", file[t] = "live", CountLeft = 0
  PROVE  Users = {t}
<1>1. t \in Users /\ Users \in SUBSET Tasks /\ Users \subseteq {u \in Tasks : file[u] # "none"}
  BY DEF Users, LiveTasks
<1>2. IsFiniteSet(Users) /\ IsFiniteSet({u \in Tasks : file[u] # "none"}) /\ Cardinality(Users) \in Nat
  BY <1>1, TasksCounted
<1>3. CASE TtyCount = 1
  BY <1>1, <1>2, <1>3, FS_Singleton DEF TtyCount
<1>4. CASE TtyCount # 1
  <2>1. count <= 1 /\ Cardinality(Users) <= count
    BY <1>4 DEF CountLeft, PortInv, PortType, Counted
  <2>2. Cardinality(Users) = 1
    BY <1>1, <1>2, <2>1, TasksCounted DEF PortInv, PortType
  <2>. QED BY <1>1, <1>2, <2>2, FS_Singleton
<1>. QED BY <1>3, <1>4

(* The close of a hung file, of one of several, and the last.              *)
LEMMA CloseLockPort == ASSUME PortInv, NEW t \in Tasks, ~ suspended, CloseLock(t) PROVE PortInv'
<1>1. /\ pc[t] = "c_lock" /\ mutex = Free /\ hangup # "h_lock" /\ file[t] \in {"hung", "live"}
      /\ \/ file[t] = "hung" /\ pc' = [pc EXCEPT ![t] = "c_release"] /\ UNCHANGED <<count, mutex>>
         \/ /\ file[t] = "live" /\ CountLeft > 0 /\ count' = CountLeft
            /\ pc' = [pc EXCEPT ![t] = "c_release"] /\ UNCHANGED mutex
         \/ /\ file[t] = "live" /\ CountLeft = 0 /\ count' = 0 /\ mutex' = t
            /\ pc' = [pc EXCEPT ![t] = "c_drain"]
      /\ UNCHANGED <<buf, claimed, tlet, blocked_open, flags, tty, io_error, cflag, hangup, suspended, ldisc, file, asleep>>
  BY DEF CloseLock, Goto, uartVars, lineVars, MutexFree
<1>. USE DEF PortInv, portVars, restVars
<1>2. (\A u \in Tasks \ {t} : pc'[u] = pc[u] /\ file'[u] = file[u]) /\ pc'[t] \in {"c_release", "c_drain"}
  BY <1>1 DEF PortType
<1>0. /\ file[t] = "hung" => count' = count /\ pc'[t] = "c_release"
      /\ file[t] = "live" /\ pc'[t] = "c_release" => count > 0 /\ count' = count - 1
      /\ pc'[t] = "c_drain" => file[t] = "live" /\ count' = 0 /\ Users = {t}
  BY <1>1, LastCloser DEF CountLeft, PortType
<1>3. /\ (t \in Users <=> file[t] = "live") /\ t \notin Users' /\ t \notin Blocked /\ t \notin Blocked'
      /\ Writers' = Writers
  BY <1>1, <1>2 DEF Users, LiveTasks, Blocked, Writers, UsersKept, Closing
<1>4. OneMoved(t)
  BY <1>2, OneMoves
<1>13. Cardinality(Users') <= count' /\ count' \in Nat /\ (pc'[t] = "c_drain" => Users' = {})
  <2>1. CASE pc'[t] = "c_release"
    BY <1>0, <1>1, <1>2, <1>3, <1>4, <2>1 DEF OneMoved, Counted, PortType
  <2>2. CASE pc'[t] = "c_drain"
    <3>1. Users' = {}
      BY <1>0, <1>3, <1>4, <2>2 DEF OneMoved
    <3>. QED BY <1>0, <2>2, <3>1, FS_EmptySet
  <2>. QED BY <1>2, <2>1, <2>2
<1>5. Counted'
  BY <1>1, <1>3, <1>4, <1>13 DEF OneMoved, Counted, PortType
<1>6. PortType'
  BY <1>1, <1>3, <1>4, <1>13 DEF OneMoved, PortType, Labels, Counted
<1>7. MutexHeld'
  BY <1>1, <1>2, SerialAssumption DEF MutexHeld, Held, PortType
<1>8. FilesKept'
  BY <1>1, <1>2 DEF FilesKept
<1>9. Started'
  BY <1>1, <1>2, SerialAssumption DEF Started, Initialized, MutexHeld, Held
<1>10. UsersKept'
  BY <1>1, <1>2, <1>3, <1>4, SerialAssumption, <1>0, <1>13 DEF OneMoved, UsersKept, Closing, MutexHeld, Held
<1>11. WritersStarted'
  BY <1>1, <1>2, <1>3 DEF WritersStarted, Initialized
<1>12. ErrorTold' /\ CarrierAsked'
  BY <1>1, <1>2 DEF ErrorTold, CarrierAsked, Initialized
<1>. QED BY <1>5, <1>6, <1>7, <1>8, <1>9, <1>10, <1>11, <1>12

(* The last close shuts the port down, with nobody else using it.          *)
LEMMA CloseSentPort == ASSUME PortInv, NEW t \in Tasks, ~ suspended, CloseSent(t) PROVE PortInv'
<1>1. /\ pc[t] = "c_sent" /\ pc' = [pc EXCEPT ![t] = "c_free"]
      /\ ~ Initialized' /\ ~ claimed' /\ flags' = flags \ {"INITIALIZED"}
      /\ (io_error' <=> io_error \/ tty) /\ (Initialized => io_error')
      /\ UNCHANGED <<buf, tlet, count, blocked_open, tty, cflag, restVars, file, asleep>>
  BY ShutdownEffect DEF CloseSent, Goto, ringVars, lineVars, PortInv
<1>. USE DEF PortInv, portVars, restVars
<1>2. (\A u \in Tasks \ {t} : pc'[u] = pc[u] /\ file'[u] = file[u]) /\ pc'[t] = "c_free"
  BY <1>1 DEF PortType
<1>0. \A u \in Writers : file[u] # "live"
  BY <1>1 DEF Writers, Users, LiveTasks, UsersKept, Closing
<1>3. /\ t \notin Users /\ t \notin Users' /\ t \notin Blocked /\ t \notin Blocked'
      /\ Writers' = Writers
  BY <1>1, <1>2 DEF Users, LiveTasks, Blocked, Writers, UsersKept, Closing
<1>4. OneMoved(t)
  BY <1>2, OneMoves
<1>5. Counted'
  BY <1>1, <1>3, <1>4 DEF OneMoved, Counted, PortType
<1>6. PortType'
  BY <1>1, <1>3, <1>4 DEF OneMoved, PortType, Labels, Counted
<1>7. MutexHeld'
  BY <1>1, <1>2, SerialAssumption DEF MutexHeld, Held, PortType
<1>8. FilesKept'
  BY <1>1, <1>2 DEF FilesKept
<1>9. Started'
  BY <1>1, <1>2, SerialAssumption DEF Started, Initialized, MutexHeld, Held
<1>10. UsersKept'
  BY <1>1, <1>2, <1>3, <1>4, SerialAssumption DEF OneMoved, UsersKept, Closing, MutexHeld, Held
<1>11. WritersStarted'
  BY <1>1, <1>2, <1>3, <1>0 DEF WritersStarted, Initialized
<1>12. ErrorTold' /\ CarrierAsked'
  BY <1>1, <1>2 DEF ErrorTold, CarrierAsked, Initialized
<1>. QED BY <1>5, <1>6, <1>7, <1>8, <1>9, <1>10, <1>11, <1>12

(* It gives up the mutex when buffer and tty are gone.                     *)
LEMMA CloseFreePort == ASSUME PortInv, NEW t \in Tasks, ~ suspended, CloseFree(t) PROVE PortInv'
<1>1. /\ pc[t] = "c_free" /\ pc' = [pc EXCEPT ![t] = "c_release"] /\ mutex' = Free
      /\ tlet' = FALSE /\ tty' = FALSE /\ flags' = flags \ {"NORMAL_ACTIVE"}
      /\ asleep' = asleep \ (Writers \cup Openers)
      /\ UNCHANGED <<claimed, count, blocked_open, io_error, cflag, hangup, suspended, ldisc, file>>
  BY DEF CloseFree, Goto, FreeBuffer, lineVars
<1>. USE DEF PortInv, portVars, restVars
<1>2. (\A u \in Tasks \ {t} : pc'[u] = pc[u] /\ file'[u] = file[u]) /\ pc'[t] = "c_release"
  BY <1>1 DEF PortType
<1>3. /\ t \notin Users /\ t \notin Users' /\ t \notin Blocked /\ t \notin Blocked'
      /\ Writers' = Writers
  BY <1>1, <1>2 DEF Users, LiveTasks, Blocked, Writers, UsersKept, Closing
<1>4. OneMoved(t)
  BY <1>2, OneMoves
<1>5. Counted'
  BY <1>1, <1>3, <1>4 DEF OneMoved, Counted, PortType
<1>6. PortType'
  BY <1>1, <1>3, <1>4 DEF OneMoved, PortType, Labels, Counted
<1>7. MutexHeld'
  BY <1>1, <1>2, SerialAssumption DEF MutexHeld, Held, PortType
<1>8. FilesKept'
  BY <1>1, <1>2 DEF FilesKept
<1>9. Started'
  BY <1>1, <1>2, SerialAssumption DEF Started, Initialized, MutexHeld, Held
<1>10. UsersKept'
  BY <1>1, <1>2, <1>3, <1>4, SerialAssumption DEF OneMoved, UsersKept, Closing, MutexHeld, Held
<1>11. WritersStarted'
  BY <1>1, <1>2, <1>3 DEF WritersStarted, Initialized
<1>12. ErrorTold' /\ CarrierAsked'
  BY <1>1, <1>2 DEF ErrorTold, CarrierAsked, Initialized
<1>. QED BY <1>5, <1>6, <1>7, <1>8, <1>9, <1>10, <1>11, <1>12

(* The file goes.                                                          *)
LEMMA ReleasePort == ASSUME PortInv, NEW t \in Tasks, ~ suspended, Release(t) PROVE PortInv'
<1>1. /\ pc[t] = "c_release" /\ pc' = [pc EXCEPT ![t] = "idle"] /\ file' = [file EXCEPT ![t] = "none"]
      /\ (io_error => io_error') \/ TtyCount = 1
      /\ UNCHANGED <<buf, claimed, tlet, count, blocked_open, flags, tty, cflag, restVars, asleep>>
  BY DEF Release, Goto, uartVars, lineVars
<1>. USE DEF PortInv, portVars, restVars
<1>2. (\A u \in Tasks \ {t} : pc'[u] = pc[u] /\ file'[u] = file[u]) /\ pc'[t] = "idle" /\ file'[t] = "none"
  BY <1>1 DEF PortType
<1>0. TtyCount = 1 => \A u \in Tasks \ {t} : file[u] = "none"
  <2>1. t \in {u \in Tasks : file[u] # "none"}
    BY <1>1 DEF FilesKept
  <2>2. IsFiniteSet({u \in Tasks : file[u] # "none"})
    BY SerialAssumption, FS_Subset
  <2>. QED BY <2>1, <2>2, FS_Singleton DEF TtyCount
<1>3. /\ t \notin Users /\ t \notin Users' /\ t \notin Blocked /\ t \notin Blocked'
      /\ Writers' = Writers
  BY <1>1, <1>2 DEF Users, LiveTasks, Blocked, Writers, UsersKept, Closing
<1>4. OneMoved(t)
  BY <1>2, OneMoves
<1>5. Counted'
  BY <1>1, <1>3, <1>4 DEF OneMoved, Counted, PortType
<1>6. PortType'
  BY <1>1, <1>3, <1>4 DEF OneMoved, PortType, Labels, Counted
<1>7. MutexHeld'
  BY <1>1, <1>2, SerialAssumption DEF MutexHeld, Held, PortType
<1>8. FilesKept'
  BY <1>1, <1>2 DEF FilesKept
<1>9. Started'
  BY <1>1, <1>2, SerialAssumption DEF Started, Initialized, MutexHeld, Held
<1>10. UsersKept'
  BY <1>1, <1>2, <1>3, <1>4, SerialAssumption DEF OneMoved, UsersKept, Closing, MutexHeld, Held
<1>11. WritersStarted'
  BY <1>1, <1>2, <1>3 DEF WritersStarted, Initialized
<1>12. ErrorTold' /\ CarrierAsked'
  BY <1>1, <1>2, <1>0 DEF ErrorTold, CarrierAsked, Initialized
<1>. QED BY <1>5, <1>6, <1>7, <1>8, <1>9, <1>10, <1>11, <1>12

(* uart_change_speed keeps a port started.                                 *)
LEMMA SetTermiosPort == ASSUME PortInv, NEW t \in Tasks, ~ suspended, SetTermios(t) PROVE PortInv'
<1>1. /\ pc[t] = "idle" /\ file[t] = "live" /\ hangup # "h_free"
      /\ (\A u \in Tasks : pc[u] \notin {"o_ready", "c_free", "s_free", "s_start", "m_on", "m_off"})
      /\ \E l \in {"m_on", "m_off", "idle"} : pc' = [pc EXCEPT ![t] = l]
      /\ cflag' \in Cflags /\ flags' = ChangedSpeed(flags, cflag')
      /\ UNCHANGED <<buf, claimed, tlet, count, blocked_open, tty, io_error, restVars, file, asleep>>
  BY DEF SetTermios, Goto, uartVars, BklFree
<1>. USE DEF PortInv, portVars, restVars
<1>2. (\A u \in Tasks \ {t} : pc'[u] = pc[u] /\ file'[u] = file[u]) /\ pc'[t] \in {"m_on", "m_off", "idle"}
  BY <1>1 DEF PortType
<1>0. /\ flags' \subseteq {"INITIALIZED", "NORMAL_ACTIVE", "CTS_FLOW", "CHECK_CD"}
      /\ cflag' \subseteq {"CLOCAL", "CRTSCTS"}
      /\ (Initialized' <=> Initialized) /\ ("CHECK_CD" \in flags' <=> "CLOCAL" \notin cflag')
  BY <1>1, SerialAssumption DEF ChangedSpeed, Initialized, PortType
<1>13. hangup \notin {"h_lock", "h_free"}
  BY <1>1 DEF UsersKept, Users, LiveTasks
<1>3. /\ t \in Users /\ t \in Users' /\ t \notin Blocked /\ t \notin Blocked'
      /\ Writers' = Writers
  BY <1>1, <1>2 DEF Users, LiveTasks, Blocked, Writers, UsersKept, Closing
<1>4. OneMoved(t)
  BY <1>2, OneMoves
<1>5. Counted'
  BY <1>1, <1>3, <1>4 DEF OneMoved, Counted, PortType
<1>6. PortType'
  BY <1>1, <1>3, <1>4, <1>0 DEF OneMoved, PortType, Labels, Counted
<1>7. MutexHeld'
  BY <1>1, <1>2, SerialAssumption, <1>13 DEF MutexHeld, Held, PortType
<1>8. FilesKept'
  BY <1>1, <1>2 DEF FilesKept
<1>9. Started'
  BY <1>1, <1>2, SerialAssumption, <1>0, <1>13 DEF Started, Initialized, MutexHeld, Held
<1>10. UsersKept'
  BY <1>1, <1>2, <1>3, <1>4, SerialAssumption, <1>13 DEF OneMoved, UsersKept, Closing, MutexHeld, Held
<1>11. WritersStarted'
  BY <1>1, <1>2, <1>3, <1>0 DEF WritersStarted, Initialized
<1>12. ErrorTold' /\ CarrierAsked'
  BY <1>1, <1>2, <1>0 DEF ErrorTold, CarrierAsked, Initialized
<1>. QED BY <1>5, <1>6, <1>7, <1>8, <1>9, <1>10, <1>11, <1>12

(* The last user reconfigures the port: nobody else uses or opens it.      *)
LEMMA ReconfigurePort == ASSUME PortInv, NEW t \in Tasks, ~ suspended, Reconfigure(t) PROVE PortInv'
<1>1. /\ pc[t] = "idle" /\ file[t] = "live" /\ mutex = Free /\ hangup \notin {"h_lock", "h_free"} /\ mutex' = t
      /\ pc' = [pc EXCEPT ![t] = "s_free"] /\ count + blocked_open <= 1
      /\ ~ Initialized' /\ ~ claimed' /\ flags' = flags \ {"INITIALIZED"}
      /\ (io_error' <=> io_error \/ tty) /\ (Initialized => io_error')
      /\ UNCHANGED <<buf, tlet, count, blocked_open, tty, cflag, hangup, suspended, ldisc, file, asleep>>
  BY ShutdownEffect DEF Reconfigure, Goto, ringVars, lineVars, PortInv, MutexFree, BklFree
<1>. USE DEF PortInv, portVars, restVars
<1>2. (\A u \in Tasks \ {t} : pc'[u] = pc[u] /\ file'[u] = file[u]) /\ pc'[t] = "s_free"
  BY <1>1 DEF PortType
<1>0. Users = {t} /\ Blocked = {}
  <2>1. t \in Users /\ Users \in SUBSET Tasks /\ Blocked \in SUBSET Tasks
    BY <1>1 DEF Users, LiveTasks, Blocked
  <2>2. Cardinality(Users) \in Nat /\ Cardinality(Blocked) \in Nat /\ Cardinality(Users) # 0
    BY <2>1, TasksCounted
  <2>3. Cardinality(Users) = 1 /\ Cardinality(Blocked) = 0
    BY <1>1, <2>2 DEF Counted, PortType
  <2>. QED BY <2>1, <2>3, TasksCounted, FS_Singleton
<1>13. \A u \in Writers : file[u] # "live"
  BY <1>0, <1>1 DEF Writers, Users, LiveTasks
<1>3. /\ t \in Users /\ t \in Users' /\ t \notin Blocked /\ t \notin Blocked'
      /\ Writers' = Writers
  BY <1>1, <1>2 DEF Users, LiveTasks, Blocked, Writers, UsersKept, Closing
<1>4. OneMoved(t)
  BY <1>2, OneMoves
<1>5. Counted'
  BY <1>1, <1>3, <1>4 DEF OneMoved, Counted, PortType
<1>6. PortType'
  BY <1>1, <1>3, <1>4 DEF OneMoved, PortType, Labels, Counted
<1>7. MutexHeld'
  BY <1>1, <1>2, SerialAssumption DEF MutexHeld, Held, PortType
<1>8. FilesKept'
  BY <1>1, <1>2 DEF FilesKept
<1>9. Started'
  BY <1>1, <1>2, SerialAssumption DEF Started, Initialized, MutexHeld, Held
<1>10. UsersKept'
  BY <1>1, <1>2, <1>3, <1>4, SerialAssumption, <1>0 DEF OneMoved, UsersKept, Closing, MutexHeld, Held
<1>11. WritersStarted'
  BY <1>1, <1>2, <1>3, <1>13 DEF WritersStarted, Initialized
<1>12. ErrorTold' /\ CarrierAsked'
  BY <1>1, <1>2 DEF ErrorTold, CarrierAsked, Initialized
<1>. QED BY <1>5, <1>6, <1>7, <1>8, <1>9, <1>10, <1>11, <1>12

(* The old buffer goes.                                                    *)
LEMMA ReconfigureFreePort == ASSUME PortInv, NEW t \in Tasks, ~ suspended, ReconfigureFree(t) PROVE PortInv'
<1>1. /\ pc[t] = "s_free" /\ pc' = [pc EXCEPT ![t] = "s_start"] /\ ~ tlet' /\ asleep' \subseteq asleep
      /\ UNCHANGED <<claimed, count, blocked_open, flags, tty, io_error, cflag, restVars, file>>
  BY DEF ReconfigureFree, Goto, FreeBuffer, Killed, lineVars, portVars
<1>. USE DEF PortInv, portVars, restVars
<1>2. (\A u \in Tasks \ {t} : pc'[u] = pc[u] /\ file'[u] = file[u]) /\ pc'[t] = "s_start"
  BY <1>1 DEF PortType
<1>0. ~ Initialized /\ file[t] = "live"
  BY <1>1 DEF Started, FilesKept
<1>3. /\ t \in Users /\ t \in Users' /\ t \notin Blocked /\ t \notin Blocked'
      /\ Writers' = Writers
  BY <1>1, <1>2 DEF Users, LiveTasks, Blocked, Writers, UsersKept, Closing
<1>4. OneMoved(t)
  BY <1>2, OneMoves
<1>5. Counted'
  BY <1>1, <1>3, <1>4 DEF OneMoved, Counted, PortType
<1>6. PortType'
  BY <1>1, <1>3, <1>4 DEF OneMoved, PortType, Labels, Counted
<1>7. MutexHeld'
  BY <1>1, <1>2, SerialAssumption DEF MutexHeld, Held, PortType
<1>8. FilesKept'
  BY <1>1, <1>2 DEF FilesKept
<1>9. Started'
  BY <1>1, <1>2, SerialAssumption, <1>0 DEF Started, Initialized, MutexHeld, Held
<1>10. UsersKept'
  BY <1>1, <1>2, <1>3, <1>4, SerialAssumption, <1>0 DEF OneMoved, UsersKept, Closing, MutexHeld, Held
<1>11. WritersStarted'
  BY <1>1, <1>2, <1>3 DEF WritersStarted, Initialized
<1>12. ErrorTold' /\ CarrierAsked'
  BY <1>1, <1>2 DEF ErrorTold, CarrierAsked, Initialized
<1>. QED BY <1>5, <1>6, <1>7, <1>8, <1>9, <1>10, <1>11, <1>12

(* Settings of a port that is not started.                                 *)
LEMMA SetInfoPort == ASSUME PortInv, NEW t \in Tasks, ~ suspended, SetInfo(t) PROVE PortInv'
<1>1. /\ pc[t] = "idle" /\ file[t] = "live" /\ mutex = Free /\ hangup \notin {"h_lock", "h_free"} /\ mutex' = t
      /\ pc' = [pc EXCEPT ![t] = "s_start"] /\ ~ Initialized
      /\ UNCHANGED <<buf, claimed, tlet, count, blocked_open, flags, tty, io_error, cflag, hangup, suspended, ldisc, file, asleep>>
  BY DEF SetInfo, Goto, uartVars, lineVars, portVars, MutexFree, BklFree
<1>. USE DEF PortInv, portVars, restVars
<1>2. (\A u \in Tasks \ {t} : pc'[u] = pc[u] /\ file'[u] = file[u]) /\ pc'[t] = "s_start"
  BY <1>1 DEF PortType
<1>3. /\ t \in Users /\ t \in Users' /\ t \notin Blocked /\ t \notin Blocked'
      /\ Writers' = Writers
  BY <1>1, <1>2 DEF Users, LiveTasks, Blocked, Writers, UsersKept, Closing
<1>4. OneMoved(t)
  BY <1>2, OneMoves
<1>5. Counted'
  BY <1>1, <1>3, <1>4 DEF OneMoved, Counted, PortType
<1>6. PortType'
  BY <1>1, <1>3, <1>4 DEF OneMoved, PortType, Labels, Counted
<1>7. MutexHeld'
  BY <1>1, <1>2, SerialAssumption DEF MutexHeld, Held, PortType
<1>8. FilesKept'
  BY <1>1, <1>2 DEF FilesKept
<1>9. Started'
  BY <1>1, <1>2, SerialAssumption DEF Started, Initialized, MutexHeld, Held
<1>10. UsersKept'
  BY <1>1, <1>2, <1>3, <1>4, SerialAssumption DEF OneMoved, UsersKept, Closing, MutexHeld, Held
<1>11. WritersStarted'
  BY <1>1, <1>2, <1>3 DEF WritersStarted, Initialized
<1>12. ErrorTold' /\ CarrierAsked'
  BY <1>1, <1>2 DEF ErrorTold, CarrierAsked, Initialized
<1>. QED BY <1>5, <1>6, <1>7, <1>8, <1>9, <1>10, <1>11, <1>12

(* The port is started again, or the error is told.                        *)
LEMMA ReconfigureStartPort == ASSUME PortInv, NEW t \in Tasks, ~ suspended, ReconfigureStart(t) PROVE PortInv'
<1>1. /\ pc[t] = "s_start" /\ pc' = [pc EXCEPT ![t] = "idle"] /\ mutex' = Free
      /\ Startup(TRUE)
      /\ UNCHANGED <<count, blocked_open, tty, cflag, hangup, suspended, ldisc, file, asleep>>
  BY DEF ReconfigureStart, Goto
<1>. USE DEF PortInv, portVars, restVars
<1>2. (\A u \in Tasks \ {t} : pc'[u] = pc[u] /\ file'[u] = file[u]) /\ pc'[t] = "idle"
  BY <1>1 DEF PortType
<1>0. file[t] = "live" /\ ~ Initialized /\ mutex = t /\ tty /\ hangup # "h_free"
  <2>1. file[t] = "live" /\ ~ Initialized /\ mutex = t
    BY <1>1 DEF FilesKept, Started, MutexHeld, Held
  <2>2. t \in Users
    BY <1>1, <2>1 DEF Users, LiveTasks
  <2>. QED BY <1>1, <2>1, <2>2, SerialAssumption DEF UsersKept, MutexHeld
<1>13. /\ flags' \subseteq {"INITIALIZED", "NORMAL_ACTIVE", "CTS_FLOW", "CHECK_CD"}
       /\ CarrierAsked' /\ (Initialized' => buf') /\ (claimed' <=> Initialized') /\ (io_error' <=> ~ Initialized')
       /\ tlet' = tlet
  BY <1>0, <1>1, StartupEffect DEF CarrierAsked
<1>14. \A u \in Tasks : u # t => pc[u] \notin Held
  BY <1>0 DEF MutexHeld
<1>3. /\ t \in Users /\ t \in Users' /\ t \notin Blocked /\ t \notin Blocked'
      /\ Writers' = Writers
  BY <1>0, <1>1, <1>2 DEF Users, LiveTasks, Blocked, Writers
<1>4. OneMoved(t)
  BY <1>2, OneMoves
<1>5. Counted'
  BY <1>1, <1>3, <1>4 DEF OneMoved, Counted, PortType
<1>6. PortType'
  BY <1>1, <1>3, <1>4, <1>0, <1>13, <1>14 DEF OneMoved, PortType, Labels, Counted
<1>7. MutexHeld'
  BY <1>1, <1>2, SerialAssumption, <1>0, <1>13, <1>14 DEF MutexHeld, Held, PortType
<1>8. FilesKept'
  BY <1>1, <1>2, <1>0, <1>13, <1>14 DEF FilesKept
<1>9. Started'
  BY <1>1, <1>2, SerialAssumption, <1>0, <1>13, <1>14 DEF Started, Initialized, MutexHeld, Held
<1>10. UsersKept'
  BY <1>1, <1>2, <1>3, <1>4, SerialAssumption, <1>0, <1>13, <1>14 DEF OneMoved, UsersKept, Closing, MutexHeld, Held
<1>11. WritersStarted'
  BY <1>1, <1>2, <1>3, <1>0, <1>13, <1>14 DEF WritersStarted, Initialized
<1>12. ErrorTold' /\ CarrierAsked'
  BY <1>1, <1>2, <1>0, <1>13, <1>14 DEF ErrorTold, CarrierAsked, Initialized
<1>. QED BY <1>5, <1>6, <1>7, <1>8, <1>9, <1>10, <1>11, <1>12

-----------------------------------------------------------------------------
(* Steps of the modem, of the kernel thread and of power management, which *)
(* move no task.                                                           *)
LEMMA DcdPort == ASSUME PortInv, ~ suspended, DcdChange PROVE PortInv'
<1>1. /\ asleep' \subseteq asleep
      /\ hangup' = hangup \/ (hangup = "none" /\ hangup' = "queued")
      /\ UNCHANGED <<buf, claimed, tlet, portVars, cflag, mutex, suspended, ldisc, file, pc>>
  BY DEF DcdChange, uartVars
<1>. USE DEF PortInv, portVars
<1>2. Users' = Users /\ Blocked' = Blocked /\ Writers' = Writers
  BY <1>1 DEF Users, LiveTasks, Blocked, Writers
<1>3. PortType' /\ MutexHeld' /\ FilesKept'
  BY <1>1 DEF PortType, MutexHeld, FilesKept
<1>4. Started' /\ UsersKept' /\ WritersStarted'
  BY <1>1, <1>2 DEF Started, UsersKept, WritersStarted, Initialized
<1>5. Counted' /\ ErrorTold' /\ CarrierAsked'
  BY <1>1, <1>2 DEF Counted, ErrorTold, CarrierAsked, Initialized
<1>. QED BY <1>3, <1>4, <1>5

(* The mark takes all users away.                                          *)
LEMMA HangupMarkPort == ASSUME PortInv, ~ suspended, HangupMark PROVE PortInv'
<1>1. /\ hangup = "queued" /\ hangup' = "h_lock" /\ BklFree
      /\ file' = [t \in Tasks |-> IF file[t] = "live" THEN "hung" ELSE file[t]]
      /\ asleep' \subseteq asleep
      /\ UNCHANGED <<buf, claimed, tlet, portVars, cflag, mutex, suspended, ldisc, pc>>
  BY DEF HangupMark, uartVars, lineVars
<1>. USE DEF PortInv, portVars
<1>2. \A u \in Tasks : file'[u] # "live" /\ (file'[u] = "none" => file[u] = "none")
  BY <1>1 DEF PortType
<1>3. Users' = {} /\ Blocked' = Blocked /\ Cardinality(Users') = 0
  BY <1>1, <1>2, FS_EmptySet DEF Users, LiveTasks, Blocked
<1>4. PortType'
  BY <1>1 DEF PortType
<1>5. MutexHeld' /\ FilesKept'
  BY <1>1, <1>2 DEF MutexHeld, FilesKept, BklFree
<1>6. Started' /\ UsersKept' /\ WritersStarted'
  BY <1>1, <1>2, <1>3 DEF Started, UsersKept, WritersStarted, Writers, Initialized, BklFree
<1>7. Counted' /\ ErrorTold' /\ CarrierAsked'
  BY <1>1, <1>2, <1>3 DEF Counted, ErrorTold, CarrierAsked, Initialized, PortType
<1>. QED BY <1>4, <1>5, <1>6, <1>7

(* An active port is shut down, with TTY_IO_ERROR for the openers.         *)
LEMMA HangupLockPort == ASSUME PortInv, ~ suspended, HangupLock PROVE PortInv'
<1>. USE DEF PortInv
<1>1. /\ hangup = "h_lock" /\ mutex = Free /\ BklFree /\ asleep' \subseteq asleep
      /\ \/ /\ mutex' = Eventd /\ hangup' = "h_free"
            /\ ~ Initialized' /\ ~ claimed' /\ flags' = flags \ {"INITIALIZED"}
            /\ (io_error' <=> io_error \/ tty) /\ (Initialized => io_error')
         \/ hangup' = "none" /\ UNCHANGED <<claimed, flags, io_error, mutex>>
      /\ UNCHANGED <<buf, tlet, count, blocked_open, tty, cflag, suspended, ldisc, file, pc>>
  BY ShutdownEffect DEF HangupLock, lineVars
<1>2. Users' = Users /\ Blocked' = Blocked /\ Writers' = Writers /\ Users = {}
  BY <1>1 DEF Users, LiveTasks, Blocked, Writers, UsersKept
<1>3. PortType'
  BY <1>1 DEF PortType
<1>4. MutexHeld' /\ FilesKept'
  BY <1>1, SerialAssumption DEF MutexHeld, FilesKept
<1>5. Started'
  BY <1>1 DEF Started, Initialized, BklFree
<1>6. UsersKept' /\ Counted' /\ CarrierAsked'
  BY <1>1, <1>2 DEF UsersKept, Counted, CarrierAsked
<1>7. WritersStarted' /\ ErrorTold'
  <2>1. \A u \in Writers : file[u] # "live"
    BY <1>2 DEF Writers, Users, LiveTasks
  <2>. QED BY <1>1, <1>2, <2>1 DEF WritersStarted, ErrorTold, Initialized
<1>. QED BY <1>3, <1>4, <1>5, <1>6, <1>7

(* The end of the hangup: the port is nobody's.                            *)
LEMMA HangupFreePort == ASSUME PortInv, ~ suspended, HangupFree PROVE PortInv'
<1>. USE DEF PortInv
<1>1. /\ hangup = "h_free" /\ hangup' = "none" /\ mutex' = Free /\ asleep' \subseteq asleep
      /\ ~ tlet' /\ count' = 0 /\ flags' = flags \ {"NORMAL_ACTIVE"} /\ tty' = FALSE
      /\ UNCHANGED <<claimed, blocked_open, io_error, cflag, suspended, ldisc, file, pc>>
  BY DEF HangupFree, FreeBuffer, lineVars
<1>2. Users' = Users /\ Blocked' = Blocked /\ Writers' = Writers /\ Users = {}
  BY <1>1 DEF Users, LiveTasks, Blocked, Writers, UsersKept
<1>3. ~ Initialized /\ ~ Initialized' /\ ~ claimed'
  BY <1>1 DEF Started, Initialized
<1>4. PortType'
  BY <1>1 DEF PortType
<1>5. MutexHeld' /\ FilesKept'
  BY <1>1, SerialAssumption DEF MutexHeld, FilesKept
<1>6. Started'
  BY <1>1, <1>3 DEF Started
<1>7. UsersKept' /\ CarrierAsked'
  BY <1>1, <1>2 DEF UsersKept, CarrierAsked
<1>8. Counted'
  BY <1>1, <1>2, FS_EmptySet DEF Counted
<1>9. WritersStarted' /\ ErrorTold'
  BY <1>1, <1>2, <1>3 DEF WritersStarted, ErrorTold
<1>. QED BY <1>4, <1>5, <1>6, <1>7, <1>8, <1>9

(* The suspend of the machine, with no call on its way.                    *)
LEMMA SuspendPort == ASSUME PortInv, ~ suspended, Suspend PROVE PortInv'
<1>. USE DEF PortInv, portVars
<1>1. /\ \A u \in Tasks : pc[u] = "idle"
      /\ hangup = "none" /\ ldisc = "none" /\ suspended' = TRUE
      /\ claimed' => claimed
      /\ UNCHANGED <<buf, tlet, portVars, cflag, mutex, hangup, ldisc, file, pc, asleep>>
  BY DEF Suspend, ringVars, lineVars, taskVars
<1>2. Users' = Users /\ Blocked' = Blocked /\ Writers' = Writers
  BY <1>1 DEF Users, LiveTasks, Blocked, Writers
<1>3. PortType' /\ MutexHeld' /\ FilesKept'
  BY <1>1 DEF PortType, MutexHeld, FilesKept
<1>4. Started' /\ UsersKept' /\ WritersStarted'
  BY <1>1, <1>2 DEF Started, UsersKept, WritersStarted, Initialized
<1>5. Counted' /\ ErrorTold' /\ CarrierAsked'
  BY <1>1, <1>2 DEF Counted, ErrorTold, CarrierAsked, Initialized
<1>. QED BY <1>3, <1>4, <1>5

(* What was suspended has its interrupts again, or is shut down.           *)
LEMMA ResumePort == ASSUME PortInv, Resume PROVE PortInv'
<1>. USE DEF PortInv
<1>1. /\ suspended /\ ~ suspended'
      /\ \A u \in Tasks : pc[u] = "idle"
      /\ hangup = "none"
      /\ UNCHANGED <<count, blocked_open, tty, cflag, mutex, hangup, ldisc, file, pc, asleep>>
  BY DEF Resume, lineVars, taskVars, FilesKept
<1>2. /\ flags' \subseteq {"INITIALIZED", "NORMAL_ACTIVE", "CTS_FLOW", "CHECK_CD"}
      /\ CarrierAsked' /\ (claimed' <=> Initialized') /\ (Initialized' => Initialized)
      /\ (Initialized' => buf') /\ (tlet' => tlet)
      /\ (io_error => io_error') /\ (Initialized => Initialized' \/ io_error')
  <2>1. CASE ~ Initialized
    BY <1>1, <2>1 DEF Resume, Initialized, Started, PortType, CarrierAsked
  <2>2. CASE Initialized
    <3>1. PICK ok \in Startups :
            /\ StartupUart(ok)
            /\ IF ok
                 THEN /\ flags' = IF tty THEN ChangedSpeed(flags, cflag) ELSE flags
                      /\ UNCHANGED <<io_error, buf, tlet>>
                 ELSE /\ flags' = flags \ {"INITIALIZED"}
                      /\ io_error' = (io_error \/ tty)
                      /\ FreeBuffer
      BY <2>2 DEF Resume
    <3>2. claimed' = ok
      BY <3>1 DEF StartupUart
    <3>3. CASE ok
      BY <1>1, <2>2, <3>1, <3>2, <3>3 DEF Initialized, ChangedSpeed, Started, PortType, CarrierAsked
    <3>4. CASE ~ ok
      BY <1>1, <2>2, <3>1, <3>2, <3>4 DEF Initialized, FreeBuffer, Started, PortType, CarrierAsked
    <3>. QED BY <3>3, <3>4
  <2>. QED BY <2>1, <2>2
<1>3. Users' = Users /\ Blocked' = Blocked /\ Writers' = Writers /\ Writers = {}
  BY <1>1 DEF Users, LiveTasks, Blocked, Writers
<1>4. PortType' /\ MutexHeld' /\ FilesKept'
  BY <1>1, <1>2 DEF PortType, MutexHeld, FilesKept
<1>5. Started' /\ UsersKept' /\ WritersStarted'
  BY <1>1, <1>2, <1>3 DEF Started, UsersKept, WritersStarted
<1>6. Counted' /\ ErrorTold'
  BY <1>1, <1>2, <1>3 DEF Counted, ErrorTold
<1>. QED BY <1>2, <1>4, <1>5, <1>6

-----------------------------------------------------------------------------

(* Every step keeps the invariant.                                         *)
LEMMA PortNext == ASSUME PortInv, [Next]_vars PROVE PortInv'
<1>1. CASE UNCHANGED vars
  <2>1. UNCHANGED <<buf, claimed, tlet, portVars, cflag, restVars, file, pc, asleep>>
    BY <1>1 DEF vars, uartVars, lineVars, taskVars
  <2>2. Users' = Users /\ Blocked' = Blocked /\ Writers' = Writers
    BY <2>1 DEF Users, LiveTasks, Blocked, Writers
  <2>. USE <2>1, <2>2 DEF PortInv, portVars, restVars
  <2>3. PortType' /\ MutexHeld' /\ FilesKept'
    BY DEF PortType, MutexHeld, FilesKept
  <2>4. Started' /\ UsersKept' /\ WritersStarted'
    BY DEF Started, UsersKept, WritersStarted, Initialized
  <2>5. Counted' /\ ErrorTold' /\ CarrierAsked'
    BY DEF Counted, ErrorTold, CarrierAsked, Initialized
  <2>. QED BY <2>3, <2>4, <2>5
<1>2. CASE Resume
  BY <1>2, ResumePort
<1>3. ASSUME ~ suspended, NEW t \in Tasks, Calls(t) \/ Steps(t) \/ OpenSignalled(t)
      PROVE  PortInv'
  <2>1. CASE OpenCall(t) \/ CloseCall(t) \/ WriteCall(t) \/ SetTermios(t)
    BY <1>3, <2>1, OpenCallPort, SimpleMoves, SetTermiosPort
  <2>2. CASE Reconfigure(t) \/ SetInfo(t) \/ ReconfigureFree(t) \/ ReconfigureStart(t)
    BY <1>3, <2>2, ReconfigurePort, SetInfoPort, ReconfigureFreePort, ReconfigureStartPort
  <2>3. CASE OpenGet(t) \/ OpenHungUp(t) \/ OpenReady(t) \/ OpenSleep(t) \/ OpenWoken(t)
    BY <1>3, <2>3, OpenGetPort, OpenHungUpPort, OpenReadyPort, OpenSleepPort, OpenWokenPort
  <2>4. CASE CloseLock(t) \/ CloseDrained(t) \/ CloseSent(t) \/ CloseFree(t) \/ Release(t)
    BY <1>3, <2>4, CloseLockPort, SimpleMoves, CloseSentPort, CloseFreePort, ReleasePort
  <2>5. CASE WriteCheck(t) \/ WriteCopy(t) \/ WriteStart(t) \/ WriteWoken(t) \/ FlowOn(t) \/ FlowOff(t)
    BY <1>3, <2>5, SimpleMoves
  <2>6. CASE OpenSignalled(t)
    BY <1>3, <2>6, OpenSignalledPort
  <2>. QED BY <1>3, <2>1, <2>2, <2>3, <2>4, <2>5, <2>6 DEF Calls, Steps
<1>4. CASE ~ suspended /\ Hangup
  BY <1>4, HangupMarkPort, HangupLockPort, HangupFreePort DEF Hangup
<1>5. CASE ~ suspended /\ (DcdChange \/ Suspend)
  BY <1>5, DcdPort, SuspendPort
<1>6. CASE ~ suspended /\ Quietly
  BY <1>6, QuietSteps
<1>. QED BY <1>1, <1>2, <1>3, <1>4, <1>5, <1>6 DEF Next, Awake, Received, Quietly

(* In every reachable state: one holder of the mutex and of the big lock,  *)
(*  and port, page, interrupts and file agree with the stage of every call. *)
THEOREM PortInvariant == Spec => []PortInv
<1>. QED BY PortInit, PortNext, PTL DEF Spec

(* No interrupt of the port without the buffer and the tty its handler     *)
(* follows.                                                                *)
THEOREM InterruptsOwnedAlways == Spec => []InterruptsOwned
<1>1. PortInv => InterruptsOwned
  BY DEF PortInv, Started, InterruptsOwned
<1>. QED BY <1>1, PortInvariant, PTL

(* Every user is counted, and none is left on a dead port untold.          *)
THEOREM PortKeptAlways == Spec => []PortKept
<1>1. ASSUME PortInv PROVE PortKept
  <2>1. Users # {} /\ ~ io_error => Initialized
    BY <1>1 DEF PortInv, ErrorTold, Users, LiveTasks
  <2>. QED BY <1>1, <2>1 DEF PortInv, Counted, Blocked, Started, PortKept
<1>. QED BY <1>1, PortInvariant, PTL

-----------------------------------------------------------------------------
(* The receiver is turned off by the close that goes on to the shutdown.   *)
LEMMA ReceiverNext == ASSUME PortInv, ReceiverOn, [Next]_vars PROVE ReceiverOn'
<1>. USE DEF ReceiverOn
<1>1. CASE UNCHANGED vars
  BY <1>1 DEF vars, uartVars, taskVars
<1>2. CASE Resume
  BY <1>2 DEF Resume, StartupUart, taskVars
<1>3. ASSUME NEW t \in Tasks, Calls(t) \/ Steps(t) \/ OpenSignalled(t), ~ suspended
      PROVE  ReceiverOn'
  <2>. USE DEF PortInv, PortType, Goto, uartVars, irqVars
  <2>1. CASE CloseDrained(t)
    BY <2>1 DEF CloseDrained
  <2>2. CASE CloseSent(t) \/ Reconfigure(t)
    <3>1. ~ claimed'
      BY <2>2, ShutdownEffect DEF CloseSent, Reconfigure
    <3>. QED BY <3>1
  <2>3. CASE OpenGet(t) \/ ReconfigureStart(t)
    <3>1. UNCHANGED <<claimed, rx_enabled>> \/ (claimed' => rx_enabled')
      BY <2>3 DEF OpenGet, ReconfigureStart, Startup, StartupUart
    <3>2. \A u \in Tasks : pc[u] = "c_sent" => pc'[u] = "c_sent"
      BY <2>3 DEF OpenGet, ReconfigureStart
    <3>. QED BY <3>1, <3>2
  <2>4. CASE OpenCall(t) \/ OpenHungUp(t) \/ OpenReady(t) \/ OpenSleep(t) \/ OpenWoken(t) \/ OpenSignalled(t)
    BY <2>4 DEF OpenCall, OpenHungUp, OpenReady, OpenSleep, OpenWoken, OpenSignalled
  <2>5. CASE CloseCall(t) \/ CloseLock(t) \/ CloseFree(t) \/ Release(t)
    BY <2>5 DEF CloseCall, CloseLock, CloseFree, Release
  <2>6. CASE WriteCall(t) \/ WriteCheck(t) \/ WriteCopy(t) \/ WriteStart(t) \/ WriteWoken(t)
    BY <2>6 DEF WriteCall, WriteCheck, WriteCopy, WriteStart, WriteWoken
  <2>7. CASE SetTermios(t) \/ FlowOn(t) \/ FlowOff(t) \/ SetInfo(t) \/ ReconfigureFree(t)
    BY <2>7 DEF SetTermios, FlowOn, FlowOff, SetInfo, ReconfigureFree
  <2>. QED BY <1>3, <2>1, <2>2, <2>3, <2>4, <2>5, <2>6, <2>7 DEF Calls, Steps
<1>4. CASE Hangup
  <2>1. CASE HangupLock
    <3>1. (~ claimed' \/ UNCHANGED <<claimed, rx_enabled>>) /\ UNCHANGED pc
      BY <2>1, ShutdownEffect DEF HangupLock, PortInv
    <3>. QED BY <3>1
  <2>. QED BY <1>4, <2>1 DEF Hangup, HangupMark, HangupFree, uartVars
<1>5. CASE Suspend \/ DcdChange
  BY <1>5 DEF Suspend, DcdChange, taskVars, uartVars, PortInv, Started
<1>6. CASE Quietly
  BY <1>6 DEF Quietly, Tasklet, FlushBuffer, PutChar, FlushChars, StopTty, StartTty, SendXchar,
     TakeBackXchar, TransmitIrq, TxChars, Hardware, CtsChange, taskVars, uartVars, irqVars
<1>. QED BY <1>1, <1>2, <1>3, <1>4, <1>5, <1>6 DEF Next, Awake, Received, Quietly

(* A started port receives until its last close.                           *)
THEOREM ReceiverOnAlways == Spec => []ReceiverOn
<1>1. Init => ReceiverOn
  BY DEF Init, InitUart, ReceiverOn
<1>. QED BY <1>1, ReceiverNext, PortInvariant, PTL DEF Spec

-----------------------------------------------------------------------------
(* Openers that wait for the carrier.                                      *)

(* Nobody makes the port ignore its carrier while it is open.              *)
CarrierWatched == \A c \in Cflags : "CLOCAL" \notin c

(* Whoever may sleep or be woken next - nobody has the mutex, or an opener *)
(* - the sleepers still have what they wait for ahead of them.             *)
Sleepers == Openers \cap asleep
SleepersWait ==
  /\ Sleepers # {} /\ (mutex = Free \/ \E u \in Tasks : pc[u] = "o_ready") =>
       Initialized /\ tty /\ ~ carrier /\ "CLOCAL" \notin cflag
  /\ \A u \in Tasks : pc[u] \in {"s_free", "s_start"} => Sleepers = {}

(* No step leaves an opener asleep whose carrier has come.                 *)
LEMMA SleepersNext ==
  ASSUME PortInv, SleepersWait, CarrierWatched, [Next]_vars
  PROVE  SleepersWait'
<1>. USE DEF SleepersWait, Sleepers, Openers
<1>1. CASE UNCHANGED vars
  BY <1>1 DEF vars, lineVars, taskVars, portVars, restVars, Initialized
<1>2. CASE Resume \/ Suspend
  <2>1. \A u \in Tasks : pc'[u] = "idle"
    BY <1>2 DEF Resume, Suspend, taskVars, PortInv, FilesKept
  <2>. QED BY <2>1
<1>3. ASSUME NEW t \in Tasks, Calls(t) \/ Steps(t) \/ OpenSignalled(t), ~ suspended
      PROVE  SleepersWait'
  <2>. USE DEF PortInv, PortType, Goto, uartVars, portVars, lineVars, restVars
  <2>1. CASE OpenGet(t)
    <3>1. Sleepers' = Sleepers /\ mutex = Free /\ tty' /\ UNCHANGED <<carrier, cflag>>
      BY <2>1 DEF OpenGet, MutexFree
    <3>2. Initialized => Initialized'
      BY <2>1 DEF OpenGet, Startup, Initialized
    <3>3. pc' = [pc EXCEPT ![t] = "c_lock"] \/ pc' = [pc EXCEPT ![t] = "o_ready"]
      BY <2>1 DEF OpenGet
    <3>4. \A u \in Tasks : pc'[u] \notin {"s_free", "s_start"}
      BY <3>1, <3>3, SerialAssumption DEF MutexHeld, Held
    <3>. QED BY <3>1, <3>2, <3>4
  <2>2. CASE OpenReady(t)
    <3>1. Initialized' <=> Initialized
      BY <2>2 DEF OpenReady, Initialized, ChangedSpeed
    <3>. QED BY <2>2, <3>1 DEF OpenReady
  <2>3. CASE OpenSleep(t)
    <3>1. Initialized /\ tty /\ ~ carrier /\ "CLOCAL" \notin cflag
      BY <2>3 DEF OpenSleep, NoNeedToWait
    <3>2. \A u \in Tasks : pc'[u] \notin {"s_free", "s_start"}
      BY <2>3, SerialAssumption DEF OpenSleep, MutexHeld, Held
    <3>. QED BY <2>3, <3>1, <3>2 DEF OpenSleep, Initialized
  <2>4. CASE OpenCall(t) \/ OpenHungUp(t) \/ OpenWoken(t) \/ OpenSignalled(t)
    BY <2>4 DEF OpenCall, OpenHungUp, OpenWoken, OpenSignalled, Initialized, MutexFree
  <2>5. CASE CloseCall(t) \/ CloseLock(t) \/ CloseDrained(t) \/ Release(t)
    BY <2>5, SerialAssumption DEF CloseCall, CloseLock, CloseDrained, Release, Initialized, MutexFree, MutexHeld, Held
  <2>6. CASE CloseSent(t)
    BY <2>6, SerialAssumption DEF CloseSent, MutexHeld, Held
  <2>7. CASE CloseFree(t)
    BY <2>7 DEF CloseFree
  <2>8. CASE WriteCall(t) \/ WriteCheck(t) \/ WriteCopy(t) \/ WriteStart(t) \/ WriteWoken(t)
    BY <2>8 DEF WriteCall, WriteCheck, WriteCopy, WriteStart, WriteWoken, Initialized
  <2>9. CASE SetTermios(t)
    <3>1. Initialized' <=> Initialized
      BY <2>9 DEF SetTermios, Initialized, ChangedSpeed
    <3>. QED BY <2>9, <3>1 DEF SetTermios, CarrierWatched
  <2>10. CASE FlowOn(t) \/ FlowOff(t)
    BY <2>10 DEF FlowOn, FlowOff, Initialized
  <2>11. CASE Reconfigure(t)
    <3>1. UsersKept'
      BY <2>11, <1>3, ReconfigurePort
    <3>2. pc'[t] = "s_free" /\ mutex' = t
      BY <2>11 DEF Reconfigure
    <3>3. Blocked' = {}
      BY <3>1, <3>2 DEF UsersKept
    <3>. QED BY <2>11, <3>2, <3>3, SerialAssumption DEF Reconfigure, Blocked
  <2>12. CASE SetInfo(t)
    BY <2>12 DEF SetInfo, MutexFree
  <2>13. CASE ReconfigureFree(t) \/ ReconfigureStart(t)
    BY <2>13 DEF ReconfigureFree, ReconfigureStart, Killed, FreeBuffer
  <2>. QED BY <1>3, <2>1, <2>2, <2>3, <2>4, <2>5, <2>6, <2>7, <2>8, <2>9, <2>10, <2>11,
              <2>12, <2>13 DEF Calls, Steps
<1>4. CASE ~ suspended /\ Hangup
  <2>. USE DEF uartVars, portVars, lineVars, PortInv
  <2>1. CASE HangupMark
    BY <2>1 DEF HangupMark, Initialized
  <2>2. CASE HangupLock
    BY <2>2, SerialAssumption DEF HangupLock, Initialized, MutexHeld, Held, BklFree
  <2>3. CASE HangupFree
    BY <2>3 DEF HangupFree
  <2>. QED BY <1>4, <2>1, <2>2, <2>3 DEF Hangup
<1>5. CASE ~ suspended /\ DcdChange
  <2>1. CASE ~ carrier
    <3>1. CASE claimed /\ "CHECK_CD" \in flags
      BY <2>1, <3>1, <1>5 DEF DcdChange
    <3>2. CASE ~ (claimed /\ "CHECK_CD" \in flags)
      <4>1. ~ (Initialized /\ "CLOCAL" \notin cflag)
        BY <3>2, <1>5 DEF PortInv, Started, CarrierAsked
      <4>. QED BY <1>5, <3>2, <4>1 DEF DcdChange
    <3>. QED BY <3>1, <3>2
  <2>2. CASE carrier
    BY <1>5, <2>2 DEF DcdChange
  <2>. QED BY <2>1, <2>2
<1>6. CASE Quietly
  <2>1. asleep' \subseteq asleep /\ UNCHANGED <<pc, mutex, flags, tty, carrier, cflag>>
    BY <1>6 DEF Quietly, Tasklet, FlushBuffer, PutChar, FlushChars, StopTty, StartTty, SendXchar,
       TakeBackXchar, TransmitIrq, Hardware, CtsChange, taskVars, portVars, lineVars, restVars
  <2>. QED BY <2>1 DEF Initialized
<1>. QED BY <1>1, <1>2, <1>3, <1>4, <1>5, <1>6 DEF Next, Awake, Received, Quietly

(* On a port whose settings leave CLOCAL off, an opener sleeps only while  *)
(* the carrier is away: carrier, close and hangup wake it.                 *)
THEOREM OpenersWokenAlways == ASSUME CarrierWatched PROVE Spec => []OpenersWoken
<1>1. Init => SleepersWait
  BY DEF Init, SleepersWait, Sleepers, Openers
<1>2. PortInv /\ SleepersWait /\ [Next]_vars => SleepersWait'
  BY SleepersNext
<1>3. SleepersWait => OpenersWoken
  BY DEF SleepersWait, Sleepers, OpenersWoken
<1>. QED BY <1>1, <1>2, <1>3, PortInvariant, PTL DEF Spec

-----------------------------------------------------------------------------
(* The transmit buffer and the transmitter that empties it.                *)

(* Arithmetic of a ring of L places, one turn at a time.                   *)

(* A place j further than i is i + j places further.                       *)
LEMMA ModAdd ==
  ASSUME NEW L \in Nat \ {0}, NEW a \in 0 .. L - 1, NEW i \in 0 .. L, NEW j \in 0 .. L, i + j <= L
  PROVE  (((a + i) % L) + j) % L = (a + i + j) % L
<1>1. (a + i) % L = IF a + i < L THEN a + i ELSE a + i - L
  OBVIOUS
<1>2. CASE a + i < L
  BY <1>1, <1>2
<1>3. CASE a + i >= L
  <2>1. (((a + i) % L) + j) % L = a + i + j - L
    BY <1>1, <1>3
  <2>2. (a + i + j) % L = a + i + j - L
    BY <1>3
  <2>. QED BY <2>1, <2>2
<1>. QED BY <1>2, <1>3

(* How far the place i places after a is from the one j places after it.   *)
LEMMA ModDistance ==
  ASSUME NEW L \in Nat \ {0}, NEW a \in 0 .. L - 1, NEW i \in 0 .. L - 1, NEW j \in 0 .. L - 1
  PROVE  (((a + i) % L) - ((a + j) % L)) % L = IF i >= j THEN i - j ELSE i - j + L
<1>1. /\ (a + i) % L = IF a + i < L THEN a + i ELSE a + i - L
      /\ (a + j) % L = IF a + j < L THEN a + j ELSE a + j - L
  OBVIOUS
<1>. DEFINE d == ((a + i) % L) - ((a + j) % L)
<1>2. /\ d \in Int /\ - L <= d /\ d < L
      /\ i >= j => d = i - j \/ d = i - j - L
      /\ i < j => d = i - j \/ d = i - j + L
  BY <1>1
<1>. HIDE DEF d
<1>3. d % L = IF i >= j THEN i - j ELSE i - j + L
  <2>1. 0 <= d => d % L = d
    BY <1>2
  <2>2. d < 0 => d % L = d + L
    BY <1>2
  <2>. QED BY <1>2, <2>1, <2>2
<1>. QED BY <1>3 DEF d

(* The place of a cell counted from another one.                           *)
LEMMA ModOffset ==
  ASSUME NEW L \in Nat \ {0}, NEW a \in 0 .. L - 1, NEW i \in 0 .. L - 1
  PROVE  (((a + i) % L) - a) % L = i
<1>1. (a + i) % L = IF a + i < L THEN a + i ELSE a + i - L
  OBVIOUS
<1>2. CASE a + i < L
  BY <1>1, <1>2
<1>3. CASE a + i >= L
  BY <1>1, <1>3
<1>. QED BY <1>2, <1>3

(* head is Pending places after tail.                                      *)
LEMMA PendingIs ==
  ASSUME head \in Places, tail \in Places
  PROVE  /\ Pending \in Places
         /\ head = (tail + Pending) % UART_XMIT_SIZE
         /\ Pending = 0 <=> Empty
<1>. DEFINE L == UART_XMIT_SIZE
<1>0. L \in Nat \ {0} /\ Places = 0 .. L - 1
  BY UartAssumption DEF Places
<1>. HIDE DEF L
<1>1. CASE head >= tail
  <2>1. (head - tail) % L = head - tail
    BY <1>0, <1>1
  <2>2. (tail + (head - tail)) % L = head
    BY <1>0, <1>1
  <2>. QED BY <1>0, <1>1, <2>1, <2>2 DEF Pending, Empty, L
<1>2. CASE head < tail
  <2>1. (head - tail) % L = head - tail + L
    BY <1>0, <1>2
  <2>2. (tail + (head - tail + L)) % L = head
    <3>1. tail + (head - tail + L) = head + L
      BY <1>0
    <3>2. (head + L) % L = head
      BY <1>0
    <3>. QED BY <3>1, <3>2
  <2>. QED BY <1>0, <1>2, <2>1, <2>2 DEF Pending, Empty, L
<1>. QED BY <1>0, <1>1, <1>2

(* The two pieces of uart_write take what there is room for, and no more.  *)
LEMMA RoomIs ==
  ASSUME head \in Places, tail \in Places, NEW n \in Nat
  PROVE  Room(n) = Lesser(n, UART_XMIT_SIZE - 1 - Pending)
<1>. DEFINE L == UART_XMIT_SIZE
            first == Lesser(n, SpaceToEnd(head))
<1>0. L \in Nat \ {0} /\ head \in 0 .. L - 1 /\ tail \in 0 .. L - 1
  BY UartAssumption DEF Places
<1>. HIDE DEF L
<1>1. CASE head >= tail
  <2>1. Pending = head - tail
    BY <1>0, <1>1 DEF Pending, L
  <2>2. (L - 1 - head + tail) % L = L - 1 - head + tail
    BY <1>0, <1>1
  <2>3. SpaceToEnd(head) = IF tail = 0 THEN L - 1 - head ELSE L - head
    BY <1>0, <1>1, <2>2 DEF SpaceToEnd, Lesser, L
  <2>4. CASE n <= SpaceToEnd(head)
    <3>1. first = n /\ n - first = 0
      BY <2>4 DEF Lesser
    <3>2. SpaceToEnd((head + first) % L) >= 0 /\ SpaceToEnd((head + first) % L) \in Int
      <4>1. (head + first) % L \in 0 .. L - 1
        BY <1>0, <3>1
      <4>2. \A h \in 0 .. L - 1 : (L - 1 - h + tail) % L \in 0 .. L - 1
        BY <1>0
      <4>. QED BY <1>0, <4>1, <4>2 DEF SpaceToEnd, Lesser, L
    <3>3. Room(n) = n
      BY <3>1, <3>2 DEF Room, Lesser, L
    <3>. QED BY <1>0, <1>1, <2>1, <2>3, <2>4, <3>3 DEF Lesser, L
  <2>5. CASE n > SpaceToEnd(head) /\ tail = 0
    <3>1. first = L - 1 - head
      BY <1>0, <2>3, <2>5 DEF Lesser
    <3>2. (head + first) % L = L - 1
      BY <1>0, <3>1
    <3>3. SpaceToEnd(L - 1) = 0
      BY <1>0, <2>5 DEF SpaceToEnd, Lesser, L
    <3>4. Room(n) = L - 1 - head
      BY <1>0, <2>3, <2>5, <3>1, <3>2, <3>3 DEF Room, Lesser, L
    <3>. QED BY <1>0, <2>1, <2>3, <2>5, <3>4 DEF Lesser, L
  <2>6. CASE n > SpaceToEnd(head) /\ tail # 0
    <3>1. first = L - head
      BY <1>0, <2>3, <2>6 DEF Lesser
    <3>2. (head + first) % L = 0
      BY <1>0, <3>1
    <3>3. SpaceToEnd(0) = tail - 1
      <4>1. (L - 1 - 0 + tail) % L = tail - 1
        BY <1>0, <2>6
      <4>. QED BY <1>0, <4>1 DEF SpaceToEnd, Lesser, L
    <3>4. Room(n) = first + Lesser(n - first, tail - 1)
      BY <3>2, <3>3 DEF Room, L
    <3>. QED BY <1>0, <1>1, <2>1, <2>3, <2>6, <3>1, <3>4 DEF Lesser, L
  <2>. QED BY <1>0, <2>3, <2>4, <2>5, <2>6
<1>2. CASE head < tail
  <2>1. Pending = head - tail + L
    BY <1>0, <1>2 DEF Pending, L
  <2>2. (L - 1 - head + tail) % L = tail - head - 1
    BY <1>0, <1>2
  <2>3. SpaceToEnd(head) = tail - head - 1
    BY <1>0, <1>2, <2>2 DEF SpaceToEnd, Lesser, L
  <2>4. CASE n <= SpaceToEnd(head)
    <3>1. first = n /\ n - first = 0
      BY <2>4 DEF Lesser
    <3>2. SpaceToEnd((head + first) % L) >= 0 /\ SpaceToEnd((head + first) % L) \in Int
      <4>1. (head + first) % L \in 0 .. L - 1
        BY <1>0, <3>1
      <4>2. \A h \in 0 .. L - 1 : (L - 1 - h + tail) % L \in 0 .. L - 1
        BY <1>0
      <4>. QED BY <1>0, <4>1, <4>2 DEF SpaceToEnd, Lesser, L
    <3>3. Room(n) = n
      BY <3>1, <3>2 DEF Room, Lesser, L
    <3>. QED BY <1>0, <1>2, <2>1, <2>3, <2>4, <3>3 DEF Lesser, L
  <2>5. CASE n > SpaceToEnd(head)
    <3>1. first = tail - head - 1
      BY <1>0, <2>3, <2>5 DEF Lesser
    <3>2. (head + first) % L = tail - 1
      BY <1>0, <1>2, <3>1
    <3>3. SpaceToEnd(tail - 1) = 0
      <4>1. (L - 1 - (tail - 1) + tail) % L = 0
        BY <1>0
      <4>. QED BY <1>0, <1>2, <4>1 DEF SpaceToEnd, Lesser, L
    <3>4. Room(n) = first + Lesser(n - first, 0)
      BY <3>2, <3>3 DEF Room, L
    <3>. QED BY <1>0, <1>2, <2>1, <2>3, <2>5, <3>1, <3>4 DEF Lesser, L
  <2>. QED BY <1>0, <2>3, <2>4, <2>5
<1>. QED BY <1>0, <1>1, <1>2

-----------------------------------------------------------------------------
(* The transmit buffer.                                                    *)
RingType ==
  /\ head \in Places /\ tail \in Places /\ mem \in [Places -> Numbers \cup {Stale}]
  /\ last \in Numbers /\ line \in Numbers

RingInv == RingType /\ BufferFaithful

(* What PutBytes leaves in the place i places after the tail.              *)
LEMMA PutPlaces ==
  ASSUME RingType, buf, NEW n \in Nat, n <= UART_XMIT_SIZE - 1 - Pending, PutBytes(n), tail' = tail,
         NEW i \in 0 .. Pending + n - 1
  PROVE  mem'[(tail + i) % UART_XMIT_SIZE] =
           IF i < Pending THEN mem[(tail + i) % UART_XMIT_SIZE]
           ELSE (last + 1 + (i - Pending)) % Serials
<1>. DEFINE L == UART_XMIT_SIZE
            at == (((tail + i) % L) - head) % L
<1>0. L \in Nat \ {0} /\ Places = 0 .. L - 1
  BY UartAssumption DEF Places
<1>1. Pending \in 0 .. L - 1 /\ head = (tail + Pending) % L /\ tail \in 0 .. L - 1
  BY <1>0, PendingIs DEF RingType
<1>2. i \in 0 .. L - 1
  BY <1>0, <1>1
<1>3. at = IF i >= Pending THEN i - Pending ELSE i - Pending + L
  <2>. HIDE DEF L, Pending
  <2>. QED BY <1>0, <1>1, <1>2, ModDistance
<1>4. (tail + i) % L \in Places
  BY <1>0, <1>1, <1>2
<1>5. mem'[(tail + i) % L] = IF at < n THEN (last + 1 + at) % Serials ELSE mem[(tail + i) % L]
  BY <1>4 DEF PutBytes
<1>. HIDE DEF at, L, Pending
<1>6. CASE i < Pending
  <2>1. at >= n
    BY <1>0, <1>1, <1>3, <1>6 DEF L
  <2>. QED BY <1>0, <1>1, <1>3, <1>5, <1>6, <2>1 DEF L
<1>7. CASE i >= Pending
  <2>1. at = i - Pending /\ at < n
    BY <1>1, <1>3, <1>7
  <2>. QED BY <1>1, <1>5, <1>7, <2>1 DEF L
<1>. QED BY <1>1, <1>6, <1>7

(* Accepted bytes come directly after those that are pending.              *)
LEMMA PutRing ==
  ASSUME RingInv, NEW k \in Nat, PutBytes(Room(k)), UNCHANGED <<buf, tail, line>>
  PROVE  /\ RingInv'
         /\ Room(k) = Lesser(k, UART_XMIT_SIZE - 1 - Pending)
         /\ Pending' = Pending + Room(k)
<1>. DEFINE L == UART_XMIT_SIZE
            n == Room(k)
<1>0. L \in Nat \ {0} /\ Places = 0 .. L - 1 /\ Serials \in Nat \ {0} /\ Serials >= L
  BY UartAssumption DEF Places
<1>1. Pending \in 0 .. L - 1 /\ head = (tail + Pending) % L /\ tail \in 0 .. L - 1
  BY <1>0, PendingIs DEF RingInv, RingType
<1>2. n = Lesser(k, L - 1 - Pending)
  BY RoomIs DEF RingInv, RingType
<1>3. n \in Nat /\ n <= L - 1 - Pending
  <2>. HIDE DEF n, L, Pending
  <2>. QED BY <1>0, <1>1, <1>2 DEF Lesser
<1>4. head' = (tail + (Pending + n)) % L
  <2>1. head' = (((tail + Pending) % L) + n) % L
    BY <1>1 DEF PutBytes
  <2>. HIDE DEF n, L, Pending
  <2>2. (((tail + Pending) % L) + n) % L = (tail + Pending + n) % L
    BY <1>0, <1>1, <1>3, ModAdd
  <2>. QED BY <1>0, <1>1, <1>3, <2>1, <2>2
<1>5. Pending' = Pending + n
  <2>1. Pending' = (((tail + (Pending + n)) % L) - tail) % L
    BY <1>4 DEF Pending
  <2>. HIDE DEF n, L, Pending
  <2>2. Pending + n \in 0 .. L - 1
    BY <1>0, <1>1, <1>3
  <2>3. (((tail + (Pending + n)) % L) - tail) % L = Pending + n
    BY <1>0, <1>1, <2>2, ModOffset
  <2>. QED BY <2>1, <2>3
<1>6. RingType'
  <2>1. head' \in Places
    <3>. HIDE DEF n, Pending
    <3>. QED BY <1>0, <1>1, <1>3, <1>4
  <2>2. mem' \in [Places -> Numbers \cup {Stale}] /\ last' \in Numbers
    <3>1. CASE ~ buf
      BY <3>1 DEF PutBytes, RingInv, RingType
    <3>2. CASE buf
      <4>. DEFINE at(i) == (i - head) % L
      <4>1. \A i \in Places : at(i) \in Nat
        BY <1>0 DEF RingInv, RingType
      <4>2. \A x \in Nat : x % Serials \in Numbers
        BY <1>0 DEF Numbers
      <4>3. \A i \in Places : (last + 1 + at(i)) % Serials \in Numbers
        <5>1. last \in Nat
          BY <1>0 DEF RingInv, RingType, Numbers
        <5>. HIDE DEF at
        <5>. QED BY <4>1, <4>2, <5>1
      <4>4. mem' = [i \in Places |-> IF at(i) < n THEN (last + 1 + at(i)) % Serials ELSE mem[i]]
        BY <3>2 DEF PutBytes
      <4>. HIDE DEF at
      <4>5. mem' \in [Places -> Numbers \cup {Stale}]
        BY <4>3, <4>4 DEF RingInv, RingType
      <4>6. last' = (last + n) % Serials
        BY <3>2 DEF PutBytes
      <4>7. last + n \in Nat
        <5>. HIDE DEF n
        <5>. QED BY <1>0, <1>3 DEF RingInv, RingType, Numbers
      <4>. QED BY <4>2, <4>5, <4>6, <4>7
    <3>. QED BY <3>1, <3>2
  <2>. QED BY <2>1, <2>2 DEF RingInv, RingType
<1>7. BufferFaithful'
  <2>. SUFFICES ASSUME buf
       PROVE  /\ \A i \in 0 .. Pending' - 1 : mem'[(tail + i) % L] = (line + 1 + i) % Serials
              /\ last' = (line + Pending') % Serials
    BY DEF BufferFaithful
  <2>1. /\ \A i \in 0 .. Pending - 1 : mem[(tail + i) % L] = (line + 1 + i) % Serials
        /\ last = (line + Pending) % Serials
    BY DEF RingInv, BufferFaithful
  <2>2. line \in 0 .. Serials - 1 /\ last \in 0 .. Serials - 1
    BY DEF RingInv, RingType, Numbers
  <2>3. last' = (last + n) % Serials
    BY DEF PutBytes
  <2>4. \A i \in 0 .. Pending + n - 1 :
          mem'[(tail + i) % L] = IF i < Pending THEN mem[(tail + i) % L]
                                 ELSE (last + 1 + (i - Pending)) % Serials
    BY <1>3, PutPlaces DEF RingInv
  <2>. HIDE DEF n, L, Pending
  <2>5. last' = (line + Pending') % Serials
    <3>1. (((line + Pending) % Serials) + n) % Serials = (line + Pending + n) % Serials
      BY <1>0, <1>1, <1>3, <2>2, ModAdd
    <3>. QED BY <1>1, <1>3, <1>5, <2>1, <2>2, <2>3, <3>1
  <2>6. ASSUME NEW i \in 0 .. Pending' - 1
        PROVE  mem'[(tail + i) % L] = (line + 1 + i) % Serials
    <3>1. i \in 0 .. Pending + n - 1
      BY <1>1, <1>3, <1>5
    <3>2. CASE i < Pending
      <4>1. i \in 0 .. Pending - 1
        BY <1>1, <1>3, <3>1, <3>2
      <4>. QED BY <2>1, <2>4, <3>1, <3>2, <4>1
    <3>3. CASE i >= Pending
      <4>1. mem'[(tail + i) % L] = (((line + Pending) % Serials) + (1 + (i - Pending))) % Serials
        BY <1>1, <1>3, <2>1, <2>2, <2>4, <3>1, <3>3
      <4>2. /\ 1 + (i - Pending) \in 0 .. Serials /\ Pending \in 0 .. Serials
            /\ Pending + (1 + (i - Pending)) <= Serials
        BY <1>0, <1>1, <1>3, <3>1, <3>3
      <4>3. (((line + Pending) % Serials) + (1 + (i - Pending))) % Serials
              = (line + Pending + (1 + (i - Pending))) % Serials
        BY <1>0, <2>2, <4>2, ModAdd
      <4>4. line + Pending + (1 + (i - Pending)) = line + 1 + i
        BY <1>1, <2>2, <3>1
      <4>. QED BY <4>1, <4>3, <4>4
    <3>. QED BY <1>1, <3>1, <3>2, <3>3
  <2>. QED BY <2>5, <2>6
<1>. QED BY <1>2, <1>5, <1>6, <1>7 DEF RingInv

(* The first n pending bytes leave the buffer.                             *)
LEMMA SendRing ==
  ASSUME RingInv, buf, NEW n \in 1 .. Pending, SendBytes(n), UNCHANGED <<buf, head, last>>
  PROVE  RingInv' /\ Pending' = Pending - n
<1>. DEFINE L == UART_XMIT_SIZE
<1>0. L \in Nat \ {0} /\ Places = 0 .. L - 1 /\ Serials \in Nat \ {0} /\ Serials >= L
  BY UartAssumption DEF Places
<1>1. Pending \in 0 .. L - 1 /\ head = (tail + Pending) % L /\ tail \in 0 .. L - 1
  BY <1>0, PendingIs DEF RingInv, RingType
<1>2. line \in 0 .. Serials - 1 /\ last \in 0 .. Serials - 1
  BY DEF RingInv, RingType, Numbers
<1>3. tail' = (tail + n) % L
  BY DEF SendBytes
<1>4. Pending' = Pending - n
  <2>1. Pending' = (((tail + Pending) % L) - ((tail + n) % L)) % L
    BY <1>1, <1>3 DEF Pending
  <2>. HIDE DEF L, Pending
  <2>2. n \in 0 .. L - 1 /\ Pending >= n
    BY <1>0, <1>1
  <2>3. (((tail + Pending) % L) - ((tail + n) % L)) % L = Pending - n
    BY <1>0, <1>1, <2>2, ModDistance
  <2>. QED BY <2>1, <2>3
<1>5. \A i \in 0 .. Pending - 1 : mem[(tail + i) % L] = (line + 1 + i) % Serials
  BY DEF RingInv, BufferFaithful
<1>6. line' = (line + n) % Serials
  <2>1. line' = mem[(tail + (n - 1)) % L]
    BY <1>1 DEF SendBytes
  <2>. HIDE DEF L, Pending
  <2>2. n - 1 \in 0 .. Pending - 1 /\ line + 1 + (n - 1) = line + n
    BY <1>1, <1>2
  <2>. QED BY <1>5, <2>1, <2>2
<1>7. RingType'
  <2>1. tail' \in Places
    BY <1>0, <1>1, <1>3
  <2>2. line' \in Numbers
    <3>. HIDE DEF Pending
    <3>. QED BY <1>0, <1>1, <1>2, <1>6 DEF Numbers
  <2>. QED BY <2>1, <2>2 DEF SendBytes, RingInv, RingType
<1>8. last' = (line' + Pending') % Serials
  <2>1. last = (line + Pending) % Serials
    BY DEF RingInv, BufferFaithful
  <2>. HIDE DEF L, Pending
  <2>2. /\ n \in 0 .. Serials /\ Pending - n \in 0 .. Serials /\ n + (Pending - n) <= Serials
        /\ line + n + (Pending - n) = line + Pending
    BY <1>0, <1>1, <1>2
  <2>3. (((line + n) % Serials) + (Pending - n)) % Serials = (line + n + (Pending - n)) % Serials
    BY <1>0, <1>2, <2>2, ModAdd
  <2>. QED BY <1>4, <1>6, <2>1, <2>2, <2>3
<1>9. ASSUME NEW i \in 0 .. Pending' - 1
      PROVE  mem'[(tail' + i) % L] = (line' + 1 + i) % Serials
  <2>. DEFINE p == (tail + (n + i)) % L
  <2>1. n + i \in 0 .. Pending - 1 /\ n + i \in 0 .. L - 1 /\ n \in 0 .. L - 1 /\ i \in 0 .. L - 1 /\ n + i <= L
    <3>. HIDE DEF Pending
    <3>. QED BY <1>0, <1>1, <1>4
  <2>2. (tail' + i) % L = p
    <3>. HIDE DEF L, Pending
    <3>1. (((tail + n) % L) + i) % L = (tail + n + i) % L
      BY <1>0, <1>1, <2>1, ModAdd
    <3>. QED BY <1>0, <1>1, <1>3, <2>1, <3>1
  <2>3. p \in Places /\ ~ (p - tail) % L < n
    <3>2. p \in 0 .. L - 1
      BY <1>0, <1>1, <2>1
    <3>. HIDE DEF L, Pending
    <3>3. (((tail + (n + i)) % L) - tail) % L = n + i
      BY <1>0, <1>1, <2>1, ModOffset
    <3>. QED BY <1>0, <1>1, <2>1, <3>2, <3>3
  <2>4. mem'[p] = mem[p]
    BY <2>3 DEF SendBytes
  <2>5. mem[p] = (line + 1 + (n + i)) % Serials
    <3>. HIDE DEF Pending, L
    <3>. QED BY <1>5, <2>1
  <2>6. (line' + 1 + i) % Serials = (line + 1 + (n + i)) % Serials
    <3>. HIDE DEF Pending, L
    <3>1. n \in 0 .. Serials /\ 1 + i \in 0 .. Serials /\ n + (1 + i) <= Serials
      BY <1>0, <1>1, <2>1
    <3>2. (((line + n) % Serials) + (1 + i)) % Serials = (line + n + (1 + i)) % Serials
      BY <1>0, <1>2, <3>1, ModAdd
    <3>3. (line + n) % Serials \in Int
      BY <1>0, <1>2, <3>1
    <3>4. line + n + (1 + i) = line + 1 + (n + i) /\ line' + 1 + i = line' + (1 + i)
      BY <1>2, <1>6, <2>1, <3>3
    <3>. QED BY <1>6, <3>2, <3>4
  <2>. QED BY <2>2, <2>4, <2>5, <2>6
<1>. QED BY <1>4, <1>7, <1>8, <1>9 DEF RingInv, BufferFaithful

(* A cleared buffer, or a new one.                                         *)
LEMMA ClearRing ==
  ASSUME RingInv, Clear, last' = last
  PROVE  RingInv' /\ Pending' = 0
<1>1. UART_XMIT_SIZE \in Nat \ {0} /\ Serials \in Nat \ {0}
  BY UartAssumption
<1>2. Pending' = 0
  BY <1>1 DEF Clear, Pending
<1>3. RingType'
  BY <1>1 DEF Clear, RingInv, RingType, Places, Numbers
<1>4. last' = (line' + 0) % Serials
  BY <1>1 DEF Clear, RingInv, RingType, Numbers
<1>. QED BY <1>2, <1>3, <1>4 DEF RingInv, BufferFaithful

-----------------------------------------------------------------------------
(* Every step, for the buffer and for the writers that sleep beside it.    *)

(* A task that sleeps, or is about to, with bytes left to write finds the  *)
(* transmitter busy enough to wake it, or the wake-up on its way.          *)
Waiting(t) == file[t] = "live" /\ (pc[t] = "w_block" \/ (pc[t] = "w_start" /\ left[t] > 0))
WritersWaited == \A t \in asleep : Waiting(t) => Pending >= WAKEUP_CHARS \/ tlet

BufferInv == RingInv /\ left \in [Tasks -> Nat] /\ WritersWaited

(* A step that touches neither the ring nor its history keeps it.          *)
LEMMA SameRing ==
  ASSUME RingInv, UNCHANGED <<head, tail, mem, last, line>>, buf' => buf
  PROVE  RingInv' /\ Pending' = Pending
<1>1. Pending' = Pending
  BY DEF Pending
<1>. HIDE DEF Pending
<1>. QED BY <1>1 DEF RingInv, RingType, BufferFaithful

(* Most calls leave the buffer alone.                                      *)
LEMMA CallsBuffer ==
  ASSUME PortInv, PortInv', BufferInv, NEW t \in Tasks,
         \/ OpenCall(t) \/ OpenHungUp(t) \/ OpenReady(t) \/ OpenSleep(t) \/ OpenWoken(t)
         \/ OpenSignalled(t) \/ CloseCall(t) \/ CloseLock(t) \/ CloseDrained(t) \/ CloseSent(t)
         \/ Release(t) \/ WriteCall(t) \/ WriteCheck(t) \/ WriteStart(t) \/ WriteWoken(t)
         \/ SetTermios(t) \/ FlowOn(t) \/ FlowOff(t) \/ Reconfigure(t) \/ SetInfo(t)
  PROVE  BufferInv'
<1>1. UNCHANGED <<head, tail, mem, last, line, buf, tlet>>
  <2>. USE DEF uartVars, ringVars, irqVars
  <2>1. CASE OpenCall(t) \/ OpenHungUp(t) \/ OpenReady(t) \/ OpenSleep(t) \/ OpenWoken(t) \/ OpenSignalled(t)
    BY <2>1 DEF OpenCall, OpenHungUp, OpenReady, OpenSleep, OpenWoken, OpenSignalled
  <2>2. CASE CloseCall(t) \/ CloseLock(t) \/ CloseDrained(t) \/ CloseSent(t) \/ Release(t)
    BY <2>2 DEF CloseCall, CloseLock, CloseDrained, CloseSent, Release
  <2>3. CASE WriteCall(t) \/ WriteCheck(t) \/ WriteStart(t) \/ WriteWoken(t)
    BY <2>3 DEF WriteCall, WriteCheck, WriteStart, WriteWoken
  <2>4. CASE SetTermios(t) \/ FlowOn(t) \/ FlowOff(t) \/ Reconfigure(t) \/ SetInfo(t)
    BY <2>4 DEF SetTermios, FlowOn, FlowOff, Reconfigure, SetInfo
  <2>. QED BY <2>1, <2>2, <2>3, <2>4
<1>2. RingInv' /\ Pending' = Pending
  BY <1>1, SameRing DEF BufferInv
<1>3. left' \in [Tasks -> Nat] /\ \A u \in Tasks : Waiting(u)' /\ u \in asleep' => Waiting(u) /\ u \in asleep
  <2>. USE DEF BufferInv, Waiting, Goto, PortInv, PortType, restVars, taskVars
  <2>1. CASE OpenCall(t) \/ OpenHungUp(t) \/ OpenReady(t) \/ OpenSleep(t) \/ OpenWoken(t) \/ OpenSignalled(t)
    BY <2>1 DEF OpenCall, OpenHungUp, OpenReady, OpenSleep, OpenWoken, OpenSignalled
  <2>2. CASE CloseCall(t) \/ CloseLock(t) \/ CloseDrained(t) \/ CloseSent(t) \/ Release(t)
    BY <2>2 DEF CloseCall, CloseLock, CloseDrained, CloseSent, Release
  <2>3. CASE WriteCall(t) \/ WriteStart(t) \/ WriteWoken(t)
    BY <2>3, SerialAssumption DEF WriteCall, WriteStart, WriteWoken
  <2>4. CASE WriteCheck(t)
    <3>1. pc[t] = "w_check" /\ (file[t] = "live" => buf)
      BY <2>4 DEF WriteCheck, WritersStarted, Writers, Started
    <3>. QED BY <2>4, <3>1 DEF WriteCheck
  <2>5. CASE SetTermios(t) \/ FlowOn(t) \/ FlowOff(t) \/ Reconfigure(t) \/ SetInfo(t)
    BY <2>5 DEF SetTermios, FlowOn, FlowOff, Reconfigure, SetInfo
  <2>. QED BY <2>1, <2>2, <2>3, <2>4, <2>5
<1>. QED BY <1>1, <1>2, <1>3 DEF BufferInv, WritersWaited, PortInv, PortType

(* uart_startup: a new buffer is for a port that nobody writes to.         *)
LEMMA StartupBuffer ==
  ASSUME PortInv, PortInv', BufferInv, NEW t \in Tasks, OpenGet(t) \/ ReconfigureStart(t)
  PROVE  BufferInv'
<1>1. PICK b \in BOOLEAN : Startup(b)
  BY DEF OpenGet, ReconfigureStart
<1>2. /\ \E l \in {"c_lock", "o_ready", "idle"} : pc' = [pc EXCEPT ![t] = l]
      /\ UNCHANGED <<file, left, asleep>>
  BY DEF OpenGet, ReconfigureStart, Goto
<1>3. \A u \in Tasks : Waiting(u)' => Waiting(u)
  BY <1>2 DEF Waiting, PortInv, PortType
<1>4. CASE Initialized
  <2>1. UNCHANGED <<head, tail, mem, last, line, buf, tlet>>
    BY <1>1, <1>4 DEF Startup, uartVars
  <2>2. RingInv' /\ Pending' = Pending
    BY <2>1, SameRing DEF BufferInv
  <2>. QED BY <1>2, <1>3, <2>1, <2>2 DEF BufferInv, WritersWaited, PortInv, PortType
<1>5. CASE ~ Initialized
  <2>1. /\ last' = last
        /\ FreshBuffer \/ UNCHANGED <<head, tail, mem, line, buf, tlet>>
    BY <1>1, <1>5 DEF Startup
  <2>2. RingInv'
    <3>1. CASE UNCHANGED <<head, tail, mem, line, buf, tlet>>
      BY <2>1, <3>1, SameRing DEF BufferInv
    <3>2. CASE FreshBuffer /\ buf
      BY <2>1, <3>2, SameRing DEF FreshBuffer, BufferInv
    <3>3. CASE FreshBuffer /\ ~ buf
      BY <2>1, <3>3, ClearRing DEF FreshBuffer, BufferInv
    <3>. QED BY <2>1, <3>1, <3>2, <3>3
  <2>3. \A u \in Tasks : ~ Waiting(u)
    BY <1>5 DEF Waiting, PortInv, WritersStarted, Writers
  <2>. QED BY <1>2, <1>3, <2>2, <2>3 DEF BufferInv, WritersWaited, PortInv, PortType
<1>. QED BY <1>4, <1>5

(* A writer copies what there is room for.                                 *)
LEMMA CopyBuffer ==
  ASSUME PortInv, BufferInv, NEW t \in Tasks, WriteCopy(t)
  PROVE  BufferInv'
<1>1. /\ PutBytes(Room(left[t])) /\ left' = [left EXCEPT ![t] = @ - Room(@)]
      /\ pc[t] = "w_copy" /\ pc' = [pc EXCEPT ![t] = "w_start"]
      /\ UNCHANGED <<buf, tail, line, tlet, file, asleep>>
  BY DEF WriteCopy, Goto, irqVars
<1>2. left[t] \in Nat /\ Pending \in 0 .. UART_XMIT_SIZE - 1
  BY PendingIs DEF BufferInv, RingInv, RingType, Places
<1>3. /\ RingInv'
      /\ Room(left[t]) = Lesser(left[t], UART_XMIT_SIZE - 1 - Pending)
      /\ Pending' = Pending + Room(left[t])
  BY <1>1, <1>2, PutRing DEF BufferInv
<1>. DEFINE n == Room(left[t])
            p == Pending
<1>. HIDE DEF n, p
<1>4. n \in 0 .. left[t] /\ (left[t] - n > 0 => p + n = UART_XMIT_SIZE - 1)
  BY <1>2, <1>3, UartAssumption DEF Lesser, n, p
<1>5. left' = [left EXCEPT ![t] = left[t] - n] /\ Pending' = p + n
  BY <1>1, <1>3 DEF n, p
<1>6. left' \in [Tasks -> Nat]
  BY <1>2, <1>4, <1>5 DEF BufferInv
<1>7. ASSUME NEW u \in asleep', Waiting(u)'
      PROVE  Pending' >= WAKEUP_CHARS \/ tlet'
  <2>1. CASE u = t
    <3>1. left[t] - n > 0
      BY <1>1, <1>5, <1>7, <2>1 DEF Waiting, BufferInv, PortInv, PortType
    <3>. QED BY <1>4, <1>5, <3>1, UartAssumption
  <2>2. CASE u # t
    <3>1. Waiting(u) /\ u \in asleep
      BY <1>1, <1>5, <1>7, <2>2 DEF Waiting, BufferInv, PortInv, PortType
    <3>2. p >= WAKEUP_CHARS \/ tlet
      BY <3>1 DEF BufferInv, WritersWaited, p
    <3>3. p \in Nat /\ WAKEUP_CHARS \in Nat
      BY <1>2, UartAssumption DEF p
    <3>. QED BY <1>1, <1>4, <1>5, <3>2, <3>3
  <2>. QED BY <2>1, <2>2
<1>. QED BY <1>3, <1>6, <1>7 DEF BufferInv, WritersWaited

(* The transmit interrupt wakes them before the buffer has run down.       *)
LEMMA IrqBuffer == ASSUME PortInv, BufferInv, TransmitIrq PROVE BufferInv'
<1>1. UNCHANGED <<buf, head, last, file, pc, left, asleep>> /\ TxIrq /\ buf
  BY DEF TransmitIrq, TxChars, TxIrq, taskVars, PortInv, Started
<1>2. \A u \in Tasks : Waiting(u)' <=> Waiting(u)
  BY <1>1 DEF Waiting
<1>3. CASE UNCHANGED <<tail, mem, line, tlet>>
  BY <1>1, <1>2, <1>3, SameRing DEF BufferInv, WritersWaited, PortInv, PortType
<1>4. CASE ~ UNCHANGED <<tail, mem, line, tlet>>
  <2>. DEFINE n == Burst
  <2>1. SendBytes(n) /\ tlet' = (tlet \/ Wakes(n)) /\ ~ Empty
    BY <1>4 DEF TransmitIrq, TxChars
  <2>2. Pending \in Nat /\ Pending # 0
    BY <2>1, PendingIs, UartAssumption DEF BufferInv, RingInv, RingType, Places
  <2>3. n \in 1 .. Pending
    BY <1>1, <2>2, UartAssumption DEF TxIrq, Burst, Lesser
  <2>. HIDE DEF n
  <2>4. RingInv' /\ Pending' = Pending - n
    BY <1>1, <2>1, <2>3, SendRing DEF BufferInv
  <2>5. Pending' >= WAKEUP_CHARS \/ tlet'
    <3>1. Wakes(n) => tlet'
      BY <2>1
    <3>2. ~ Wakes(n) => Pending' >= WAKEUP_CHARS
      BY <2>2, <2>3, <2>4, UartAssumption DEF Wakes
    <3>. QED BY <3>1, <3>2
  <2>. QED BY <1>1, <2>4, <2>5 DEF BufferInv, WritersWaited
<1>. QED BY <1>3, <1>4

(* Echoes, flow control, and what the line discipline calls besides.       *)
LEMMA QuietBuffer == ASSUME PortInv, BufferInv, Quietly PROVE BufferInv'
<1>. USE DEF BufferInv, WritersWaited, Waiting
<1>1. CASE TransmitIrq
  BY <1>1, IrqBuffer
<1>2. CASE Tasklet
  <2>1. RingInv' /\ Pending' = Pending
    BY <1>2, SameRing DEF Tasklet, ringVars
  <2>. QED BY <1>2, <2>1 DEF Tasklet, Writers, PortInv, PortType
<1>3. CASE FlushBuffer
  <2>1. RingInv'
    BY <1>3, ClearRing DEF FlushBuffer
  <2>. QED BY <1>3, <2>1 DEF FlushBuffer, Writers, PortInv, PortType
<1>4. CASE PutChar
  <2>1. PutBytes(Room(1)) /\ UNCHANGED <<buf, tail, line>> /\ UNCHANGED <<tlet, file, pc, asleep, left>>
    BY <1>4 DEF PutChar, irqVars, taskVars
  <2>2. /\ RingInv'
        /\ Room(1) = Lesser(1, UART_XMIT_SIZE - 1 - Pending)
        /\ Pending' = Pending + Room(1)
    BY <2>1, PutRing
  <2>3. Pending \in 0 .. UART_XMIT_SIZE - 1
    BY PendingIs DEF RingInv, RingType, Places
  <2>4. Pending' >= Pending /\ Pending' \in Nat /\ WAKEUP_CHARS \in Nat
    BY <2>2, <2>3, UartAssumption DEF Lesser
  <2>. QED BY <2>1, <2>2, <2>3, <2>4 DEF PortInv, PortType
<1>5. CASE FlushChars \/ StopTty \/ StartTty \/ SendXchar \/ TakeBackXchar \/ Hardware \/ CtsChange
  <2>1. UNCHANGED <<head, tail, mem, last, line, buf, file, pc, asleep, left>> /\ (tlet => tlet')
    BY <1>5 DEF FlushChars, StopTty, StartTty, SendXchar, TakeBackXchar, Hardware, CtsChange,
                ringVars, uartVars, irqVars, taskVars
  <2>2. RingInv' /\ Pending' = Pending
    BY <2>1, SameRing
  <2>. QED BY <2>1, <2>2 DEF PortInv, PortType
<1>. QED BY <1>1, <1>2, <1>3, <1>4, <1>5 DEF Quietly

(* Every step keeps ring and waiting writers.                              *)
LEMMA BufferNext == ASSUME PortInv, PortInv', BufferInv, [Next]_vars PROVE BufferInv'
<1>1. CASE UNCHANGED vars
  <2>1. UNCHANGED <<head, tail, mem, last, line, buf, tlet, file, pc, asleep, left>>
    BY <1>1 DEF vars, uartVars, taskVars
  <2>2. RingInv' /\ Pending' = Pending
    BY <2>1, SameRing DEF BufferInv
  <2>. QED BY <2>1, <2>2 DEF BufferInv, WritersWaited, Waiting, PortInv, PortType
<1>2. CASE Resume \/ Suspend
  <2>1. /\ UNCHANGED <<head, tail, mem, last, line, left>> /\ (buf' => buf)
        /\ \A u \in Tasks : pc'[u] = "idle"
    BY <1>2 DEF Resume, Suspend, FreeBuffer, ringVars, taskVars, PortInv, FilesKept
  <2>2. RingInv'
    BY <2>1, SameRing DEF BufferInv
  <2>. QED BY <2>1, <2>2 DEF BufferInv, WritersWaited, Waiting, PortInv, PortType
<1>3. ASSUME NEW t \in Tasks, CloseFree(t)
      PROVE  BufferInv'
  <2>1. RingInv'
    BY <1>3, ClearRing DEF CloseFree, BufferInv
  <2>. QED BY <1>3, <2>1 DEF CloseFree, BufferInv, WritersWaited, Waiting, Writers, Goto, PortInv, PortType
<1>4. ASSUME NEW t \in Tasks, ReconfigureFree(t)
      PROVE  BufferInv'
  <2>1. RingInv' /\ Pending' = Pending
    BY <1>4, SameRing DEF ReconfigureFree, FreeBuffer, BufferInv
  <2>. QED BY <1>4, <2>1 DEF ReconfigureFree, FreeBuffer, Killed, BufferInv, WritersWaited, Waiting,
                             Writers, Goto, PortInv, PortType
<1>5. CASE HangupMark \/ DcdChange
  <2>1. UNCHANGED <<head, tail, mem, last, line, buf, tlet, left, pc>> /\ asleep' \subseteq asleep
    BY <1>5 DEF HangupMark, DcdChange, uartVars
  <2>2. \A u \in Tasks : file'[u] = "live" => file[u] = "live"
    BY <1>5 DEF HangupMark, DcdChange, PortInv, PortType
  <2>3. RingInv' /\ Pending' = Pending
    BY <2>1, SameRing DEF BufferInv
  <2>. QED BY <2>1, <2>2, <2>3 DEF BufferInv, WritersWaited, Waiting, PortInv, PortType
<1>6. CASE HangupLock
  <2>1. CASE "NORMAL_ACTIVE" \in flags
    <3>1. RingInv'
      BY <1>6, <2>1, ClearRing DEF HangupLock, BufferInv
    <3>. QED BY <1>6, <2>1, <3>1 DEF HangupLock, BufferInv, WritersWaited, Waiting, Writers, PortInv, PortType
  <2>2. CASE "NORMAL_ACTIVE" \notin flags
    <3>1. RingInv' /\ Pending' = Pending
      BY <1>6, <2>2, SameRing DEF HangupLock, BufferInv
    <3>. QED BY <1>6, <2>2, <3>1 DEF HangupLock, BufferInv, WritersWaited, Waiting, PortInv, PortType
  <2>. QED BY <2>1, <2>2
<1>7. CASE HangupFree
  <2>1. RingInv'
    BY <1>7, SameRing DEF HangupFree, FreeBuffer, BufferInv
  <2>. QED BY <1>7, <2>1 DEF HangupFree, BufferInv, WritersWaited, Waiting, Writers, PortInv, PortType
<1>8. ASSUME NEW t \in Tasks, Calls(t) \/ Steps(t) \/ OpenSignalled(t)
      PROVE  BufferInv'
  BY <1>3, <1>4, <1>8, CallsBuffer, StartupBuffer, CopyBuffer DEF Calls, Steps
<1>9. CASE Quietly
  BY <1>9, QuietBuffer
<1>. QED BY <1>1, <1>2, <1>5, <1>6, <1>7, <1>8, <1>9 DEF Next, Awake, Hangup, Received, Quietly

(* The buffer starts empty.                                                *)
LEMMA BufferInit == Init => BufferInv
<1>. SUFFICES ASSUME Init PROVE BufferInv
  OBVIOUS
<1>1. ~ buf /\ RingType
  BY UartAssumption DEF Init, InitUart, RingType, Places, Numbers
<1>. QED BY <1>1 DEF Init, BufferInv, RingInv, BufferFaithful, WritersWaited

(* The ring is faithful and its writers are waited for, always.            *)
LEMMA BufferInvariant == Spec => []BufferInv
<1>1. PortInv /\ PortInv' /\ BufferInv /\ [Next]_vars => BufferInv'
  BY BufferNext
<1>. QED BY <1>1, BufferInit, PortInvariant, PTL DEF Spec

(* The bytes of the buffer are those accepted last, in their order, each    *)
(* once, whatever write, echo, flush, interrupt and shutdown do to it.     *)
THEOREM BufferFaithfulAlways == Spec => []BufferFaithful
<1>1. BufferInv => BufferFaithful
  BY DEF BufferInv, RingInv
<1>. QED BY <1>1, BufferInvariant, PTL

-----------------------------------------------------------------------------
(* The transmitter. A port whose driver reports no carrier is not hung up  *)
(* under its users. With a hangup of a port that is not active yet - its    *)
(* opener waits for the carrier - what follows does not hold: the port      *)
(* stays started without a file, and the last file to go resets the flags  *)
(* that stopped it, with bytes in the buffer and the interrupt off.        *)
Carrierless == "carrier" \notin Uses

NeverHung == hangup = "none" /\ \A t \in Tasks : file[t] # "hung"

(* A started port has a file that has still to go through its last close.  *)
Keeps(t) == file[t] = "live" /\ pc[t] \notin {"o_get", "c_free", "c_release"}
KeptStarted == Initialized => \E t \in Tasks : Keeps(t)

CountExact == Cardinality(Users) = count

TransmitOn ==
  claimed /\ ~ Empty /\ ~ stopped /\ ~ hw_stopped
    => \/ tx_enabled
       \/ ldisc = "flush"
       \/ \E t \in Tasks : pc[t] = "w_start"

KeptInv == NeverHung /\ KeptStarted /\ CountExact

(* One task moves: what that does to the count of users, and to who keeps  *)
(* the port.                                                               *)
LEMMA KeptMove ==
  ASSUME PortInv, PortInv', KeptInv, NEW t \in Tasks,
         \A u \in Tasks \ {t} : pc'[u] = pc[u] /\ file'[u] = file[u],
         hangup' = hangup, file'[t] # "hung",
         Initialized' => Keeps(t)' \/ (Initialized /\ ~ Keeps(t)),
         \/ count' = count /\ (t \in Users' <=> t \in Users)
         \/ count' = count + 1 /\ t \notin Users /\ t \in Users'
         \/ count' = count - 1 /\ t \in Users /\ t \notin Users'
  PROVE  KeptInv'
<1>1. NeverHung'
  BY DEF KeptInv, NeverHung
<1>2. KeptStarted'
  BY DEF KeptInv, KeptStarted, Keeps
<1>3. CountExact'
  <2>1. OneMoved(t)
    BY OneMoves
  <2>. QED BY <2>1 DEF KeptInv, CountExact, OneMoved, PortInv, PortType
<1>. QED BY <1>1, <1>2, <1>3 DEF KeptInv

(* Opening keeps a started port in use.                                    *)
LEMMA KeptOpens ==
  ASSUME PortInv, PortInv', KeptInv, NEW t \in Tasks,
         OpenCall(t) \/ OpenGet(t) \/ OpenHungUp(t) \/ OpenReady(t) \/ OpenSleep(t) \/ OpenWoken(t) \/ OpenSignalled(t)
  PROVE  KeptInv'
<1>. USE DEF Goto, portVars, restVars, Keeps, Users, LiveTasks
<1>0. file[t] # "hung" /\ pc \in [Tasks -> Labels] /\ file \in [Tasks -> {"none", "live", "hung"}]
  BY DEF KeptInv, NeverHung, PortInv, PortType
<1>1. CASE OpenCall(t)
  <2>1. /\ pc[t] = "idle" /\ file[t] = "none" /\ file' = [file EXCEPT ![t] = "live"]
        /\ pc' = [pc EXCEPT ![t] = "o_get"] /\ UNCHANGED <<hangup, flags, count>>
    BY <1>1 DEF OpenCall
  <2>. QED BY <1>0, <2>1, KeptMove DEF Initialized
<1>2. CASE OpenGet(t)
  <2>1. /\ file[t] = "live" /\ pc[t] = "o_get" /\ UNCHANGED <<hangup, file>>
        /\ \/ pc' = [pc EXCEPT ![t] = "c_lock"] /\ count' = count + 1
           \/ pc' = [pc EXCEPT ![t] = "o_ready"] /\ count' = count
    BY <1>2 DEF OpenGet
  <2>. QED BY <1>0, <2>1, KeptMove
<1>3. CASE OpenReady(t) \/ OpenSignalled(t)
  <2>1. /\ pc[t] \in {"o_ready", "o_wait"} /\ UNCHANGED <<hangup, file>> /\ count' = count + 1
        /\ \E l \in {"c_lock", "idle"} : pc' = [pc EXCEPT ![t] = l]
    BY <1>3 DEF OpenReady, OpenSignalled
  <2>2. file[t] = "live"
    BY <1>0, <2>1 DEF PortInv, FilesKept
  <2>. QED BY <1>0, <2>1, <2>2, KeptMove
<1>4. CASE OpenSleep(t) \/ OpenWoken(t)
  <2>1. /\ pc[t] \in {"o_ready", "o_wait"} /\ UNCHANGED <<hangup, file, count>>
        /\ \E l \in {"o_ready", "o_wait"} : pc' = [pc EXCEPT ![t] = l]
    BY <1>4 DEF OpenSleep, OpenWoken
  <2>2. file[t] = "live"
    BY <1>0, <2>1 DEF PortInv, FilesKept
  <2>. QED BY <1>0, <2>1, <2>2, KeptMove
<1>5. ~ OpenHungUp(t)
  BY <1>0 DEF OpenHungUp
<1>. QED BY <1>1, <1>2, <1>3, <1>4, <1>5

(* A close that is not the last leaves another user behind.                *)
LEMMA KeptCloseLock ==
  ASSUME PortInv, PortInv', KeptInv, NEW t \in Tasks, CloseLock(t)
  PROVE  KeptInv'
<1>1. /\ pc[t] = "c_lock" /\ UNCHANGED <<hangup, file, flags>> /\ file[t] = "live"
      /\ \/ CountLeft > 0 /\ count' = CountLeft /\ pc' = [pc EXCEPT ![t] = "c_release"]
         \/ CountLeft = 0 /\ count' = 0 /\ pc' = [pc EXCEPT ![t] = "c_drain"]
  BY DEF CloseLock, Goto, KeptInv, NeverHung
<1>2. /\ pc \in [Tasks -> Labels] /\ file \in [Tasks -> {"none", "live", "hung"}] /\ count \in Nat
      /\ Users \in SUBSET Tasks /\ t \in Users /\ t \notin Users'
  BY <1>1 DEF PortInv, PortType, Users, LiveTasks
<1>3. CASE CountLeft > 0
  <2>1. count > 1 /\ count' = count - 1
    BY <1>1, <1>2, <1>3 DEF CountLeft
  <2>2. PICK u \in Users : u # t
    <3>1. CASE Users \ {t} = {}
      <4>1. Users = {t}
        BY <1>2, <3>1
      <4>. QED BY <2>1, <4>1, FS_Singleton DEF KeptInv, CountExact
    <3>. QED BY <3>1
  <2>3. Keeps(u)'
    BY <1>1, <1>2, <2>2 DEF Keeps, Users, LiveTasks
  <2>4. NeverHung' /\ KeptStarted'
    BY <1>1, <1>2, <2>2, <2>3 DEF KeptInv, NeverHung, KeptStarted
  <2>5. OneMoved(t)
    BY <1>1, <1>2, OneMoves
  <2>6. CountExact'
    BY <1>2, <2>1, <2>5 DEF OneMoved, KeptInv, CountExact
  <2>. QED BY <2>4, <2>6 DEF KeptInv
<1>4. CASE CountLeft = 0
  <2>1. Users = {t}
    BY <1>1, <1>4, LastCloser
  <2>2. OneMoved(t)
    BY <1>1, <1>2, OneMoves
  <2>3. Users' = {}
    BY <1>2, <2>1, <2>2 DEF OneMoved
  <2>4. CountExact'
    BY <1>1, <1>4, <2>3, FS_EmptySet DEF CountExact
  <2>5. Keeps(t)'
    BY <1>1, <1>2, <1>4 DEF Keeps
  <2>. QED BY <1>1, <2>4, <2>5 DEF KeptInv, NeverHung, KeptStarted
<1>. QED BY <1>1, <1>3, <1>4

(* Closing and the calls on an open file keep it so.                       *)
LEMMA KeptRest ==
  ASSUME PortInv, PortInv', KeptInv, NEW t \in Tasks,
         \/ CloseCall(t) \/ CloseDrained(t) \/ CloseSent(t) \/ CloseFree(t) \/ Release(t)
         \/ WriteCall(t) \/ WriteCheck(t) \/ WriteCopy(t) \/ WriteStart(t) \/ WriteWoken(t)
         \/ SetTermios(t) \/ FlowOn(t) \/ FlowOff(t)
         \/ Reconfigure(t) \/ ReconfigureFree(t) \/ ReconfigureStart(t) \/ SetInfo(t)
  PROVE  KeptInv'
<1>. USE DEF Goto, portVars, restVars
<1>0. /\ file[t] # "hung" /\ pc \in [Tasks -> Labels] /\ file \in [Tasks -> {"none", "live", "hung"}]
      /\ (pc[t] # "idle" => file[t] = "live")
  BY DEF KeptInv, NeverHung, PortInv, PortType, FilesKept
<1>1. CASE CloseSent(t) \/ CloseFree(t)
  <2>1. /\ pc[t] \in {"c_sent", "c_free"} /\ UNCHANGED <<hangup, file, count>>
        /\ \E l \in {"c_free", "c_release"} : pc' = [pc EXCEPT ![t] = l]
    BY <1>1 DEF CloseSent, CloseFree
  <2>2. ~ Initialized'
    BY <1>1, ShutdownEffect DEF CloseSent, CloseFree, PortInv, Started, Initialized
  <2>. QED BY <1>0, <2>1, <2>2, KeptMove DEF Users, LiveTasks
<1>2. CASE Release(t)
  <2>1. /\ pc[t] = "c_release" /\ UNCHANGED <<hangup, flags, count>>
        /\ pc' = [pc EXCEPT ![t] = "idle"] /\ file' = [file EXCEPT ![t] = "none"]
    BY <1>2 DEF Release
  <2>. QED BY <1>0, <2>1, KeptMove DEF Users, LiveTasks, Keeps, Initialized
<1>3. CASE ~ (CloseSent(t) \/ CloseFree(t) \/ Release(t))
  <2>1. /\ pc[t] \in {"idle", "c_drain", "m_on", "m_off", "s_free", "s_start"} \cup WritePlaces
        /\ file[t] # "none" /\ UNCHANGED <<hangup, file, count>>
        /\ \E l \in {"idle", "c_lock", "c_sent", "m_on", "m_off", "s_free", "s_start"} \cup WritePlaces :
             /\ pc' = [pc EXCEPT ![t] = l]
             /\ l = "c_sent" <=> pc[t] = "c_drain"
    <3>. USE DEF WritePlaces
    <3>1. CASE CloseCall(t) \/ CloseDrained(t)
      BY <1>0, <3>1 DEF CloseCall, CloseDrained
    <3>2. CASE WriteCall(t) \/ WriteCheck(t) \/ WriteCopy(t) \/ WriteStart(t) \/ WriteWoken(t)
      BY <1>0, <3>2 DEF WriteCall, WriteCheck, WriteCopy, WriteStart, WriteWoken
    <3>3. CASE FlowOn(t) \/ FlowOff(t) \/ ReconfigureFree(t) \/ ReconfigureStart(t)
      BY <1>0, <3>3 DEF FlowOn, FlowOff, ReconfigureFree, ReconfigureStart
    <3>4. CASE SetTermios(t) \/ Reconfigure(t) \/ SetInfo(t)
      BY <3>4 DEF SetTermios, Reconfigure, SetInfo
    <3>. QED BY <1>3, <3>1, <3>2, <3>3, <3>4
  <2>2. file[t] = "live"
    BY <1>0, <2>1
  <2>. QED BY <1>0, <2>1, <2>2, KeptMove DEF Users, LiveTasks, Keeps, WritePlaces
<1>. QED BY <1>1, <1>2, <1>3

(* Without a carrier every step does.                                      *)
LEMMA KeptNext ==
  ASSUME Carrierless, PortInv, PortInv', KeptInv, [Next]_vars
  PROVE  KeptInv'
<1>1. ASSUME NEW t \in Tasks, Calls(t) \/ Steps(t) \/ OpenSignalled(t)
      PROVE  KeptInv'
  BY <1>1, KeptOpens, KeptCloseLock, KeptRest DEF Calls, Steps
<1>2. CASE UNCHANGED vars \/ Quietly \/ Suspend \/ Resume
  <2>1. UNCHANGED <<count, hangup, file, pc>> /\ (Initialized' => Initialized)
    <3>1. CASE UNCHANGED vars
      BY <3>1 DEF vars, portVars, restVars, taskVars, Initialized
    <3>2. CASE Quietly
      BY <3>2, QuietEffect DEF portVars, Initialized
    <3>3. CASE Suspend
      BY <3>3 DEF Suspend, portVars, taskVars, Initialized
    <3>4. CASE Resume
      <4>1. UNCHANGED flags \/ Initialized
        BY <3>4 DEF Resume
      <4>. QED BY <3>4, <4>1 DEF Resume, taskVars, Initialized
    <3>. QED BY <1>2, <3>1, <3>2, <3>3, <3>4
  <2>2. Users' = Users /\ \A t \in Tasks : Keeps(t)' <=> Keeps(t)
    BY <2>1 DEF Users, LiveTasks, Keeps
  <2>. QED BY <2>1, <2>2 DEF KeptInv, NeverHung, KeptStarted, CountExact
<1>3. ~ Hangup /\ ~ DcdChange
  BY DEF Hangup, HangupMark, HangupLock, HangupFree, DcdChange, Carrierless, KeptInv, NeverHung
<1>. QED BY <1>1, <1>2, <1>3 DEF Next, Awake, Received, Quietly

(* The last file to be released is that of a port which is not started.    *)
LEMMA LastRelease ==
  ASSUME PortInv, KeptInv, NEW t \in Tasks, Release(t), TtyCount = 1
  PROVE  ~ claimed
<1>1. pc[t] = "c_release" /\ file[t] # "none"
  BY DEF Release, PortInv, FilesKept
<1>2. IsFiniteSet({u \in Tasks : file[u] # "none"})
  BY SerialAssumption, FS_Subset
<1>3. \A u \in Tasks \ {t} : file[u] = "none"
  BY <1>1, <1>2, FS_Singleton DEF TtyCount
<1>4. \A u \in Tasks : ~ Keeps(u)
  BY <1>1, <1>3 DEF Keeps
<1>. QED BY <1>4 DEF KeptInv, KeptStarted, PortInv, Started

(* No step leaves bytes behind with the interrupt off.                     *)
LEMMA TransmitOnNext ==
  ASSUME PortInv, PortInv', RingInv, RingInv', left \in [Tasks -> Nat], KeptInv, TransmitOn, [Next]_vars
  PROVE  TransmitOn'
<1>. USE DEF TransmitOn, Empty
<1>1. CASE UNCHANGED vars
  BY <1>1 DEF vars, uartVars, lineVars, taskVars, restVars
<1>2. ASSUME NEW t \in Tasks, Calls(t) \/ Steps(t) \/ OpenSignalled(t)
      PROVE  TransmitOn'
  <2>. USE DEF Goto, uartVars, ringVars, irqVars, portVars, lineVars, restVars
  <2>0. pc \in [Tasks -> Labels]
    BY DEF PortInv, PortType
  <2>1. CASE OpenCall(t) \/ OpenHungUp(t) \/ OpenReady(t) \/ OpenSleep(t) \/ OpenWoken(t) \/ OpenSignalled(t)
    BY <2>0, <2>1 DEF OpenCall, OpenHungUp, OpenReady, OpenSleep, OpenWoken, OpenSignalled
  <2>2. CASE OpenGet(t) \/ ReconfigureStart(t)
    <3>1. PICK b \in BOOLEAN : Startup(b)
      BY <2>2 DEF OpenGet, ReconfigureStart
    <3>2. UNCHANGED <<stopped, ldisc>> /\ \A u \in Tasks : pc[u] = "w_start" => pc'[u] = "w_start"
      BY <2>0, <2>2 DEF OpenGet, ReconfigureStart
    <3>3. CASE Initialized
      BY <3>1, <3>2, <3>3 DEF Startup
    <3>4. CASE ~ Initialized
      <4>1. ~ claimed
        BY <3>4 DEF PortInv, Started
      <4>2. claimed' => tx_enabled'
        BY <3>1, <3>4, <4>1 DEF Startup, StartupUart
      <4>. QED BY <4>2
    <3>. QED BY <3>3, <3>4
  <2>3. CASE CloseCall(t) \/ CloseLock(t) \/ CloseDrained(t)
    BY <2>0, <2>3 DEF CloseCall, CloseLock, CloseDrained
  <2>4. CASE CloseSent(t) \/ Reconfigure(t)
    <3>1. ~ claimed'
      BY <2>4, ShutdownEffect DEF CloseSent, Reconfigure, PortInv
    <3>. QED BY <3>1
  <2>5. CASE CloseFree(t)
    BY <2>5 DEF CloseFree, Clear
  <2>6. CASE Release(t)
    <3>1. CASE TtyCount = 1
      <4>1. ~ claimed'
        BY <2>6, <3>1, LastRelease DEF Release
      <4>. QED BY <4>1
    <3>2. CASE TtyCount # 1
      BY <2>0, <2>6, <3>2 DEF Release
    <3>. QED BY <3>1, <3>2
  <2>7. CASE WriteCall(t) \/ WriteCheck(t) \/ WriteWoken(t)
    BY <2>0, <2>7 DEF WriteCall, WriteCheck, WriteWoken
  <2>8. CASE WriteCopy(t)
    <3>1. pc'[t] = "w_start"
      BY <2>0, <2>8 DEF WriteCopy
    <3>. QED BY <3>1
  <2>9. CASE WriteStart(t)
    <3>1. /\ UartStart /\ UNCHANGED <<claimed, head, tail, buf, stopped, hw_stopped, ldisc>>
      BY <2>9 DEF WriteStart
    <3>2. claimed => buf
      BY DEF PortInv, Started
    <3>. QED BY <3>1, <3>2 DEF UartStart, StartTx
  <2>10. CASE SetTermios(t) \/ SetInfo(t) \/ ReconfigureFree(t)
    BY <2>0, <2>10 DEF SetTermios, SetInfo, ReconfigureFree
  <2>11. CASE FlowOn(t)
    BY <2>0, <2>11 DEF FlowOn
  <2>12. CASE FlowOff(t)
    BY <2>0, <2>12 DEF FlowOff, StartTx, PortInv, Started
  <2>. QED BY <1>2, <2>1, <2>2, <2>3, <2>4, <2>5, <2>6, <2>7, <2>8, <2>9, <2>10, <2>11, <2>12
           DEF Calls, Steps
<1>3. CASE Hangup \/ DcdChange
  <2>1. CASE HangupMark \/ DcdChange
    BY <2>1 DEF HangupMark, DcdChange, uartVars, lineVars
  <2>2. CASE HangupLock
    <3>1. CASE "NORMAL_ACTIVE" \in flags
      BY <2>2, <3>1 DEF HangupLock, Clear
    <3>2. CASE "NORMAL_ACTIVE" \notin flags
      BY <2>2, <3>2 DEF HangupLock, lineVars
    <3>. QED BY <3>1, <3>2
  <2>3. CASE HangupFree
    BY <2>3 DEF HangupFree, lineVars
  <2>. QED BY <1>3, <2>1, <2>2, <2>3 DEF Hangup
<1>4. CASE Resume \/ Suspend
  <2>1. CASE Suspend
    BY <2>1 DEF Suspend, ringVars, lineVars, taskVars, PortInv, Started
  <2>2. CASE Resume
    <3>1. (claimed' => tx_enabled') \/ UNCHANGED <<claimed, tx_enabled>>
      BY <2>2 DEF Resume, StartupUart
    <3>. QED BY <2>2, <3>1 DEF Resume, lineVars, taskVars
  <2>. QED BY <1>4, <2>1, <2>2
<1>5. CASE Quietly
  <2>. USE DEF ringVars, irqVars, lineVars, taskVars, restVars, portVars, uartVars
  <2>1. CASE Tasklet \/ TakeBackXchar \/ Hardware
    BY <2>1 DEF Tasklet, TakeBackXchar, Hardware
  <2>2. CASE FlushBuffer
    BY <2>2 DEF FlushBuffer, Clear
  <2>3. CASE PutChar \/ StartTty
    BY <2>3 DEF PutChar, StartTty
  <2>4. CASE FlushChars
    BY <2>4 DEF FlushChars, UartStart, StartTx, PortInv, Started
  <2>5. CASE StopTty \/ SendXchar
    BY <2>5 DEF StopTty, SendXchar, StartTx
  <2>6. CASE CtsChange
    BY <2>6 DEF CtsChange, StartTx
  <2>7. CASE TransmitIrq
    <3>1. TxIrq /\ UNCHANGED <<head, claimed, stopped, hw_stopped, ldisc, pc>>
      BY <2>7 DEF TransmitIrq, TxChars
    <3>2. CASE UNCHANGED <<tail, tx_enabled>>
      BY <3>1, <3>2 DEF TxIrq
    <3>3. CASE ~ tx_enabled' /\ (Empty \/ stopped \/ hw_stopped) /\ UNCHANGED tail
      BY <3>1, <3>3
    <3>4. CASE SendBytes(Burst) /\ tx_enabled' = ~ Drained(Burst)
      <4>1. CASE Drained(Burst)
        <5>1. tail' = (tail + Pending) % UART_XMIT_SIZE
          BY <3>4, <4>1 DEF SendBytes, Drained
        <5>2. head = (tail + Pending) % UART_XMIT_SIZE
          BY PendingIs DEF RingInv, RingType
        <5>. QED BY <3>1, <5>1, <5>2
      <4>2. CASE ~ Drained(Burst)
        BY <3>4, <4>2
      <4>. QED BY <4>1, <4>2
    <3>5. \/ UNCHANGED <<tail, tx_enabled>>
          \/ ~ tx_enabled' /\ (Empty \/ stopped \/ hw_stopped) /\ UNCHANGED tail
          \/ SendBytes(Burst) /\ tx_enabled' = ~ Drained(Burst)
      BY <2>7 DEF TransmitIrq, TxChars, StopTx
    <3>. QED BY <3>2, <3>3, <3>4, <3>5
  <2>. QED BY <1>5, <2>1, <2>2, <2>3, <2>4, <2>5, <2>6, <2>7 DEF Quietly
<1>. QED BY <1>1, <1>2, <1>3, <1>4, <1>5 DEF Next, Awake, Received, Quietly

(* The interrupt that has turned itself off has not overlooked a byte, and *)
(* no writer sleeps beside a transmitter that will not wake it.            *)
THEOREM TransmitterRunsAlways == ASSUME Carrierless PROVE Spec => []TransmitterRuns
<1>1. Init => KeptInv /\ TransmitOn
  <2>. SUFFICES ASSUME Init PROVE KeptInv /\ TransmitOn
    OBVIOUS
  <2>1. Users = {}
    BY DEF Init, Users, LiveTasks
  <2>2. CountExact
    BY <2>1, FS_EmptySet DEF Init, CountExact
  <2>. QED BY <2>2 DEF Init, InitUart, KeptInv, NeverHung, KeptStarted, TransmitOn, Initialized
<1>2. PortInv /\ PortInv' /\ KeptInv /\ [Next]_vars => KeptInv'
  BY KeptNext
<1>3. PortInv /\ PortInv' /\ BufferInv /\ BufferInv' /\ KeptInv /\ TransmitOn /\ [Next]_vars
        => TransmitOn'
  BY TransmitOnNext DEF BufferInv
<1>4. BufferInv /\ TransmitOn => TransmitterRuns
  BY DEF BufferInv, WritersWaited, Waiting, TransmitOn, TransmitterRuns
<1>. QED BY <1>1, <1>2, <1>3, <1>4, PortInvariant, BufferInvariant, PTL DEF Spec

(* Whatever hangs up or reconfigures the port, a writer that sleeps on a   *)
(* live file is woken.                                                     *)
THEOREM WritersWokenAlways == Spec => []WritersWaited
<1>1. BufferInv => WritersWaited
  BY DEF BufferInv
<1>. QED BY <1>1, BufferInvariant, PTL
=============================================================================
