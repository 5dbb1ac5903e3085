----------------------------- MODULE SerialCore -----------------------------
(***************************************************************************)
(* The serial core (code/14) over the S3C2410 UART of S3cUart: one port,   *)
(* from the first open through writes, flow control, reconfiguration,      *)
(* carrier loss, suspend and resume to the last close.                     *)
(*                                                                         *)
(* Each task opens the port for itself.  Three mechanisms order the calls: *)
(* state->mutex; the big kernel lock, held by every call but a write and   *)
(* given up where the code sleeps; and port->lock, whose sections are      *)
(* single steps.  The tty layer above and the modem at the other end are   *)
(* external, and do what the code relies on.                               *)
(***************************************************************************)
EXTENDS S3cUart, FiniteSets

CONSTANTS
  Tasks,     \* processes that use the port
  Eventd,    \* the kernel thread that runs hangups
  Free,      \* mutex = Free: nobody holds state->mutex
  Counts,    \* lengths of the writes
  Cflags,    \* the c_cflag values set_termios is called with
  Nonblocks, \* values of (f_flags & O_NONBLOCK) # 0
  Startups,  \* whether uart_startup may succeed, and may fail
  Admins,    \* values of capable(CAP_SYS_ADMIN)
  Signals,   \* a signal may end an open in uart_block_til_ready
  MaxCount,  \* bound: no open goes on while state->count is as large
  Uses       \* what the port is used for, besides open, close and settings

ASSUME SerialAssumption ==
  /\ IsFiniteSet(Tasks)
  /\ Free \notin Tasks /\ Eventd \notin Tasks /\ Free # Eventd
  /\ Counts \subseteq Nat \ {0}
  /\ Cflags \subseteq SUBSET {"CLOCAL", "CRTSCTS"}
  /\ Nonblocks \subseteq BOOLEAN /\ Startups \subseteq BOOLEAN /\ Admins \subseteq BOOLEAN
  /\ Signals \in BOOLEAN
  /\ MaxCount \in Nat
  /\ Uses \subseteq {"write", "flush", "echo", "stop", "xchar", "cts", "carrier",
                    "setserial", "suspend"}

VARIABLES
  mutex,        \* who holds state->mutex
  count,        \* state->count
  blocked_open, \* info->blocked_open
  flags,        \* info->flags, without the prefix UIF_
  tty,          \* info->tty # NULL
  io_error,     \* TTY_IO_ERROR is set in tty->flags
  cflag,        \* tty->termios->c_cflag
  stopped,      \* tty->stopped
  hw_stopped,   \* tty->hw_stopped
  carrier,      \* TIOCM_CAR, from the modem
  cts,          \* TIOCM_CTS
  hangup,       \* how far the hangup of the tty has come
  suspended,    \* the system sleeps
  ldisc,        \* what the line discipline has still to call
  file,         \* file[t]: t's file; a hung one has lost its operations
  nonblock,     \* nonblock[t]: t's file has O_NONBLOCK
  pc,           \* pc[t]: where in the core t is
  asleep,       \* tasks in TASK_INTERRUPTIBLE
  left          \* left[t]: bytes t has still to write

portVars == <<count, blocked_open, flags, tty, io_error>>
lineVars == <<cflag, stopped, hw_stopped, carrier, cts>>
taskVars == <<file, nonblock, pc, asleep, left>>
restVars == <<mutex, hangup, suspended, ldisc>>
vars == <<uartVars, portVars, lineVars, taskVars, restVars>>
ringVars == <<buf, head, tail, mem, last, line>>
irqVars == <<x_char, tx_enabled, rx_enabled, claimed, fifo, tlet>>

Initialized == "INITIALIZED" \in flags
Goto(t, label) == pc' = [pc EXCEPT ![t] = label]

Labels == {"idle", "o_get", "o_ready", "o_wait", "c_lock", "c_drain", "c_sent",
           "c_free", "c_release", "w_check", "w_copy", "w_start", "w_block",
           "s_free", "s_start", "m_on", "m_off"}

(* The places where the big kernel lock is held without the mutex telling  *)
(* so, or between two steps that do not sleep.                             *)
BklFree ==
  /\ \A t \in Tasks : pc[t] \notin {"o_ready", "c_free", "s_free", "s_start",
                                    "m_on", "m_off"}
  /\ hangup # "h_free"

(* A task that finds the mutex taken waits in line; the hangup, which      *)
(* waits from the moment it has marked the files, is not overtaken.        *)
MutexFree == mutex = Free /\ hangup # "h_lock"

Writers == {t \in Tasks : pc[t] \in {"w_check", "w_copy", "w_start", "w_block"}}
Openers == {t \in Tasks : pc[t] = "o_wait"}
(* tty->count: hung files count as well.                                   *)
TtyCount == Cardinality({t \in Tasks : file[t] # "none"})
LiveTasks == {t \in Tasks : file[t] = "live"}

Init ==
  /\ InitUart
  /\ mutex = Free
  /\ count = 0 /\ blocked_open = 0 /\ flags = {} /\ tty = FALSE /\ io_error = FALSE
  /\ cflag = {"CLOCAL"}
  /\ stopped = FALSE /\ hw_stopped = FALSE
  /\ carrier = FALSE /\ cts = TRUE
  /\ hangup = "none" /\ suspended = FALSE /\ ldisc = "none"
  /\ file = [t \in Tasks |-> "none"]
  /\ nonblock = [t \in Tasks |-> FALSE]
  /\ pc = [t \in Tasks |-> "idle"]
  /\ asleep = {}
  /\ left = [t \in Tasks |-> 0]

-----------------------------------------------------------------------------
(* Parts that several operations share.                                    *)

(* Mutant: nobody looks at the carrier.                                    *)
ChangedSpeed_deaf(f, c) ==
  (f \ {"CTS_FLOW", "CHECK_CD"}) \cup (IF "CRTSCTS" \in c THEN {"CTS_FLOW"} ELSE {})

(* uart_change_speed, for the flags f and the c_cflag c.                   *)
ChangedSpeed(f, c) ==
  (f \ {"CTS_FLOW", "CHECK_CD"})
    \cup (IF "CRTSCTS" \in c THEN {"CTS_FLOW"} ELSE {})
    \cup (IF "CLOCAL" \in c THEN {} ELSE {"CHECK_CD"})

(* Mutant: the transmitter is started only when it was idle before.        *)
UartStart_first ==
  IF Pending = 1 /\ buf /\ ~ stopped /\ ~ hw_stopped
    THEN StartTx ELSE UNCHANGED tx_enabled

(* __uart_start.                                                           *)
UartStart ==
  IF ~ Empty /\ buf /\ ~ stopped /\ ~ hw_stopped
    THEN StartTx ELSE UNCHANGED tx_enabled

(* A buffer is there, and empty if it is new.                              *)
FreshBuffer ==
  /\ buf' = TRUE
  /\ IF buf THEN UNCHANGED <<head, tail, mem, line>> ELSE Clear

(* uart_startup: there is no memory for a buffer, the port's startup fails *)
(* or it succeeds.                                                         *)
Startup(init_hw) ==
  IF Initialized
    THEN UNCHANGED <<uartVars, flags, io_error, hw_stopped>>
    ELSE /\ \/ /\ ~ buf /\ FALSE \in Startups  \* -ENOMEM
               /\ io_error' = TRUE
               /\ UNCHANGED <<buf, head, tail, mem, line, claimed, tx_enabled, rx_enabled,
                              flags, hw_stopped>>
            \/ /\ FreshBuffer
               /\ \E ok \in Startups :
                    /\ StartupUart(ok)
                    /\ io_error' = ~ ok
                    /\ IF ok
                         THEN LET f == IF init_hw /\ tty THEN ChangedSpeed(flags, cflag) ELSE flags
                              IN  /\ flags' = f \cup {"INITIALIZED"}
                                  /\ hw_stopped' = (hw_stopped \/ ("CTS_FLOW" \in f /\ ~ cts))
                         ELSE UNCHANGED <<flags, hw_stopped>>
         /\ UNCHANGED <<last, x_char, fifo, tlet>>

(* Mutant: the memory goes before the interrupt.                           *)
ShutdownPort_late ==
  /\ io_error' = (io_error \/ tty)
  /\ flags' = flags \ {"INITIALIZED"}
  /\ UNCHANGED <<claimed, tx_enabled, rx_enabled>>

(* uart_shutdown up to the tasklet: no interrupt comes any more.           *)
ShutdownPort ==
  /\ io_error' = (io_error \/ tty)
  /\ flags' = flags \ {"INITIALIZED"}
  /\ IF Initialized THEN ShutdownUart
     ELSE UNCHANGED <<claimed, tx_enabled, rx_enabled>>

(* The rest of uart_shutdown: a scheduled tasklet runs, then the buffer    *)
(* goes.                                                                   *)
FreeBuffer == tlet' = FALSE /\ buf' = FALSE
Killed == IF tlet THEN asleep \ Writers ELSE asleep

-----------------------------------------------------------------------------
(* open: tty_open, uart_get, uart_open, uart_block_til_ready.              *)

OpenCall(t) ==
  /\ pc[t] = "idle" /\ file[t] = "none"
  /\ file' = [file EXCEPT ![t] = "live"]
  /\ \E n \in Nonblocks : nonblock' = [nonblock EXCEPT ![t] = n]
  /\ Goto(t, "o_get")
  /\ UNCHANGED <<uartVars, portVars, lineVars, restVars, asleep, left>>

(* A signal ends the wait for the mutex; the tty layer then calls close,    *)
(* which subtracts an opener that was never counted.  Not part of Next:    *)
(* see SignalSpec.                                                         *)
OpenInterrupted(t) ==
  /\ pc[t] = "o_get" /\ mutex # Free
  /\ Goto(t, "c_lock")
  /\ UNCHANGED <<uartVars, portVars, lineVars, restVars, file, nonblock, asleep, left>>

(* Up to the loop of uart_block_til_ready, where the opener counts as      *)
(* blocked and no longer as a user; or to an error of uart_startup, which  *)
(* administrators do not get, but that of memory.                          *)
OpenGet(t) ==
  /\ pc[t] = "o_get" /\ MutexFree /\ BklFree
  /\ count < MaxCount
  /\ file[t] = "live"
  /\ tty' = TRUE
  /\ Startup(FALSE)
  /\ \/ /\ io_error' /\ ~ Initialized
        /\ FALSE \in Admins \/ ~ buf'
        /\ count' = count + 1
        /\ Goto(t, "c_lock")
        /\ UNCHANGED <<blocked_open, mutex>>
     \/ /\ io_error' /\ ~ Initialized => TRUE \in Admins /\ buf'
        /\ blocked_open' = blocked_open + 1
        /\ mutex' = t
        /\ Goto(t, "o_ready")
        /\ UNCHANGED count
  /\ UNCHANGED <<cflag, stopped, carrier, cts, hangup, suspended, ldisc,
                 file, nonblock, asleep, left>>

(* "If the port is in the middle of closing, bail out now."                *)
OpenHungUp(t) ==
  /\ pc[t] = "o_get" /\ MutexFree /\ BklFree
  /\ file[t] = "hung"
  /\ tty' = TRUE
  /\ Goto(t, "c_lock")
  /\ UNCHANGED <<uartVars, count, blocked_open, flags, io_error, lineVars, restVars,
                 file, nonblock, asleep, left>>

(* The reasons for which an open does not wait for the carrier.            *)
NoNeedToWait(t) ==
  \/ file[t] = "hung" \/ ~ tty \/ ~ Initialized
  \/ nonblock[t] \/ "CLOCAL" \in cflag \/ io_error

(* The loop is left: the counts are put back, and the first open to        *)
(* succeed makes the port active; a signal that is there already fails it. *)
OpenReady(t) ==
  /\ pc[t] = "o_ready"
  /\ NoNeedToWait(t) \/ carrier
  /\ count' = count + 1
  /\ blocked_open' = blocked_open - 1
  /\ mutex' = Free
  /\ asleep' = asleep \ {t}
  /\ \/ /\ file[t] = "hung" \/ ~ tty \/ Signals
        /\ Goto(t, "c_lock") /\ UNCHANGED flags
     \/ /\ file[t] # "hung" /\ tty
        /\ Goto(t, "idle")
        /\ flags' = IF "NORMAL_ACTIVE" \in flags THEN flags
                    ELSE (IF io_error THEN flags ELSE ChangedSpeed(flags, cflag))
                           \cup {"NORMAL_ACTIVE"}
  /\ UNCHANGED <<uartVars, tty, io_error, lineVars, hangup, suspended, ldisc,
                 file, nonblock, left>>

OpenSleep(t) ==
  /\ pc[t] = "o_ready"
  /\ ~ NoNeedToWait(t) /\ ~ carrier
  /\ mutex' = Free
  /\ asleep' = asleep \cup {t}
  /\ Goto(t, "o_wait")
  /\ UNCHANGED <<uartVars, portVars, lineVars, hangup, suspended, ldisc,
                 file, nonblock, left>>

OpenWoken(t) ==
  /\ pc[t] = "o_wait" /\ t \notin asleep
  /\ MutexFree /\ BklFree
  /\ mutex' = t
  /\ Goto(t, "o_ready")
  /\ UNCHANGED <<uartVars, portVars, lineVars, hangup, suspended, ldisc,
                 file, nonblock, asleep, left>>

OpenSignalled(t) ==
  /\ pc[t] = "o_wait" /\ Signals
  /\ MutexFree /\ BklFree
  /\ count' = count + 1
  /\ blocked_open' = blocked_open - 1
  /\ asleep' = asleep \ {t}
  /\ Goto(t, "c_lock")
  /\ UNCHANGED <<uartVars, flags, tty, io_error, lineVars, restVars, file, nonblock, left>>

-----------------------------------------------------------------------------
(* close: uart_close, and the tty layer's release_dev around it.           *)

CloseCall(t) ==
  /\ pc[t] = "idle" /\ file[t] # "none"
  /\ Goto(t, "c_lock")
  /\ UNCHANGED <<uartVars, portVars, lineVars, restVars, file, nonblock, asleep, left>>

(* Mutant: two users are enough to shut the port down.                     *)
CountLeft_early == IF count <= 2 THEN 0 ELSE count - 1

(* state->count after the checks and the decrement.                        *)
CountLeft == IF TtyCount = 1 \/ count = 0 THEN 0 ELSE count - 1

CloseLock(t) ==
  /\ pc[t] = "c_lock" /\ MutexFree /\ BklFree
  /\ \/ /\ file[t] = "hung"
        /\ Goto(t, "c_release")
        /\ UNCHANGED <<count, mutex>>
     \/ /\ file[t] = "live" /\ CountLeft > 0
        /\ count' = CountLeft
        /\ Goto(t, "c_release")
        /\ UNCHANGED mutex
     \/ /\ file[t] = "live" /\ CountLeft = 0
        /\ count' = 0
        /\ mutex' = t
        /\ Goto(t, "c_drain")
  /\ UNCHANGED <<uartVars, blocked_open, flags, tty, io_error, lineVars,
                 hangup, suspended, ldisc, file, nonblock, asleep, left>>

(* tty_wait_until_sent: the buffer is empty, or closing_wait has passed.   *)
CloseDrained(t) ==
  /\ pc[t] = "c_drain" /\ BklFree
  /\ IF Initialized THEN StopRx ELSE UNCHANGED rx_enabled
  /\ Goto(t, "c_sent")
  /\ UNCHANGED <<ringVars, x_char, tx_enabled, claimed, fifo, tlet, portVars, lineVars,
                 restVars, file, nonblock, asleep, left>>

(* uart_wait_until_sent: the FIFO is empty, or twice port->timeout passed. *)
CloseSent(t) ==
  /\ pc[t] = "c_sent" /\ BklFree
  /\ ShutdownPort
  /\ Goto(t, "c_free")
  /\ UNCHANGED <<ringVars, x_char, fifo, tlet, count, blocked_open, tty, lineVars,
                 restVars, file, nonblock, asleep, left>>

(* The end of uart_shutdown, uart_flush_buffer, and the wake-up of openers.*)
CloseFree(t) ==
  /\ pc[t] = "c_free"
  /\ FreeBuffer /\ Clear
  /\ tty' = FALSE
  /\ flags' = flags \ {"NORMAL_ACTIVE"}
  /\ asleep' = asleep \ (Writers \cup Openers)
  /\ mutex' = Free
  /\ Goto(t, "c_release")
  /\ UNCHANGED <<last, x_char, tx_enabled, rx_enabled, claimed, fifo,
                 count, blocked_open, io_error, lineVars, hangup, suspended, ldisc,
                 file, nonblock, left>>

(* release_dev: with the last file the tty goes, after a hangup that is    *)
(* still queued or running; the next open makes a new one.                 *)
Release(t) ==
  /\ pc[t] = "c_release" /\ BklFree
  /\ TtyCount = 1 => hangup = "none" /\ ldisc = "none"
  /\ file' = [file EXCEPT ![t] = "none"]
  /\ nonblock' = [nonblock EXCEPT ![t] = FALSE]
  /\ Goto(t, "idle")
  /\ IF TtyCount = 1 THEN stopped' = FALSE /\ hw_stopped' = FALSE /\ io_error' = FALSE
     ELSE UNCHANGED <<stopped, hw_stopped, io_error>>
  /\ UNCHANGED <<uartVars, count, blocked_open, flags, tty, cflag, carrier, cts,
                 restVars, asleep, left>>

-----------------------------------------------------------------------------
(* write: write_chan of the line discipline, and uart_write.               *)

(* tty_write lets one writer at a time through, tty->atomic_write.         *)
WriteCall(t) ==
  /\ "write" \in Uses
  /\ pc[t] = "idle" /\ file[t] = "live" /\ ~ io_error
  /\ Writers = {}
  /\ \E n \in Counts : left' = [left EXCEPT ![t] = n]
  /\ Goto(t, "w_check")
  /\ UNCHANGED <<uartVars, portVars, lineVars, restVars, file, nonblock, asleep>>

(* set_current_state, the test for a hangup, and that for a buffer.        *)
WriteCheck(t) ==
  /\ pc[t] = "w_check"
  /\ IF file[t] = "hung"
       THEN Goto(t, "idle") /\ left' = [left EXCEPT ![t] = 0] /\ UNCHANGED asleep
       ELSE /\ asleep' = asleep \cup {t}
            /\ Goto(t, IF buf THEN "w_copy" ELSE "w_block")
            /\ UNCHANGED left
  /\ UNCHANGED <<uartVars, portVars, lineVars, restVars, file, nonblock>>

WriteCopy(t) ==
  /\ pc[t] = "w_copy"
  /\ PutBytes(Room(left[t]))
  /\ left' = [left EXCEPT ![t] = @ - Room(@)]
  /\ Goto(t, "w_start")
  /\ UNCHANGED <<buf, tail, line, irqVars, portVars, lineVars, restVars,
                 file, nonblock, asleep>>

(* uart_start; the line discipline sleeps until all has been taken.        *)
WriteStart(t) ==
  /\ pc[t] = "w_start"
  /\ UartStart
  /\ IF left[t] = 0 THEN Goto(t, "idle") /\ asleep' = asleep \ {t}
     ELSE Goto(t, "w_block") /\ UNCHANGED asleep
  /\ UNCHANGED <<ringVars, x_char, rx_enabled, claimed, fifo, tlet, portVars, lineVars,
                 restVars, file, nonblock, left>>

WriteWoken(t) ==
  /\ pc[t] = "w_block" /\ t \notin asleep
  /\ Goto(t, "w_check")
  /\ UNCHANGED <<uartVars, portVars, lineVars, restVars, file, nonblock, asleep, left>>

(* uart_tasklet_action: tty_wakeup.                                        *)
Tasklet ==
  /\ tlet
  /\ tlet' = FALSE
  /\ asleep' = asleep \ Writers
  /\ UNCHANGED <<ringVars, x_char, tx_enabled, rx_enabled, claimed, fifo, portVars,
                 lineVars, restVars, file, nonblock, pc, left>>

(* uart_flush_buffer, for tcflush() or an interrupt character received.    *)
FlushBuffer ==
  /\ "flush" \in Uses
  /\ tty /\ LiveTasks # {} /\ BklFree
  /\ Clear
  /\ asleep' = asleep \ Writers
  /\ UNCHANGED <<buf, last, irqVars, portVars, lineVars, restVars,
                 file, nonblock, pc, left>>

-----------------------------------------------------------------------------
(* What the line discipline calls for received characters: echo, flow      *)
(* control by characters from the other end, and by its own.               *)

LdiscRuns == ldisc = "none" /\ tty /\ LiveTasks # {}

(* uart_put_char.                                                          *)
PutChar ==
  /\ "echo" \in Uses
  /\ LdiscRuns /\ buf
  /\ PutBytes(Room(1))
  /\ ldisc' = "flush"
  /\ UNCHANGED <<buf, tail, line, irqVars, portVars, lineVars, taskVars, mutex, hangup, suspended>>

(* uart_flush_chars.                                                       *)
FlushChars ==
  /\ ldisc = "flush"
  /\ ldisc' = "none"
  /\ UartStart
  /\ UNCHANGED <<ringVars, x_char, rx_enabled, claimed, fifo, tlet, portVars, lineVars,
                 taskVars, mutex, hangup, suspended>>

(* stop_tty and uart_stop.                                                 *)
StopTty ==
  /\ "stop" \in Uses
  /\ LdiscRuns /\ ~ stopped
  /\ stopped' = TRUE
  /\ StopTx
  /\ UNCHANGED <<ringVars, x_char, rx_enabled, claimed, fifo, tlet, portVars, cflag,
                 hw_stopped, carrier, cts, taskVars, restVars>>

(* start_tty, then uart_start.                                             *)
StartTty ==
  /\ LdiscRuns /\ stopped
  /\ stopped' = FALSE
  /\ ldisc' = "flush"
  /\ UNCHANGED <<uartVars, portVars, cflag, hw_stopped, carrier, cts, taskVars,
                 mutex, hangup, suspended>>

(* uart_send_xchar, for uart_throttle, and for uart_unthrottle when there  *)
(* is nothing to take back.                                                *)
SendXchar ==
  /\ "xchar" \in Uses
  /\ LdiscRuns
  /\ x_char' = TRUE
  /\ StartTx
  /\ UNCHANGED <<ringVars, rx_enabled, claimed, fifo, tlet, portVars,
                 lineVars, taskVars, restVars>>

(* uart_unthrottle with the stop character still unsent.                   *)
TakeBackXchar ==
  /\ LdiscRuns /\ x_char
  /\ x_char' = FALSE
  /\ UNCHANGED <<ringVars, tx_enabled, rx_enabled, claimed, fifo, tlet, portVars,
                 lineVars, taskVars, restVars>>

-----------------------------------------------------------------------------
(* ioctl: settings and reconfiguration.                                    *)

(* uart_set_termios up to the handling of CRTSCTS.                         *)
SetTermios(t) ==
  /\ pc[t] = "idle" /\ file[t] = "live" /\ BklFree
  /\ \E c \in Cflags \ {cflag} :
       /\ cflag' = c
       /\ flags' = ChangedSpeed(flags, c)
       /\ Goto(t, IF "CRTSCTS" \in c \ cflag THEN "m_on"
                  ELSE IF "CRTSCTS" \in cflag \ c THEN "m_off" ELSE "idle")
  /\ UNCHANGED <<uartVars, count, blocked_open, tty, io_error, stopped, hw_stopped,
                 carrier, cts, restVars, file, nonblock, asleep, left>>

FlowOn(t) ==
  /\ pc[t] = "m_on"
  /\ IF cts THEN UNCHANGED <<hw_stopped, tx_enabled>>
     ELSE hw_stopped' = TRUE /\ StopTx
  /\ Goto(t, "idle")
  /\ UNCHANGED <<ringVars, x_char, rx_enabled, claimed, fifo, tlet, portVars, cflag, stopped,
                 carrier, cts, restVars, file, nonblock, asleep, left>>

(* hw_stopped = 0, then __uart_start, under the port's lock.               *)
FlowOff(t) ==
  /\ pc[t] = "m_off"
  /\ hw_stopped' = FALSE
  /\ IF ~ Empty /\ buf /\ ~ stopped THEN StartTx ELSE UNCHANGED tx_enabled
  /\ Goto(t, "idle")
  /\ UNCHANGED <<ringVars, x_char, rx_enabled, claimed, fifo, tlet, portVars, cflag, stopped,
                 carrier, cts, restVars, file, nonblock, asleep, left>>

(* uart_set_info for another port or interrupt, and uart_do_autoconfig:    *)
(* both refuse while the port has a second user.                           *)
Reconfigure(t) ==
  /\ "setserial" \in Uses
  /\ pc[t] = "idle" /\ file[t] = "live" /\ MutexFree /\ BklFree
  /\ TRUE \in Admins
  /\ count + blocked_open <= 1
  /\ ShutdownPort
  /\ mutex' = t
  /\ Goto(t, "s_free")
  /\ UNCHANGED <<ringVars, x_char, fifo, tlet, count, blocked_open, tty, lineVars,
                 hangup, suspended, ldisc, file, nonblock, asleep, left>>

ReconfigureFree(t) ==
  /\ pc[t] = "s_free"
  /\ FreeBuffer
  /\ asleep' = Killed
  /\ Goto(t, "s_start")
  /\ UNCHANGED <<head, tail, mem, last, line, x_char, tx_enabled, rx_enabled, claimed, fifo,
                 portVars, lineVars, restVars, file, nonblock, left>>

(* The end of uart_set_info or uart_do_autoconfig: uart_startup(state, 1). *)
ReconfigureStart(t) ==
  /\ pc[t] = "s_start"
  /\ Startup(TRUE)
  /\ mutex' = Free
  /\ Goto(t, "idle")
  /\ UNCHANGED <<count, blocked_open, tty, cflag, stopped, carrier, cts,
                 hangup, suspended, ldisc, file, nonblock, asleep, left>>

(* uart_set_info without such a change, for a port that is not started.    *)
SetInfo(t) ==
  /\ pc[t] = "idle" /\ file[t] = "live" /\ MutexFree /\ BklFree
  /\ ~ Initialized
  /\ mutex' = t
  /\ Goto(t, "s_start")
  /\ UNCHANGED <<uartVars, portVars, lineVars, hangup, suspended, ldisc,
                 file, nonblock, asleep, left>>

-----------------------------------------------------------------------------
(* The modem lines, as a driver that has them reports them.                *)

(* uart_handle_dcd_change: openers are woken, or a hangup is queued.       *)
DcdChange ==
  /\ "carrier" \in Uses
  /\ carrier' = ~ carrier
  /\ IF claimed /\ "CHECK_CD" \in flags
       THEN /\ asleep' = IF carrier THEN asleep ELSE asleep \ Openers
            /\ hangup' = IF carrier /\ tty /\ hangup = "none" THEN "queued" ELSE hangup
       ELSE UNCHANGED <<asleep, hangup>>
  /\ UNCHANGED <<uartVars, portVars, cflag, stopped, hw_stopped, cts, mutex, suspended,
                 ldisc, file, nonblock, pc, left>>

(* uart_handle_cts_change.                                                 *)
CtsChange ==
  /\ "cts" \in Uses
  /\ cts' = ~ cts
  /\ \/ /\ claimed /\ "CTS_FLOW" \in flags /\ hw_stopped /\ ~ cts
        /\ hw_stopped' = FALSE
        /\ StartTx
        /\ tlet' = TRUE
     \/ /\ claimed /\ "CTS_FLOW" \in flags /\ ~ hw_stopped /\ cts
        /\ hw_stopped' = TRUE
        /\ StopTx
        /\ UNCHANGED tlet
     \/ /\ ~ (claimed /\ "CTS_FLOW" \in flags /\ (hw_stopped # cts))
        /\ UNCHANGED <<hw_stopped, tx_enabled, tlet>>
  /\ UNCHANGED <<ringVars, x_char, rx_enabled, claimed, fifo, portVars, cflag, stopped,
                 carrier, taskVars, restVars>>

TransmitIrq ==
  /\ TxChars(stopped \/ hw_stopped)
  /\ UNCHANGED <<portVars, lineVars, taskVars, restVars>>

Hardware ==
  /\ ShiftOut
  /\ UNCHANGED <<ringVars, x_char, tx_enabled, rx_enabled, claimed, tlet,
                 portVars, lineVars, taskVars, restVars>>

-----------------------------------------------------------------------------
(* do_tty_hangup in the kernel thread, and uart_hangup.                    *)

HangupMark ==
  /\ hangup = "queued" /\ BklFree
  /\ file' = [t \in Tasks |-> IF file[t] = "live" THEN "hung" ELSE file[t]]
  /\ asleep' = asleep \ Writers
  /\ hangup' = "h_lock"
  /\ UNCHANGED <<uartVars, portVars, lineVars, mutex, suspended, ldisc, nonblock, pc, left>>

HangupLock ==
  /\ hangup = "h_lock" /\ mutex = Free /\ BklFree
  /\ IF "NORMAL_ACTIVE" \in flags
       THEN /\ Clear
            /\ ShutdownPort
            /\ asleep' = asleep \ Writers
            /\ mutex' = Eventd
            /\ hangup' = "h_free"
       ELSE /\ hangup' = "none"
            /\ UNCHANGED <<head, tail, mem, line, claimed, tx_enabled, rx_enabled,
                           flags, io_error, asleep, mutex>>
  /\ UNCHANGED <<buf, last, x_char, fifo, tlet, count, blocked_open, tty, lineVars,
                 suspended, ldisc, file, nonblock, pc, left>>

HangupFree ==
  /\ hangup = "h_free"
  /\ FreeBuffer
  /\ count' = 0
  /\ flags' = flags \ {"NORMAL_ACTIVE"}
  /\ tty' = FALSE
  /\ asleep' = asleep \ (Writers \cup Openers)
  /\ mutex' = Free
  /\ hangup' = "none"
  /\ UNCHANGED <<head, tail, mem, last, line, x_char, tx_enabled, rx_enabled, claimed, fifo,
                 blocked_open, io_error, lineVars, suspended, ldisc,
                 file, nonblock, pc, left>>

-----------------------------------------------------------------------------
(* Power management, with every task and the line discipline at rest.      *)

(* uart_suspend_port, which waits for the transmitter.                     *)
Suspend ==
  /\ "suspend" \in Uses
  /\ \A t \in Tasks : pc[t] = "idle"
  /\ mutex = Free /\ hangup = "none" /\ ldisc = "none" /\ TxEmpty
  /\ suspended' = TRUE
  /\ IF Initialized THEN claimed' = FALSE /\ tx_enabled' = FALSE /\ rx_enabled' = FALSE
     ELSE UNCHANGED <<claimed, tx_enabled, rx_enabled>>
  /\ UNCHANGED <<ringVars, x_char, fifo, tlet, portVars, lineVars, taskVars,
                 mutex, hangup, ldisc>>

(* uart_resume_port; start_tx is what startup has done already.  When the  *)
(* interrupts are refused, the port is shut down.                          *)
Resume ==
  /\ suspended
  /\ suspended' = FALSE
  /\ IF Initialized
       THEN \E ok \in Startups :
              /\ StartupUart(ok)
              /\ IF ok
                   THEN /\ flags' = IF tty THEN ChangedSpeed(flags, cflag) ELSE flags
                        /\ UNCHANGED <<io_error, buf, tlet>>
                   ELSE /\ flags' = flags \ {"INITIALIZED"}
                        /\ io_error' = (io_error \/ tty)
                        /\ FreeBuffer
       ELSE UNCHANGED <<claimed, tx_enabled, rx_enabled, flags, io_error, buf, tlet>>
  /\ UNCHANGED <<head, tail, mem, last, line, x_char, fifo, count, blocked_open, tty,
                 lineVars, taskVars, mutex, hangup, ldisc>>

-----------------------------------------------------------------------------
Calls(t) ==
  OpenCall(t) \/ CloseCall(t) \/ WriteCall(t) \/ SetTermios(t)
    \/ Reconfigure(t) \/ SetInfo(t)
Steps(t) ==
  \/ OpenGet(t) \/ OpenHungUp(t) \/ OpenReady(t) \/ OpenSleep(t) \/ OpenWoken(t)
  \/ CloseLock(t) \/ CloseDrained(t) \/ CloseSent(t) \/ CloseFree(t) \/ Release(t)
  \/ WriteCheck(t) \/ WriteCopy(t) \/ WriteStart(t) \/ WriteWoken(t)
  \/ FlowOn(t) \/ FlowOff(t) \/ ReconfigureFree(t) \/ ReconfigureStart(t)
Hangup == HangupMark \/ HangupLock \/ HangupFree
Received == FlushBuffer \/ PutChar \/ StopTty \/ StartTty \/ SendXchar \/ TakeBackXchar

Awake ==
  \/ \E t \in Tasks : Calls(t) \/ Steps(t) \/ OpenSignalled(t)
  \/ Hangup \/ FlushChars \/ Received
  \/ Tasklet \/ TransmitIrq \/ Hardware \/ DcdChange \/ CtsChange
  \/ Suspend
Next == (~ suspended /\ Awake) \/ Resume

Spec == Init /\ [][Next]_vars

(* The same with signals during an open's wait for the mutex: with them a  *)
(* port is closed under its users (CountOneAtLastClose), and the           *)
(* properties below do not hold.                                           *)
SignalSpec ==
  Init /\ [][Next \/ (~ suspended /\ \E t \in Tasks : OpenInterrupted(t))]_vars

(* The processor goes on with what was called, interrupts are served and   *)
(* the hardware sends; nobody has to call, and no modem line has to move.  *)
Fairness ==
  /\ \A t \in Tasks : WF_vars(Steps(t))
  /\ WF_vars(Hangup) /\ WF_vars(FlushChars) /\ WF_vars(Tasklet)
  /\ WF_vars(TransmitIrq) /\ WF_vars(Hardware)
FairSpec == Spec /\ Fairness

-----------------------------------------------------------------------------
TypeOK ==
  /\ buf \in BOOLEAN /\ head \in Places /\ tail \in Places /\ mem \in [Places -> Numbers \cup {Stale}]
  /\ x_char \in BOOLEAN /\ tx_enabled \in BOOLEAN /\ rx_enabled \in BOOLEAN
  /\ claimed \in BOOLEAN /\ fifo \in 0 .. FifoSize /\ tlet \in BOOLEAN
  /\ last \in Numbers /\ line \in Numbers
  /\ mutex \in Tasks \cup {Eventd, Free}
  /\ count \in Nat /\ blocked_open \in Nat
  /\ flags \subseteq {"INITIALIZED", "NORMAL_ACTIVE", "CTS_FLOW", "CHECK_CD"}
  /\ tty \in BOOLEAN /\ io_error \in BOOLEAN
  /\ cflag \subseteq {"CLOCAL", "CRTSCTS"}
  /\ stopped \in BOOLEAN /\ hw_stopped \in BOOLEAN /\ carrier \in BOOLEAN /\ cts \in BOOLEAN
  /\ hangup \in {"none", "queued", "h_lock", "h_free"}
  /\ suspended \in BOOLEAN /\ ldisc \in {"none", "flush"}
  /\ file \in [Tasks -> {"none", "live", "hung"}]
  /\ nonblock \in [Tasks -> BOOLEAN]
  /\ pc \in [Tasks -> Labels]
  /\ asleep \subseteq Tasks
  /\ left \in [Tasks -> Nat]

(* What is pending in the buffer is what was accepted last, in order and   *)
(* once, directly after the last byte that left it - whatever write, echo, *)
(* flush, interrupt and shutdown do to its two ends.                       *)
BufferFaithful ==
  buf => /\ \A i \in 0 .. Pending - 1 :
              mem[(tail + i) % UART_XMIT_SIZE] = (line + 1 + i) % Serials
         /\ last = (line + Pending) % Serials

(* A started port with bytes to send and nothing that stops it has its     *)
(* transmit interrupt on, or a task is about to turn it on: the interrupt  *)
(* that turned itself off has not overlooked a byte. And a writer sleeps   *)
(* only while the transmitter still has to come down to WAKEUP_CHARS, or   *)
(* the wake-up is on its way.                                              *)
TransmitterRuns ==
  /\ claimed /\ ~ Empty /\ ~ stopped /\ ~ hw_stopped
       => \/ tx_enabled
          \/ ldisc = "flush"
          \/ \E t \in Tasks : pc[t] = "w_start"
  /\ \A t \in asleep :
       pc[t] = "w_block" /\ file[t] = "live" => Pending >= WAKEUP_CHARS \/ tlet

(* The interrupts of a port are requested only while the buffer and the    *)
(* tty their handlers follow are there, the tasklet only with the tty.     *)
InterruptsOwned ==
  /\ claimed => buf /\ tty
  /\ tlet => tty

(* An opener sleeps only on a started port without carrier: carrier, close *)
(* and hangup all reach it.                                                *)
OpenersWoken ==
  \A t \in Openers \cap asleep :
    mutex = Free => Initialized /\ tty /\ ~ carrier

(* The tasks whose files count as users of the port.                       *)
Users == {t \in LiveTasks : pc[t] \notin {"o_get", "o_ready", "o_wait",
                                          "c_drain", "c_sent", "c_free", "c_release"}}
(* Every open file is counted, and its port is started or marked with      *)
(* TTY_IO_ERROR: no other close shuts it down.                             *)
PortKept ==
  /\ blocked_open = Cardinality({t \in Tasks : pc[t] \in {"o_ready", "o_wait"}})
  /\ Cardinality(Users) <= count \/ hangup # "none"
  /\ Users # {} /\ mutex = Free => (Initialized /\ (claimed \/ suspended)) \/ io_error

(* An active port that is not being closed receives.                       *)
ReceiverOn ==
  claimed /\ ~ rx_enabled => \E t \in Tasks : pc[t] = "c_sent"

(* A started port that nobody writes to and nothing stops.                *)
Quiet == claimed /\ ~ stopped /\ ~ hw_stopped /\ Writers = {} /\ ldisc = "none"
(* A port that stays quiet sends everything it has accepted.               *)
QuietDrains == []<>(~ Quiet \/ (Empty /\ TxEmpty))

(* A writer does not sleep for ever beside a transmitter that may send,     *)
(* unless echoes or priority characters take every place that gets free.   *)
WriterProceeds ==
  \A t \in Tasks : []<>(pc[t] # "w_block" \/ stopped \/ hw_stopped
                           \/ x_char \/ ldisc = "flush")

(* The port serves its writers: what they have written is sent, and they   *)
(* get on.                                                                 *)
WritersServed == QuietDrains /\ WriterProceeds

(* "state->count should always be one in these conditions" (uart_close):   *)
(* the last file of a tty is closed.                                       *)
CountOneAtLastClose ==
  \A t \in Tasks :
    pc[t] = "c_lock" /\ file[t] = "live" /\ TtyCount = 1 /\ mutex = Free => count = 1
=============================================================================
