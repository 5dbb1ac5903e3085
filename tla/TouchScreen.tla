----------------------------- MODULE TouchScreen -----------------------------
(***************************************************************************)
(* The S3C2410 touch screen as a character device (code/12): an interrupt  *)
(* when the pen touches the panel or leaves it, one at the end of each of  *)
(* the two conversions of a sample, a timer that samples on while the pen  *)
(* is down, and a ring of events that processes read.                      *)
(* One processor and a kernel that is not preempted (Linux 2.4): a process *)
(* runs until it sleeps, but interrupts and the timer come between any two *)
(* of its steps; a handler holds the lock with interrupts off and is one   *)
(* step.                                                                   *)
(***************************************************************************)
EXTENDS Naturals, Sequences

CONSTANTS
  TsReaders,  \* processes that open the device and read
  TsSize,     \* MAX_TS_BUF
  TsPos,      \* positions on the panel
  TsMaxOps    \* bound on the opens and suspends

ASSUME TouchAssumption ==
  TsSize \in Nat \ {0, 1} /\ TsMaxOps \in Nat /\ TsPos # {}

TsUp == "up"     \* an event with pressure PEN_UP
PEN_UP == "PEN_UP"
PEN_DOWN == "PEN_DOWN"

VARIABLES
  ts_open,    \* who has the device open
  ts_pc,      \* where a reader is: "user", "take", "going" to sleep, "asleep", "woken"
  ts_wq,      \* tsdev.wq
  ts_head, ts_tail, ts_buf, penStatus,   \* tsdev
  tsEvent,    \* "raw" or "dummy"
  adc_state,
  ts_conv,    \* external: a conversion runs
  ts_tsc,     \* ADCTSC: waits for "down" or "up", or converts "x" or "y"
  ts_timer,   \* ts_timer is pending
  ts_pen,     \* external: the pen touches the panel
  ts_pend,    \* history: the events logged and not read since the ring last ran over
  ts_missed,  \* history: who was on the way to sleep when an event came
  ts_odd,     \* history: a call that the device's state does not allow for
  ts_oops,    \* a timer was initialised while it was pending
  ts_ops      \* opens and suspends that are left

tsDev == <<ts_head, ts_tail, ts_buf, ts_pend>>
tsAdc == <<adc_state, ts_conv, ts_tsc>>
tsVars == <<ts_open, ts_pc, ts_wq, tsDev, penStatus, tsEvent, tsAdc, ts_timer,
            ts_pen, ts_missed, ts_odd, ts_oops, ts_ops>>

TsInit ==
  /\ ts_open = {} /\ ts_pc = [r \in TsReaders |-> "user"] /\ ts_wq = {}
  /\ ts_head = 0 /\ ts_tail = 0 /\ ts_buf = [i \in 0 .. TsSize - 1 |-> TsUp]
  /\ penStatus = PEN_UP /\ tsEvent = "dummy"
  /\ adc_state = 0 /\ ts_conv = FALSE /\ ts_tsc = "down" /\ ts_timer = FALSE
  /\ ts_pen = FALSE
  /\ ts_pend = <<>> /\ ts_missed = {}
  /\ ts_odd = FALSE /\ ts_oops = FALSE /\ ts_ops = TsMaxOps

-----------------------------------------------------------------------------
(* tsEvent_raw, and tsEvent_dummy of a suspended device; wake_up reaches   *)
(* who is on the queue. An event that meets a full ring takes all of it    *)
(* away: head has caught up with tail.                                     *)

TsIncBuf(i) == (i + 1) % TsSize

TsLog(event) ==
  /\ ts_buf' = [ts_buf EXCEPT ![ts_head] = event]
  /\ ts_head' = TsIncBuf(ts_head)
  /\ ts_pend' = IF Len(ts_pend) = TsSize THEN <<event>> ELSE Append(ts_pend, event)
  /\ UNCHANGED ts_tail

TsWake ==
  /\ ts_pc' = [r \in TsReaders |-> IF r \in ts_wq THEN "woken" ELSE ts_pc[r]]
  /\ ts_wq' = {}
  /\ ts_missed' = (ts_missed \ ts_wq) \cup {r \in TsReaders : ts_pc[r] = "going"}

(* Mutant: an event is logged and nobody is woken.                         *)
TsRaise_quiet(event) ==
  IF tsEvent = "raw"
    THEN /\ TsLog(event)
         /\ ts_timer' = (event # TsUp)
         /\ UNCHANGED <<ts_pc, ts_wq, ts_missed>>
    ELSE UNCHANGED <<tsDev, ts_timer, ts_pc, ts_wq, ts_missed>>

TsRaise(event) ==
  IF tsEvent = "raw"
    THEN /\ TsLog(event)
         /\ ts_timer' = (event # TsUp)
         /\ TsWake
    ELSE UNCHANGED <<tsDev, ts_timer, ts_pc, ts_wq, ts_missed>>

(* start_ts_adc.                                                           *)
TsStartAdc == adc_state' = 0 /\ ts_tsc' = "x" /\ ts_conv' = TRUE

(* s3c2410_isr_adc, when a conversion ends: after the first one the second *)
(* is started, after that the sample is an event.                          *)
TsAdcFirst ==
  /\ ts_conv /\ adc_state = 0
  /\ adc_state' = 1 /\ ts_tsc' = "y" /\ ts_conv' = TRUE
  /\ UNCHANGED <<ts_open, ts_pc, ts_wq, tsDev, penStatus, tsEvent, ts_timer,
                 ts_pen, ts_missed, ts_odd, ts_oops, ts_ops>>

TsAdcSecond ==
  /\ ts_conv /\ adc_state = 1
  /\ adc_state' = 0 /\ ts_conv' = FALSE
  /\ penStatus' = PEN_DOWN
  /\ ts_tsc' = "up"
  /\ \E position \in TsPos : TsRaise(position)
  /\ UNCHANGED <<ts_open, tsEvent, ts_pen, ts_odd, ts_oops, ts_ops>>

(* External: the panel interrupts as long as the pen is where ADCTSC waits *)
(* for it, and never while it converts.                                    *)
TsTouched == IF ts_pen THEN ts_tsc = "down" ELSE ts_tsc = "up"

(* s3c2410_isr_tc, the start of a touch or its end.                        *)
TsPenDown ==
  /\ TsTouched /\ penStatus = PEN_UP
  /\ TsStartAdc
  /\ UNCHANGED <<ts_open, ts_pc, ts_wq, tsDev, penStatus, tsEvent, ts_timer,
                 ts_pen, ts_missed, ts_odd, ts_oops, ts_ops>>

(* Mutant: the end of a touch does not wait for the next one.              *)
TsPenUp_deaf ==
  /\ TsTouched /\ penStatus # PEN_UP
  /\ penStatus' = PEN_UP
  /\ TsRaise(TsUp)
  /\ UNCHANGED <<ts_open, tsEvent, adc_state, ts_conv, ts_tsc, ts_pen, ts_odd, ts_oops, ts_ops>>

TsPenUp ==
  /\ TsTouched /\ penStatus # PEN_UP
  /\ penStatus' = PEN_UP
  /\ ts_tsc' = "down"
  /\ TsRaise(TsUp)
  /\ UNCHANGED <<ts_open, tsEvent, adc_state, ts_conv, ts_pen, ts_odd, ts_oops, ts_ops>>

(* ts_timer_handler.                                                       *)
TsTimer ==
  /\ ts_timer
  /\ ts_timer' = FALSE
  /\ IF penStatus = PEN_DOWN THEN TsStartAdc ELSE UNCHANGED tsAdc
  /\ UNCHANGED <<ts_open, ts_pc, ts_wq, tsDev, penStatus, tsEvent, ts_pen,
                 ts_missed, ts_odd, ts_oops, ts_ops>>

(* External: the user touches the panel, or lifts the pen.                 *)
TsTouch ==
  /\ ts_pen' = ~ ts_pen
  /\ UNCHANGED <<ts_open, ts_pc, ts_wq, tsDev, penStatus, tsEvent, tsAdc,
                 ts_timer, ts_missed, ts_odd, ts_oops, ts_ops>>

-----------------------------------------------------------------------------
(* The calls. TsFree: no process is in the kernel but those that sleep.    *)

TsFree == \A r \in TsReaders : ts_pc[r] \notin {"take", "going"}

(* s3c2410_ts_open: everything is set up again, whoever uses it. The state *)
(* allows for it when nobody has the device open and the panel waits for   *)
(* a touch; a timer that is pending is broken by init_timer, and who       *)
(* sleeps is not on the queue any more.                                    *)
TsOpen(r) ==
  /\ TsFree /\ r \notin ts_open /\ ts_ops > 0
  /\ ts_open' = ts_open \cup {r}
  /\ ts_head' = 0 /\ ts_tail' = 0 /\ penStatus' = PEN_UP
  /\ ts_pend' = <<>>
  /\ ts_timer' = FALSE /\ ts_oops' = ts_timer
  /\ tsEvent' = "raw"
  /\ ts_wq' = {}
  /\ ts_odd' = (ts_odd \/ ts_open # {} \/ penStatus # PEN_UP)
  /\ ts_ops' = ts_ops - 1
  /\ UNCHANGED <<ts_pc, ts_buf, tsAdc, ts_pen, ts_missed>>

(* s3c2410_ts_release: the timer stops for everybody.                      *)
TsRelease(r) ==
  /\ TsFree /\ r \in ts_open /\ ts_pc[r] = "user"
  /\ ts_open' = ts_open \ {r}
  /\ ts_timer' = FALSE
  /\ ts_odd' = (ts_odd \/ ts_open # {r})
  /\ UNCHANGED <<ts_pc, ts_wq, tsDev, penStatus, tsEvent, tsAdc, ts_pen,
                 ts_missed, ts_oops, ts_ops>>

(* s3c2410_ts_read: a look at the ring, first or after a sleep.            *)
TsReadLook(r) ==
  /\ TsFree /\ r \in ts_open /\ ts_pc[r] \in {"user", "woken"}
  /\ \/ ts_pc' = [ts_pc EXCEPT ![r] = IF ts_head # ts_tail THEN "take" ELSE "going"]
     \/ /\ ts_pc[r] = "woken"  \* signal_pending
        /\ ts_pc' = [ts_pc EXCEPT ![r] = "user"]
  /\ UNCHANGED <<ts_open, ts_wq, tsDev, penStatus, tsEvent, tsAdc, ts_timer,
                 ts_pen, ts_missed, ts_odd, ts_oops, ts_ops>>

(* Mutant: the event is copied and stays in the ring.                      *)
TsTake_keep(r) ==
  /\ ts_pc[r] = "take"
  /\ ts_pend' = IF ts_pend = <<>> THEN <<>> ELSE Tail(ts_pend)
  /\ ts_pc' = [ts_pc EXCEPT ![r] = "user"]
  /\ UNCHANGED <<ts_tail, ts_open, ts_wq, ts_head, ts_buf, penStatus, tsEvent, tsAdc,
                 ts_timer, ts_pen, ts_missed, ts_odd, ts_oops, ts_ops>>

(* tsRead.                                                                 *)
TsTake(r) ==
  /\ ts_pc[r] = "take"
  /\ ts_tail' = TsIncBuf(ts_tail)
  /\ ts_pend' = IF ts_pend = <<>> THEN <<>> ELSE Tail(ts_pend)
  /\ ts_pc' = [ts_pc EXCEPT ![r] = "user"]
  /\ UNCHANGED <<ts_open, ts_wq, ts_head, ts_buf, penStatus, tsEvent, tsAdc,
                 ts_timer, ts_pen, ts_missed, ts_odd, ts_oops, ts_ops>>

(* interruptible_sleep_on puts itself on the queue, whatever has come      *)
(* since the look.                                                         *)
TsSleep(r) ==
  /\ ts_pc[r] = "going"
  /\ ts_pc' = [ts_pc EXCEPT ![r] = "asleep"]
  /\ ts_wq' = ts_wq \cup {r}
  /\ UNCHANGED <<ts_open, tsDev, penStatus, tsEvent, tsAdc, ts_timer, ts_pen,
                 ts_missed, ts_odd, ts_oops, ts_ops>>

(* A signal ends the sleep and the call.                                   *)
TsSignal(r) ==
  /\ TsFree /\ ts_pc[r] = "asleep"
  /\ ts_pc' = [ts_pc EXCEPT ![r] = "user"]
  /\ ts_wq' = ts_wq \ {r} /\ ts_missed' = ts_missed \ {r}
  /\ UNCHANGED <<ts_open, tsDev, penStatus, tsEvent, tsAdc, ts_timer, ts_pen,
                 ts_odd, ts_oops, ts_ops>>

(* s3c2410_ts_pm_callback.                                                 *)
TsSuspend ==
  /\ TsFree /\ ts_ops > 0 /\ ts_open # {} /\ tsEvent = "raw"
  /\ tsEvent' = "dummy"
  /\ ts_odd' = TRUE
  /\ ts_ops' = ts_ops - 1
  /\ UNCHANGED <<ts_open, ts_pc, ts_wq, tsDev, penStatus, tsAdc, ts_timer,
                 ts_pen, ts_missed, ts_oops>>

TsResume ==
  /\ TsFree /\ ts_open # {} /\ tsEvent = "dummy"
  /\ tsEvent' = "raw"
  /\ ts_tsc' = "down"
  /\ UNCHANGED <<ts_open, ts_pc, ts_wq, tsDev, penStatus, adc_state, ts_conv,
                 ts_timer, ts_pen, ts_missed, ts_odd, ts_oops, ts_ops>>

TsKernel ==
  \/ TsAdcFirst \/ TsAdcSecond \/ TsPenDown \/ TsPenUp \/ TsTimer
  \/ \E r \in TsReaders : TsTake(r) \/ TsSleep(r)
TsNext ==
  /\ ~ ts_oops
  /\ \/ TsKernel \/ TsTouch \/ TsSuspend \/ TsResume
     \/ \E r \in TsReaders : TsOpen(r) \/ TsRelease(r) \/ TsReadLook(r) \/ TsSignal(r)

(* Conversions end, the panel and the timer interrupt, and the processor   *)
(* runs on; users may do nothing.                                          *)
TsFairness ==
  /\ WF_tsVars(~ ts_oops /\ (TsAdcFirst \/ TsAdcSecond))
  /\ WF_tsVars(~ ts_oops /\ (TsPenDown \/ TsPenUp))
  /\ WF_tsVars(~ ts_oops /\ TsTimer)
  /\ WF_tsVars(~ ts_oops /\ \E r \in TsReaders : TsTake(r) \/ TsSleep(r))
TsSpec == TsInit /\ [][TsNext]_tsVars /\ TsFairness

-----------------------------------------------------------------------------
TsRing == [i \in 1 .. (ts_head + TsSize - ts_tail) % TsSize |->
             ts_buf[(ts_tail + i - 1) % TsSize]]


(* What the driver thinks of the pen is what the panel waits for, a sample *)
(* has its two conversions in their order, and the timer never fires into  *)
(* one.                                                                    *)
TsPhase ==
  /\ ts_conv <=> ts_tsc \in {"x", "y"}
  /\ ts_tsc = "x" => adc_state = 0
  /\ ts_tsc = "y" <=> adc_state = 1
  /\ ts_tsc = "down" => penStatus = PEN_UP
  /\ ts_tsc = "up" => penStatus = PEN_DOWN
  /\ ts_timer => ts_tsc = "up"
PenInStep == ~ ts_odd => TsPhase

(* The ring holds just the events that nobody has read, in the order they  *)
(* came - but when TsSize of them are there it shows none, and the next    *)
(* one loses them. A reader that saw an event takes the oldest one left,   *)
(* though the ring run full or over since its look. And nobody sleeps      *)
(* while the ring shows an event, but those who were just going to sleep   *)
(* when it came, or whom an open took from the queue (tsEvent_raw, tsRead, *)
(* s3c2410_ts_read).                                                       *)
RingFaithful ==
  /\ TsRing = IF Len(ts_pend) = TsSize THEN <<>> ELSE ts_pend
  /\ \A r \in TsReaders :
       /\ ts_pc[r] = "take" => ts_pend # <<>> /\ ts_buf[ts_tail] = ts_pend[1]
       /\ ts_pc[r] = "asleep" /\ r \in ts_wq /\ r \notin ts_missed => TsRing = <<>>

(* What second openers, opens during a touch and suspends put out of step  *)
(* comes back: once the pen rests, driver and panel agree, or the panel    *)
(* waits, with nothing else going on, for the move that ends it - a pen    *)
(* that is down to be lifted, or one that is up to touch (s3c2410_ts_open, *)
(* s3c2410_ts_pm_callback, s3c2410_isr_tc). A broken timer list excepted.  *)
PenSettles ==
  <>[]ts_pen \/ <>[]~ ts_pen =>
    <>[](ts_oops \/ TsPhase \/ ~ (ts_conv \/ ts_timer \/ TsTouched))

(* A reader does not sleep on while the pen is held down, even if it       *)
(* missed an event: the timer brings the next one.                         *)
HeldPenHeard ==
  \A r \in TsReaders :
    ts_pc[r] = "asleep" /\ ts_pen /\ ~ ts_odd
      ~> ts_pc[r] # "asleep" \/ ~ ts_pen \/ ts_odd

=============================================================================
