------------------------------- MODULE S3cI2c -------------------------------
(***************************************************************************)
(* The S3C24xx I2C master driver (code/15, i2c-s3c2410.c): one process     *)
(* calls the adapter's master_xfer (the i2c core holds the adapter's lock  *)
(* around it), the interrupt handler moves the transfer on one byte at a   *)
(* time, and the controller with the slaves behind it shifts the bytes.    *)
(* The processor has one core and the handler runs with interrupts off     *)
(* (SA_INTERRUPT), so a handler run is one step, as is what doxfer does    *)
(* under spin_lock_irq.                                                    *)
(***************************************************************************)
EXTENDS Integers, SequencesExt

CONSTANTS
  Transfers,   \* the arrays of messages master_xfer may be called with
  Retries,     \* adap.retries
  MaxXfers,    \* bound: calls of master_xfer
  MaxTimeouts, \* bound: how often the 5 seconds of doxfer pass; 0: never
  Arbitration  \* TRUE: there is another master on the bus

EAGAIN       == 11
EINVAL       == 22
ECONNREFUSED == 111
EREMOTEIO    == 121

(* A message: where to, which way, how long, and its I2C_M_ flags (rev is  *)
(* I2C_M_REV_DIR_ADDR).                                                    *)
Message == [addr : Nat, rd : BOOLEAN, len : Nat,
            nostart : BOOLEAN, ignore_nak : BOOLEAN, rev : BOOLEAN]

ASSUME I2cAssumption ==
  /\ Transfers \subseteq Seq(Message) \ {<<>>}
  /\ Retries \in Nat \ {0}
  /\ MaxXfers \in Nat /\ MaxTimeouts \in Nat
  /\ Arbitration \in BOOLEAN

VARIABLES
  state,     \* i2c->state
  msg,       \* i2c->msg: the place in msgs it points to, 0 for NULL
  msgs,      \* the array i2c->msg points into
  msg_num, msg_idx, msg_ptr,
  irqen,     \* IICCON_IRQEN
  acken,     \* IICCON_ACKEN
  pend,      \* IICCON_IRQPEND: the controller waits for the handler
  lastbit,   \* IICSTAT_LASTBIT: the last byte was not acknowledged
  busy,      \* IICSTAT_BUSBUSY
  rx,        \* IICSTAT: MASTER_RX, not MASTER_TX
  ds,        \* what IICDS will send next
  shift,     \* what the controller does: "none" "addr" "tx" "rx" "stop"
  wire,      \* what has been on the bus since doxfer took it
  pc,        \* where the caller of master_xfer is
  args,      \* the messages it called with; they are its own after the call
  retry, ret,
  xfers, timeouts,  \* counters of the bounds
  oops       \* the handler has followed a NULL i2c->msg

cursor == <<msg, msgs, msg_num, msg_idx, msg_ptr>>
hw     == <<irqen, acken, pend, lastbit, busy, rx, ds, shift>>
caller == <<pc, args, retry, ret, xfers, timeouts>>
vars   == <<state, cursor, hw, wire, caller, oops>>

-----------------------------------------------------------------------------
(* is_lastmsg, is_msglast, is_msgend.                                      *)

Msg == msgs[msg]
IsLastMsg == msg_idx >= msg_num - 1
IsMsgLast(ptr) == ptr = Msg.len - 1
IsMsgEnd(ptr)  == ptr >= Msg.len

(* What goes over the bus: the start with the address and the direction,   *)
(* byte p of message k either way - a read one with its acknowledge - and  *)
(* the stop.                                                               *)
StartEvent(m)   == <<"start", m.addr, m.rd # m.rev>>
TxEvent(k, p)   == <<"tx", k, p>>
RxEvent(k, p, ack) == <<"rx", k, p, ack>>
StopEvent       == <<"stop">>
LostEvent       == <<"lost">>

(* writel(tmp & ~IRQPEND, IICCON): the controller goes on with what it has *)
(* been given, unless it has lost the bus.                                 *)
AckIrq(next) == pend' = FALSE /\ shift' = IF busy THEN next ELSE "none"

(* s3c24xx_i2c_message_start, and STATE_START after it: acks on, mode and  *)
(* address set, START.                                                     *)
MessageStart(m) ==
  /\ state' = "START"
  /\ acken' = TRUE
  /\ rx' = m.rd
  /\ ds' = StartEvent(m)
  /\ busy' = TRUE
  /\ shift' = "addr"

(* s3c24xx_i2c_stop and, in it, s3c24xx_i2c_master_complete: the STOP      *)
(* condition goes out, the message pointer is dropped, interrupts go off   *)
(* and the process that waits for msg_num = 0 is woken; idx is msg_idx     *)
(* where the code calls it.                                                *)
Stop(r, idx) ==
  /\ state' = "STOP"
  /\ msg' = 0 /\ msg_num' = 0 /\ msg_ptr' = 0
  /\ msg_idx' = IF r # 0 THEN r ELSE idx + 1
  /\ irqen' = FALSE
  /\ AckIrq("stop")
  /\ UNCHANGED <<msgs, acken, lastbit, busy, rx, ds>>

Init ==
  /\ state = "IDLE"
  /\ msg = 0 /\ msgs = <<>>
  /\ msg_num = 0 /\ msg_idx = 0 /\ msg_ptr = 0
  /\ irqen = TRUE /\ acken = TRUE
  /\ pend = FALSE /\ lastbit = FALSE /\ busy = FALSE /\ rx = FALSE
  /\ ds = <<>> /\ shift = "none"
  /\ wire = <<>>
  /\ pc = "idle" /\ args = <<>> /\ retry = 0 /\ ret = 0
  /\ xfers = 0 /\ timeouts = 0
  /\ oops = FALSE

-----------------------------------------------------------------------------
(* The interrupt handler: s3c24xx_i2c_irq and i2s_s3c_irq_nextbyte.  Their *)
(* branches for STATE_IDLE and STATE_STOP only acknowledge; HandlerExpected *)
(* below says that they are never taken.                                   *)

Irq == pend /\ irqen /\ ~ oops

(* STATE_START, and the address was not acknowledged.                      *)
IrqNoSlave ==
  /\ Irq /\ state = "START"
  /\ lastbit /\ ~ Msg.ignore_nak
  /\ Stop(-EREMOTEIO, msg_idx)
  /\ UNCHANGED <<wire, caller, oops>>

Started == state = "START" /\ (lastbit => Msg.ignore_nak)
Probed  == IsLastMsg /\ Msg.len = 0

(* STATE_START with nothing to do: the probe of a device.                  *)
IrqProbed ==
  /\ Irq /\ Started /\ Probed
  /\ Stop(0, msg_idx)
  /\ UNCHANGED <<wire, caller, oops>>

(* STATE_WRITE, which STATE_START falls through to.                        *)
Writing == state = "WRITE" \/ (Started /\ ~ Probed /\ ~ Msg.rd)

SendByte(k, p) ==
  /\ state' = "WRITE"
  /\ msg' = k /\ msg_idx' = k - 1 /\ msg_ptr' = p + 1
  /\ ds' = TxEvent(k, p)
  /\ AckIrq("tx")
  /\ UNCHANGED <<msgs, msg_num, irqen, acken, lastbit, busy, rx>>

IrqWriteByte ==
  /\ Irq /\ Writing /\ ~ IsMsgEnd(msg_ptr)
  /\ SendByte(msg, msg_ptr)
  /\ UNCHANGED <<wire, caller, oops>>

(* The message is written.  The loop through retry_write passes over the   *)
(* empty messages that continue it, up to the one that has work to do.     *)
Passed(k) == msgs[k].nostart /\ ~ msgs[k].rd /\ msgs[k].len = 0
NextWork ==
  {k \in msg + 1 .. msg_num : ~ Passed(k) /\ \A j \in msg + 1 .. k - 1 : Passed(j)}

IrqWriteStart ==
  /\ Irq /\ Writing /\ IsMsgEnd(msg_ptr)
  /\ \E k \in NextWork :
       /\ ~ msgs[k].nostart
       /\ MessageStart(msgs[k]) /\ pend' = FALSE
       /\ msg' = k /\ msg_idx' = k - 1 /\ msg_ptr' = 0
  /\ UNCHANGED <<msgs, msg_num, irqen, lastbit, wire, caller, oops>>

IrqWriteOn ==
  /\ Irq /\ Writing /\ IsMsgEnd(msg_ptr)
  /\ \E k \in NextWork : msgs[k].nostart /\ ~ msgs[k].rd /\ SendByte(k, 0)
  /\ UNCHANGED <<wire, caller, oops>>

(* A read without a start: stop, and back to retry_write, which looks at   *)
(* the length of the message i2c->msg no longer points to.                 *)
IrqWriteTurn ==
  /\ Irq /\ Writing /\ IsMsgEnd(msg_ptr)
  /\ \E k \in NextWork : msgs[k].nostart /\ msgs[k].rd /\ Stop(-EINVAL, k - 1)
  /\ oops' = TRUE
  /\ UNCHANGED <<wire, caller>>

IrqWriteEnd ==
  /\ Irq /\ Writing /\ IsMsgEnd(msg_ptr)
  /\ NextWork = {}
  /\ Stop(0, msg_num - 1)
  /\ UNCHANGED <<wire, caller, oops>>

(* prepare_read, with msg_ptr = p: no acknowledge for the last byte of the *)
(* last message; at the end of a message, stop or go to the next one -     *)
(* without a start.                                                        *)
PrepareRead(p) ==
  \/ /\ IsMsgLast(p) \/ ~ IsMsgEnd(p)
     /\ acken' = (acken /\ ~ (IsMsgLast(p) /\ IsLastMsg))
     /\ state' = "READ" /\ msg_ptr' = p
     /\ AckIrq("rx")
     /\ UNCHANGED <<msg, msgs, msg_num, msg_idx, irqen, lastbit, busy, rx, ds>>
  \/ /\ IsMsgEnd(p) /\ IsLastMsg
     /\ Stop(0, msg_idx)
  \/ /\ IsMsgEnd(p) /\ ~ IsLastMsg
     /\ state' = "READ"
     /\ msg' = msg + 1 /\ msg_idx' = msg_idx + 1 /\ msg_ptr' = 0
     /\ AckIrq("rx")
     /\ UNCHANGED <<msgs, msg_num, irqen, acken, lastbit, busy, rx, ds>>

IrqReadStarted ==
  /\ Irq /\ Started /\ ~ Probed /\ Msg.rd
  /\ PrepareRead(msg_ptr)
  /\ UNCHANGED <<wire, caller, oops>>

ReadRefused ==
  lastbit /\ ~ Msg.ignore_nak /\ ~ (IsMsgLast(msg_ptr) /\ IsLastMsg)

IrqReadNoAck ==
  /\ Irq /\ state = "READ" /\ ReadRefused
  /\ Stop(-ECONNREFUSED, msg_idx)
  /\ UNCHANGED <<wire, caller, oops>>

IrqReadByte ==
  /\ Irq /\ state = "READ" /\ ~ ReadRefused
  /\ wire' = Append(wire, RxEvent(msg, msg_ptr, ds[2]))
  /\ PrepareRead(msg_ptr + 1)
  /\ UNCHANGED <<caller, oops>>

Handler ==
  \/ IrqNoSlave \/ IrqProbed \/ IrqWriteByte \/ IrqWriteStart \/ IrqWriteOn
  \/ IrqWriteTurn \/ IrqWriteEnd \/ IrqReadStarted \/ IrqReadNoAck \/ IrqReadByte

-----------------------------------------------------------------------------
(* The controller and the slaves.                                          *)

(* An address or a byte is out, acknowledged or not; the next one waits    *)
(* for the handler.                                                        *)
Sent ==
  /\ shift \in {"addr", "tx"}
  /\ wire' = Append(wire, ds)
  /\ lastbit' \in BOOLEAN
  /\ pend' = TRUE /\ shift' = "none"
  /\ UNCHANGED <<state, cursor, irqen, acken, busy, rx, ds, caller, oops>>

(* Another master wins the bus while this one sends: the byte is not out,  *)
(* IICSTAT_ARBITR is set - which the handler logs - and the interrupt is   *)
(* raised all the same.  wire keeps it as an event of its own.             *)
ArbitrationLost ==
  /\ Arbitration
  /\ shift \in {"addr", "tx"}
  /\ busy' = FALSE
  /\ wire' = Append(wire, LostEvent)
  /\ lastbit' \in BOOLEAN
  /\ pend' = TRUE /\ shift' = "none"
  /\ UNCHANGED <<state, cursor, irqen, acken, rx, ds, caller, oops>>

(* A byte has come in and has been acknowledged, or not, as IICCON says.   *)
Received ==
  /\ shift = "rx"
  /\ ds' = <<"byte", acken>>
  /\ lastbit' \in BOOLEAN
  /\ pend' = TRUE /\ shift' = "none"
  /\ UNCHANGED <<state, cursor, irqen, acken, busy, rx, wire, caller, oops>>

StopSent ==
  /\ shift = "stop"
  /\ wire' = Append(wire, StopEvent)
  /\ busy' = FALSE /\ shift' = "none"
  /\ UNCHANGED <<state, cursor, irqen, acken, pend, lastbit, rx, ds, caller, oops>>

Controller == ~ oops /\ (Sent \/ Received \/ StopSent)

-----------------------------------------------------------------------------
(* The process in s3c24xx_i2c_xfer and s3c24xx_i2c_doxfer.                 *)

Xfer ==
  /\ pc = "idle" /\ xfers < MaxXfers
  /\ args' \in Transfers
  /\ retry' = 0 /\ xfers' = xfers + 1
  /\ pc' = "master"
  /\ UNCHANGED <<state, cursor, hw, wire, ret, timeouts, oops>>

(* s3c24xx_i2c_set_master finds the bus free.                              *)
SetMaster ==
  /\ pc = "master" /\ ~ busy
  /\ pc' = "setup"
  /\ UNCHANGED <<state, cursor, hw, wire, args, retry, ret, xfers, timeouts, oops>>

(* Mutant: the attempts are not counted.                                   *)
NoMaster_forever ==
  /\ pc = "master" /\ busy
  /\ UNCHANGED <<pc, ret, retry>>
  /\ UNCHANGED <<state, cursor, hw, wire, args, xfers, timeouts, oops>>

(* It does not in 400 tries: -EAGAIN, and doxfer is called again, as often *)
(* as adap.retries allows.                                                 *)
NoMaster ==
  /\ pc = "master" /\ busy
  /\ retry' = retry + 1
  /\ IF retry' < Retries
       THEN UNCHANGED <<pc, ret>>
       ELSE pc' = "done" /\ ret' = -EREMOTEIO
  /\ UNCHANGED <<state, cursor, hw, wire, args, xfers, timeouts, oops>>

(* Mutant: i2c->state is not set.                                          *)
DoXfer_stateless ==
  /\ pc = "setup"
  /\ msgs' = args /\ msg' = 1
  /\ msg_num' = Len(args) /\ msg_ptr' = 0 /\ msg_idx' = 0
  /\ irqen' = TRUE
  /\ acken' = TRUE /\ rx' = args[1].rd /\ ds' = StartEvent(args[1])
  /\ busy' = TRUE /\ shift' = "addr"
  /\ wire' = <<>>
  /\ pc' = "wait"
  /\ UNCHANGED <<state, pend, lastbit, args, retry, ret, xfers, timeouts, oops>>

(* doxfer under spin_lock_irq.                                             *)
DoXfer ==
  /\ pc = "setup"
  /\ msgs' = args /\ msg' = 1
  /\ msg_num' = Len(args) /\ msg_ptr' = 0 /\ msg_idx' = 0
  /\ irqen' = TRUE
  /\ MessageStart(args[1])
  /\ wire' = <<>>
  /\ pc' = "wait"
  /\ UNCHANGED <<pend, lastbit, args, retry, ret, xfers, timeouts, oops>>

(* wait_event_timeout: msg_num is 0, or the 5 seconds are over.            *)
Completed ==
  /\ pc = "wait" /\ msg_num = 0
  /\ pc' = "collect"
  /\ UNCHANGED <<state, cursor, hw, wire, args, retry, ret, xfers, timeouts, oops>>

TimedOut ==
  /\ pc = "wait" /\ msg_num # 0 /\ timeouts < MaxTimeouts
  /\ timeouts' = timeouts + 1
  /\ pc' = "collect"
  /\ UNCHANGED <<state, cursor, hw, wire, args, retry, ret, xfers, oops>>

Collect ==
  /\ pc = "collect"
  /\ ret' = msg_idx
  /\ pc' = "settle"
  /\ UNCHANGED <<state, cursor, hw, wire, args, retry, xfers, timeouts, oops>>

(* msleep(1), which is longer than a stop condition takes.                 *)
Settle ==
  /\ pc = "settle" /\ shift # "stop"
  /\ pc' = "done"
  /\ UNCHANGED <<state, cursor, hw, wire, args, retry, ret, xfers, timeouts, oops>>

(* The call returns; the messages are the caller's again.                  *)
Return ==
  /\ pc = "done"
  /\ pc' = "idle" /\ args' = <<>>
  /\ UNCHANGED <<state, cursor, hw, wire, retry, ret, xfers, timeouts, oops>>

(* The process runs with interrupts on, but for doxfer's locked part: one  *)
(* that is pending is served before the process goes on.                   *)
Process ==
  /\ ~ oops /\ ~ Irq
  /\ \/ SetMaster \/ NoMaster \/ DoXfer \/ Completed \/ TimedOut \/ Collect
     \/ Settle \/ Return

Next == Handler \/ Controller \/ (~ oops /\ (ArbitrationLost \/ Xfer)) \/ Process

Spec == Init /\ [][Next]_vars

(* Interrupts are served and the process runs.  Nothing obliges it to      *)
(* call, and slaves may hold the bus for ever, in the middle of anything   *)
(* but a stop.                                                             *)
PatientSpec ==
  Spec /\ WF_vars(Handler) /\ WF_vars(StopSent) /\ WF_vars(Process)

-----------------------------------------------------------------------------
(* Properties.                                                             *)

Active == state \in {"START", "READ", "WRITE"}

(* The cursor of the handler stays inside the array of messages: a message *)
(* that exists while a transfer is active, and none otherwise.             *)
TypeOK ==
  /\ state \in {"IDLE", "START", "READ", "WRITE", "STOP"}
  /\ IF Active
       THEN /\ msg_num = Len(msgs) /\ msg \in 1 .. msg_num /\ msg_idx = msg - 1
            /\ msg_ptr \in 0 .. Msg.len
       ELSE msg = 0 /\ msg_num = 0 /\ msg_ptr = 0
  /\ {irqen, acken, pend, lastbit, busy, rx, oops} \subseteq BOOLEAN
  /\ shift \in {"none", "addr", "tx", "rx", "stop"}
  /\ pc \in {"idle", "master", "setup", "wait", "collect", "settle", "done"}
  /\ retry \in 0 .. Retries
  /\ xfers \in 0 .. MaxXfers /\ timeouts \in 0 .. MaxTimeouts

Undisturbed == \A i \in DOMAIN wire : wire[i] # LostEvent

(* Process and handler agree on who is at work: an interrupt is delivered  *)
(* only while a transfer is active, so that the handler's branches for     *)
(* STATE_IDLE and STATE_STOP are never taken; and the process never waits  *)
(* for nobody, as long as msg_num is not 0 the controller is at work or an *)
(* interrupt pending, unless another master has won the bus: only then,    *)
(* and with a slave that holds the bus, does a call need its timeout.      *)
HandlerExpected ==
  /\ Irq => Active
  /\ pc = "wait" /\ msg_num # 0 /\ Undisturbed /\ ~ oops => shift # "none" \/ Irq

(* The events a message asks for - a start unless it continues another -,  *)
(* and a whole transfer.                                                   *)
Bytes(m, k, last) ==
  [i \in 1 .. m.len |->
     IF m.rd THEN RxEvent(k, i - 1, ~ (last /\ i = m.len)) ELSE TxEvent(k, i - 1)]
Part(array, k) ==
  (IF array[k].nostart /\ k > 1 THEN <<>> ELSE <<StartEvent(array[k])>>)
    \o Bytes(array[k], k, k = Len(array))

Expected(array) ==
  Append(FlattenSeq([k \in DOMAIN array |-> Part(array, k)]), StopEvent)

(* A transfer that returns the number of its messages has put on the bus   *)
(* exactly those: each message after a start with its own address and      *)
(* direction (unless it continues the one before), each byte once and in   *)
(* order, every byte read acknowledged but the very last, then the stop.   *)
SuccessFaithful ==
  pc = "done" /\ ret = Len(args) => wire = Expected(args)

(* What the handler can serve: a read is the last message and starts anew. *)
Served(array) ==
  \A k \in DOMAIN array : array[k].rd => k = Len(array) /\ ~ array[k].nostart

(* The same for messages the handler can serve, on a bus that was not      *)
(* lost, where slaves may hold it past the timeout: a call reports success *)
(* only of its own, whole transfer - never of one that an earlier call has *)
(* left on the controller.                                                 *)
ServedFaithful ==
  pc = "done" /\ ret = Len(args) /\ Served(args) /\ Undisturbed
    => wire = Expected(args)

(* "Ensure the stop has been through the bus": a call that returns gives   *)
(* back the bus and the handler - which works on the caller's messages,    *)
(* and inside them, only while the call is on. After a timeout both go on  *)
(* with a call that has returned, its messages perhaps freed.              *)
MessagesOwned ==
  /\ Active => msg \in DOMAIN msgs /\ msg_num = Len(msgs) /\ msg_ptr \in 0 .. Msg.len
  /\ timeouts = 0 =>
       /\ Irq /\ Active => pc \in {"wait", "collect", "settle"}
       /\ pc = "done" /\ retry < Retries => ~ busy /\ ~ Active

(* The handler and the process take turns as they should.                  *)
HandlerInStep == HandlerExpected /\ MessagesOwned

(* No call of master_xfer is on.  It always comes to that again, be the    *)
(* bus taken, the slave silent or the messages beyond what the handler can *)
(* serve - unless it has followed the NULL pointer first (CallsReturn).    *)
XferOver == pc = "idle" \/ oops
=============================================================================
