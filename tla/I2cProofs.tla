------------------------------ MODULE I2cProofs ------------------------------
(***************************************************************************)
(* Theorems about the I2C stack.                                           *)
(* S3cI2c, for any transfers, any number of calls and timeouts, with       *)
(* another master on the bus or without: interrupts come only while a      *)
(* transfer is active, the handler stays inside the messages, and without  *)
(* timeouts a call that returns has given both back; and what a call       *)
(* reports as done has been on the bus, whole and in order.                *)
(* S3cI2cClock, for any clocks and wishes; I2cCore, for any adapters,      *)
(* drivers and devices.                                                    *)
(***************************************************************************)
EXTENDS S3cI2c, S3cI2cClock, I2cCore, SequenceTheorems, WellFoundedInduction, NaturalsInduction, TLAPS

(* The cursor is in the messages of the transfer.                          *)
CursorIn ==
  /\ msgs \in Seq(Message)
  /\ Active => /\ msg \in 1 .. Len(msgs) /\ msg_num = Len(msgs)
               /\ msg_idx = msg - 1 /\ msg_ptr \in 0 .. Msg.len
  /\ ~ Active => msg_num = 0

LinesType ==
  /\ state \in {"IDLE", "START", "READ", "WRITE", "STOP"}
  /\ shift \in {"none", "addr", "tx", "rx", "stop"}
  /\ irqen \in BOOLEAN /\ pend \in BOOLEAN /\ busy \in BOOLEAN /\ oops \in BOOLEAN

(* What the controller is at, by the state of the transfer: only an active *)
(* one has interrupts on and something to wait for, unless the bus is lost.*)
Lines ==
  /\ state = "IDLE" => ~ pend /\ shift = "none" /\ ~ busy
  /\ state = "STOP" => /\ ~ pend /\ ~ irqen
                       /\ shift = IF busy THEN "stop" ELSE "none"
  /\ Active => irqen /\ shift # "stop" /\ (pend => shift = "none")
  /\ Active /\ Undisturbed => busy /\ (shift = "none" => pend)

WireSeq == \E S : wire \in Seq(S)

(* Without timeouts the process is where the transfer is.                  *)
Calls ==
  /\ timeouts \in Nat
  /\ pc \in {"master", "setup"} => args \in Transfers
  /\ timeouts = 0 /\ pc # "wait" => ~ Active
  /\ timeouts = 0 /\ pc = "done" /\ retry < Retries => ~ busy

BusInv == CursorIn /\ LinesType /\ Lines /\ WireSeq /\ Calls

-----------------------------------------------------------------------------
(* The record of the bus only grows: a loss is not forgotten.              *)
LEMMA WireGrows ==
  ASSUME WireSeq, NEW e, wire' = Append(wire, e)
  PROVE  WireSeq' /\ (Undisturbed' => Undisturbed /\ e # LostEvent)
<1>1. PICK S : wire \in Seq(S)
  BY DEF WireSeq
<1>. DEFINE T == S \cup {e}
<1>2. wire \in Seq(T) /\ e \in T
  BY <1>1, SeqMonotonic
<1>. HIDE DEF T
<1>3. /\ wire' \in Seq(T) /\ Len(wire') = Len(wire) + 1 /\ wire'[Len(wire) + 1] = e
      /\ \A i \in 1 .. Len(wire) : wire'[i] = wire[i]
      /\ Len(wire) \in Nat
  BY <1>2, AppendProperties
<1>4. DOMAIN wire' = 1 .. Len(wire) + 1 /\ DOMAIN wire = 1 .. Len(wire)
  BY <1>2, <1>3, LenProperties
<1>5. ASSUME Undisturbed' PROVE Undisturbed /\ e # LostEvent
  <2>1. Len(wire) + 1 \in DOMAIN wire' /\ \A i \in DOMAIN wire : i \in DOMAIN wire' /\ wire'[i] = wire[i]
    BY <1>3, <1>4
  <2>. QED BY <1>3, <1>5, <2>1 DEF Undisturbed
<1>. QED BY <1>3, <1>5 DEF WireSeq

LEMMA InitBus == Init => BusInv
<1>. SUFFICES ASSUME Init PROVE BusInv
  OBVIOUS
<1>1. CursorIn
  BY DEF Init, CursorIn, Active
<1>2. LinesType /\ Lines
  BY DEF Init, LinesType, Lines, Active
<1>3. WireSeq
  BY EmptySeq DEF Init, WireSeq
<1>4. Calls
  BY DEF Init, Calls, Active
<1>. QED BY <1>1, <1>2, <1>3, <1>4 DEF BusInv

(* An interrupt is that of an active transfer: without timeouts, of one    *)
(* its process waits for.                                                  *)
LEMMA IrqActive ==
  ASSUME BusInv, Irq
  PROVE  /\ Active /\ shift = "none" /\ pend /\ irqen /\ ~ oops
         /\ timeouts = 0 => pc = "wait"
<1>1. Active
  BY DEF BusInv, LinesType, Lines, Irq, Active
<1>. QED BY <1>1 DEF BusInv, Lines, Calls, Irq

(* The end of a transfer, from wherever the handler comes to it.           *)
LEMMA StopKeeps ==
  ASSUME BusInv, Irq, NEW r, NEW idx, Stop(r, idx), UNCHANGED caller,
         WireSeq', oops' \in BOOLEAN
  PROVE  BusInv'
<1>1. Active /\ irqen /\ (timeouts = 0 => pc = "wait")
  BY IrqActive
<1>2. /\ state' = "STOP" /\ msg_num' = 0 /\ msgs' = msgs /\ irqen' = FALSE /\ pend' = FALSE
      /\ busy' = busy /\ shift' = IF busy THEN "stop" ELSE "none"
      /\ UNCHANGED <<pc, args, retry, timeouts>>
  BY DEF Stop, AckIrq, caller
<1>3. ~ Active'
  BY <1>2 DEF Active
<1>4. CursorIn'
  BY <1>2, <1>3 DEF BusInv, CursorIn
<1>5. LinesType'
  BY <1>2 DEF BusInv, LinesType
<1>6. Lines'
  BY <1>2, <1>3 DEF Lines
<1>7. Calls'
  BY <1>1, <1>2, <1>3 DEF BusInv, Calls
<1>. QED BY <1>4, <1>5, <1>6, <1>7 DEF BusInv

(* The transfer goes on: the controller has got something to do, if it has *)
(* the bus.                                                                *)
LEMMA GoesOn ==
  ASSUME BusInv, Irq, NEW next \in {"tx", "rx"}, AckIrq(next), CursorIn',
         state' \in {"READ", "WRITE"}, UNCHANGED <<irqen, busy, oops, caller>>,
         WireSeq', Undisturbed' => Undisturbed
  PROVE  BusInv'
<1>1. Active /\ irqen /\ (timeouts = 0 => pc = "wait")
  BY IrqActive
<1>2. pend' = FALSE /\ shift' = IF busy THEN next ELSE "none"
  BY DEF AckIrq
<1>3. Active' /\ Active
  BY <1>1 DEF Active
<1>4. LinesType'
  BY <1>2 DEF BusInv, LinesType
<1>5. Lines'
  <2>1. Undisturbed' => busy
    BY <1>3 DEF BusInv, Lines
  <2>2. state' # "IDLE" /\ state' # "STOP" /\ shift' # "stop"
    BY <1>2
  <2>3. Undisturbed' => shift' = next
    BY <1>2, <2>1
  <2>4. busy' = busy /\ irqen' = irqen
    OBVIOUS
  <2>. QED BY <1>1, <1>2, <1>3, <2>1, <2>2, <2>3, <2>4 DEF Lines
<1>6. Calls'
  BY <1>1, <1>3 DEF BusInv, Calls, caller
<1>. QED BY <1>4, <1>5, <1>6 DEF BusInv

-----------------------------------------------------------------------------
(* The handler, action by action.                                          *)

LEMMA CursorFacts ==
  ASSUME BusInv, Active
  PROVE  /\ msgs \in Seq(Message) /\ Len(msgs) \in Nat
         /\ \A k \in 1 .. Len(msgs) : msgs[k] \in Message /\ msgs[k].len \in Nat
         /\ msg \in 1 .. Len(msgs) /\ msg_num = Len(msgs) /\ msg_idx = msg - 1
         /\ msg_ptr \in 0 .. Msg.len /\ Msg.len \in Nat
<1>1. msgs \in Seq(Message) /\ Len(msgs) \in Nat
  BY LenProperties DEF BusInv, CursorIn
<1>2. \A k \in 1 .. Len(msgs) : msgs[k] \in Message
  BY <1>1, ElementOfSeq
<1>3. \A m \in Message : m.len \in Nat
  BY DEF Message
<1>. QED BY <1>1, <1>2, <1>3 DEF BusInv, CursorIn, Msg

(* Either way of writing byte p of message k leaves the cursor behind it.  *)
LEMMA SendKeeps ==
  ASSUME BusInv, Irq, NEW k \in 1 .. Len(msgs), NEW p \in Nat, p < msgs[k].len,
         SendByte(k, p), UNCHANGED <<wire, caller, oops>>
  PROVE  BusInv'
<1>1. Active
  BY IrqActive
<1>2. /\ state' = "WRITE" /\ msg' = k /\ msg_idx' = k - 1 /\ msg_ptr' = p + 1
      /\ AckIrq("tx") /\ msgs' = msgs /\ msg_num' = msg_num
      /\ UNCHANGED <<irqen, busy>>
  BY DEF SendByte
<1>3. CursorIn'
  <2>1. p + 1 \in 0 .. msgs[k].len
    BY <1>1, CursorFacts
  <2>2. Msg' = msgs[k]
    BY <1>2 DEF Msg
  <2>. QED BY <1>1, <1>2, <2>1, <2>2, CursorFacts DEF CursorIn, Active
<1>4. WireSeq' /\ (Undisturbed' => Undisturbed)
  BY DEF BusInv, WireSeq, Undisturbed
<1>. QED BY <1>2, <1>3, <1>4, GoesOn

LEMMA StartKeeps ==
  ASSUME BusInv, Irq, NEW k \in 1 .. Len(msgs), MessageStart(msgs[k]), pend' = FALSE,
         msg' = k, msg_idx' = k - 1, msg_ptr' = 0,
         UNCHANGED <<msgs, msg_num, irqen, lastbit, wire, caller, oops>>
  PROVE  BusInv'
<1>1. Active /\ irqen /\ (timeouts = 0 => pc = "wait")
  BY IrqActive
<1>2. state' = "START" /\ busy' = TRUE /\ shift' = "addr"
  BY DEF MessageStart
<1>3. CursorIn'
  BY <1>1, <1>2, CursorFacts DEF CursorIn, Active, Msg
<1>4. LinesType'
  BY <1>2 DEF BusInv, LinesType
<1>5. Lines'
  BY <1>1, <1>2 DEF Lines, Active
<1>6. WireSeq'
  BY DEF BusInv, WireSeq
<1>7. Calls'
  BY <1>1, <1>2 DEF BusInv, Calls, caller
<1>. QED BY <1>3, <1>4, <1>5, <1>6, <1>7 DEF BusInv

LEMMA ReadKeeps ==
  ASSUME BusInv, Irq, NEW p \in Nat, p \in 0 .. Msg.len + 1, PrepareRead(p),
         UNCHANGED <<caller, oops>>, WireSeq', Undisturbed' => Undisturbed
  PROVE  BusInv'
<1>1. Active
  BY IrqActive
<1>2. CASE /\ IsMsgLast(p) \/ ~ IsMsgEnd(p)
           /\ state' = "READ" /\ msg_ptr' = p
           /\ AckIrq("rx")
           /\ UNCHANGED <<msg, msgs, msg_num, msg_idx, irqen, lastbit, busy, rx, ds>>
  <2>1. p \in 0 .. Msg.len
    BY <1>1, <1>2, CursorFacts DEF IsMsgLast, IsMsgEnd
  <2>2. Msg' = Msg
    BY <1>2 DEF Msg
  <2>3. CursorIn'
    BY <1>1, <1>2, <2>1, <2>2, CursorFacts DEF CursorIn, Active
  <2>. QED BY <1>2, <2>3, GoesOn
<1>3. CASE Stop(0, msg_idx)
  <2>1. oops' \in BOOLEAN
    BY DEF BusInv, LinesType
  <2>. QED BY <1>3, <2>1, StopKeeps
<1>4. CASE /\ IsMsgEnd(p) /\ ~ IsLastMsg
           /\ state' = "READ"
           /\ msg' = msg + 1 /\ msg_idx' = msg_idx + 1 /\ msg_ptr' = 0
           /\ AckIrq("rx")
           /\ UNCHANGED <<msgs, msg_num, irqen, acken, lastbit, busy, rx, ds>>
  <2>1. msg + 1 \in 1 .. Len(msgs)
    BY <1>1, <1>4, CursorFacts DEF IsLastMsg
  <2>2. CursorIn'
    BY <1>1, <1>4, <2>1, CursorFacts DEF CursorIn, Active, Msg
  <2>. QED BY <1>4, <2>2, GoesOn
<1>. QED BY <1>2, <1>3, <1>4 DEF PrepareRead

LEMMA HandlerKeeps == BusInv /\ Handler => BusInv'
<1>. SUFFICES ASSUME BusInv, Handler PROVE BusInv'
  OBVIOUS
<1>1. Irq
  BY DEF Handler, IrqNoSlave, IrqProbed, IrqWriteByte, IrqWriteStart, IrqWriteOn,
         IrqWriteTurn, IrqWriteEnd, IrqReadStarted, IrqReadNoAck, IrqReadByte
<1>2. Active
  BY <1>1, IrqActive
<1>3. oops \in BOOLEAN /\ WireSeq
  BY DEF BusInv, LinesType
<1>4. ASSUME wire' = wire PROVE WireSeq' /\ (Undisturbed' => Undisturbed)
  BY <1>3, <1>4 DEF WireSeq, Undisturbed
<1>5. ASSUME NEW k \in NextWork PROVE k \in 1 .. Len(msgs)
  BY <1>2, <1>5, CursorFacts DEF NextWork
<1>6. CASE IrqNoSlave
  BY <1>1, <1>3, <1>4, <1>6, StopKeeps DEF IrqNoSlave
<1>7. CASE IrqProbed
  BY <1>1, <1>3, <1>4, <1>7, StopKeeps DEF IrqProbed
<1>8. CASE IrqWriteByte
  <2>1. msg_ptr \in Nat /\ msg_ptr < msgs[msg].len /\ msg \in 1 .. Len(msgs)
    BY <1>2, <1>8, CursorFacts DEF IrqWriteByte, IsMsgEnd, Msg
  <2>. QED BY <1>1, <1>8, <2>1, SendKeeps DEF IrqWriteByte
<1>9. CASE IrqWriteStart
  <2>1. PICK k \in NextWork :
          /\ MessageStart(msgs[k]) /\ pend' = FALSE
          /\ msg' = k /\ msg_idx' = k - 1 /\ msg_ptr' = 0
    BY <1>9 DEF IrqWriteStart
  <2>2. UNCHANGED <<msgs, msg_num, irqen, lastbit, wire, caller, oops>>
    BY <1>9 DEF IrqWriteStart
  <2>. QED BY <1>1, <1>5, <2>1, <2>2, StartKeeps
<1>10. CASE IrqWriteOn
  <2>1. PICK k \in NextWork : msgs[k].nostart /\ ~ msgs[k].rd /\ SendByte(k, 0)
    BY <1>10 DEF IrqWriteOn
  <2>2. ~ Passed(k) /\ k \in 1 .. Len(msgs)
    BY <1>5 DEF NextWork
  <2>3. 0 < msgs[k].len
    BY <1>2, <2>1, <2>2, CursorFacts DEF Passed
  <2>. QED BY <1>1, <1>10, <2>1, <2>2, <2>3, SendKeeps DEF IrqWriteOn
<1>11. CASE IrqWriteTurn
  <2>1. PICK k \in NextWork : Stop(-EINVAL, k - 1)
    BY <1>11 DEF IrqWriteTurn
  <2>2. UNCHANGED <<wire, caller>> /\ oops' \in BOOLEAN
    BY <1>11 DEF IrqWriteTurn
  <2>. QED BY <1>1, <1>4, <2>1, <2>2, StopKeeps
<1>12. CASE IrqWriteEnd
  BY <1>1, <1>3, <1>4, <1>12, StopKeeps DEF IrqWriteEnd
<1>13. CASE IrqReadStarted
  <2>1. msg_ptr \in Nat /\ msg_ptr \in 0 .. Msg.len + 1
    BY <1>2, CursorFacts
  <2>2. PrepareRead(msg_ptr) /\ UNCHANGED <<wire, caller, oops>>
    BY <1>13 DEF IrqReadStarted
  <2>. QED BY <1>1, <1>4, <2>1, <2>2, ReadKeeps
<1>14. CASE IrqReadNoAck
  BY <1>1, <1>3, <1>4, <1>14, StopKeeps DEF IrqReadNoAck
<1>15. CASE IrqReadByte
  <2>1. msg_ptr + 1 \in Nat /\ msg_ptr + 1 \in 0 .. Msg.len + 1
    BY <1>2, CursorFacts
  <2>2. /\ wire' = Append(wire, RxEvent(msg, msg_ptr, ds[2]))
        /\ PrepareRead(msg_ptr + 1) /\ UNCHANGED <<caller, oops>>
    BY <1>15 DEF IrqReadByte
  <2>3. WireSeq' /\ (Undisturbed' => Undisturbed)
    BY <1>3, <2>2, WireGrows
  <2>. QED BY <1>1, <2>1, <2>2, <2>3, ReadKeeps
<1>. QED BY <1>6, <1>7, <1>8, <1>9, <1>10, <1>11, <1>12, <1>13, <1>14, <1>15 DEF Handler

-----------------------------------------------------------------------------
(* The controller, and another master.                                     *)

LEMMA ControllerKeeps == BusInv /\ (Controller \/ ArbitrationLost) => BusInv'
<1>. SUFFICES ASSUME BusInv, Controller \/ ArbitrationLost PROVE BusInv'
  OBVIOUS
<1>1. UNCHANGED <<state, cursor, irqen, oops, caller>>
  BY DEF Controller, ArbitrationLost, Sent, Received, StopSent
<1>2. CursorIn' /\ (Active <=> Active')
  BY <1>1 DEF BusInv, CursorIn, cursor, Active, Msg
<1>3. WireSeq /\ (wire' = wire => WireSeq' /\ (Undisturbed' => Undisturbed))
  BY DEF BusInv, WireSeq, Undisturbed
<1>4. CASE Sent \/ Received
  <2>1. pend' = TRUE /\ shift' = "none" /\ busy' = busy /\ shift \in {"addr", "tx", "rx"}
    BY <1>4 DEF Sent, Received
  <2>2. WireSeq' /\ (Undisturbed' => Undisturbed)
    BY <1>3, <1>4, WireGrows DEF Sent, Received
  <2>3. Active
    BY <2>1 DEF BusInv, LinesType, Lines, Active
  <2>4. LinesType' /\ Lines'
    BY <1>1, <1>2, <2>1, <2>2, <2>3 DEF BusInv, LinesType, Lines, Active
  <2>5. Calls'
    BY <1>1, <1>2, <2>1 DEF BusInv, Calls, caller
  <2>. QED BY <1>2, <2>2, <2>4, <2>5 DEF BusInv
<1>5. CASE ArbitrationLost
  <2>1. /\ pend' = TRUE /\ shift' = "none" /\ busy' = FALSE /\ shift \in {"addr", "tx", "rx"}
        /\ wire' = Append(wire, LostEvent)
    BY <1>5 DEF ArbitrationLost
  <2>2. WireSeq' /\ ~ Undisturbed'
    BY <1>3, <2>1, WireGrows
  <2>3. Active
    BY <2>1 DEF BusInv, LinesType, Lines, Active
  <2>4. LinesType' /\ Lines'
    BY <1>1, <1>2, <2>1, <2>2, <2>3 DEF BusInv, LinesType, Lines, Active
  <2>5. Calls'
    BY <1>1, <1>2, <2>1 DEF BusInv, Calls, caller
  <2>. QED BY <1>2, <2>2, <2>4, <2>5 DEF BusInv
<1>6. CASE StopSent
  <2>1. shift = "stop" /\ shift' = "none" /\ busy' = FALSE /\ pend' = pend
    BY <1>6 DEF StopSent
  <2>2. WireSeq'
    BY <1>3, <1>6, WireGrows DEF StopSent
  <2>3. state = "STOP"
    BY <2>1 DEF BusInv, LinesType, Lines, Active
  <2>4. LinesType' /\ Lines'
    BY <1>1, <1>2, <2>1, <2>3 DEF BusInv, LinesType, Lines, Active
  <2>5. Calls'
    BY <1>1, <1>2, <2>1 DEF BusInv, Calls, caller
  <2>. QED BY <1>2, <2>2, <2>4, <2>5 DEF BusInv
<1>. QED BY <1>4, <1>5, <1>6 DEF Controller

-----------------------------------------------------------------------------
(* The process.                                                            *)

(* A step of the process that leaves the transfer alone.                   *)
LEMMA CallKeeps ==
  ASSUME BusInv, UNCHANGED <<state, cursor, hw, wire, oops>>, Calls'
  PROVE  BusInv'
<1>1. CursorIn'
  BY DEF BusInv, CursorIn, cursor, Active, Msg
<1>2. LinesType' /\ Lines' /\ WireSeq'
  BY DEF BusInv, LinesType, Lines, WireSeq, hw, Active, Undisturbed
<1>. QED BY <1>1, <1>2 DEF BusInv

LEMMA DoXferKeeps == BusInv /\ ~ Irq /\ ~ oops /\ DoXfer => BusInv'
<1>. SUFFICES ASSUME BusInv, ~ Irq, ~ oops, DoXfer PROVE BusInv'
  OBVIOUS
<1>1. args \in Transfers /\ args \in Seq(Message) /\ args # <<>>
  BY I2cAssumption DEF BusInv, Calls, DoXfer
<1>2. Len(args) \in Nat /\ Len(args) # 0 /\ args[1] \in Message
  BY <1>1, EmptySeq, LenProperties, ElementOfSeq
<1>3. args[1].len \in Nat
  BY <1>2 DEF Message
<1>4. /\ msgs' = args /\ msg' = 1 /\ msg_num' = Len(args) /\ msg_ptr' = 0 /\ msg_idx' = 0
      /\ state' = "START" /\ irqen' = TRUE /\ busy' = TRUE /\ shift' = "addr"
      /\ wire' = <<>> /\ pc' = "wait"
      /\ UNCHANGED <<pend, args, retry, timeouts, oops>>
  BY DEF DoXfer, MessageStart
<1>5. CursorIn'
  BY <1>1, <1>2, <1>3, <1>4 DEF CursorIn, Active, Msg
<1>6. ~ pend
  BY DEF BusInv, Lines, LinesType, Irq, Active
<1>7. LinesType' /\ Lines'
  BY <1>4, <1>6 DEF BusInv, LinesType, Lines, Active
<1>8. WireSeq'
  BY <1>4, EmptySeq DEF WireSeq
<1>9. Calls'
  BY <1>4 DEF BusInv, Calls
<1>. QED BY <1>5, <1>7, <1>8, <1>9 DEF BusInv

LEMMA ProcessKeeps == BusInv /\ (Process \/ (~ oops /\ Xfer)) => BusInv'
<1>. SUFFICES ASSUME BusInv, Process \/ (~ oops /\ Xfer) PROVE BusInv'
  OBVIOUS
<1>. USE DEF caller
<1>1. CASE Xfer
  <2>1. Calls'
    BY <1>1 DEF Xfer, BusInv, Calls, Active
  <2>. QED BY <1>1, <2>1, CallKeeps DEF Xfer
<1>2. CASE SetMaster
  <2>1. Calls'
    BY <1>2 DEF SetMaster, BusInv, Calls, Active
  <2>. QED BY <1>2, <2>1, CallKeeps DEF SetMaster
<1>3. CASE NoMaster
  <2>1. Calls'
    BY <1>3 DEF NoMaster, BusInv, Calls, Active
  <2>. QED BY <1>3, <2>1, CallKeeps DEF NoMaster
<1>4. CASE Process /\ DoXfer
  BY <1>4, DoXferKeeps DEF Process
<1>5. CASE Completed
  <2>1. ~ Active
    <3>1. ASSUME Active PROVE FALSE
      BY <1>5, <3>1, CursorFacts DEF Completed
    <3>. QED BY <3>1
  <2>2. Calls'
    BY <1>5, <2>1 DEF Completed, BusInv, Calls, Active
  <2>. QED BY <1>5, <2>2, CallKeeps DEF Completed
<1>6. CASE TimedOut
  <2>1. Calls'
    BY <1>6 DEF TimedOut, BusInv, Calls, Active
  <2>. QED BY <1>6, <2>1, CallKeeps DEF TimedOut
<1>7. CASE Collect
  <2>1. Calls'
    BY <1>7 DEF Collect, BusInv, Calls, Active
  <2>. QED BY <1>7, <2>1, CallKeeps DEF Collect
<1>8. CASE Settle
  <2>1. timeouts = 0 => ~ busy
    BY <1>8 DEF Settle, BusInv, Calls, Lines, LinesType, Active
  <2>2. Calls'
    BY <1>8, <2>1 DEF Settle, BusInv, Calls, Active, hw
  <2>. QED BY <1>8, <2>2, CallKeeps DEF Settle
<1>9. CASE Return
  <2>1. Calls'
    BY <1>9 DEF Return, BusInv, Calls, Active
  <2>. QED BY <1>9, <2>1, CallKeeps DEF Return
<1>. QED BY <1>1, <1>2, <1>3, <1>4, <1>5, <1>6, <1>7, <1>8, <1>9 DEF Process

LEMMA NextBus == BusInv /\ [Next]_vars => BusInv'
<1>. SUFFICES ASSUME BusInv, [Next]_vars PROVE BusInv'
  OBVIOUS
<1>1. CASE UNCHANGED vars
  <2>1. UNCHANGED <<state, cursor, hw, wire, oops>> /\ UNCHANGED caller
    BY <1>1 DEF vars
  <2>2. Calls'
    BY <2>1 DEF BusInv, Calls, caller, hw, Active
  <2>. QED BY <2>1, <2>2, CallKeeps
<1>. QED BY <1>1, HandlerKeeps, ControllerKeeps, ProcessKeeps DEF Next

LEMMA BusAlways == Spec => []BusInv
<1>. QED BY InitBus, NextBus, PTL DEF Spec

-----------------------------------------------------------------------------
(* An interrupt is delivered only while a transfer is active, so that the  *)
(* handler's branches for STATE_IDLE and STATE_STOP are never taken; and   *)
(* the process of doxfer's wait_event_timeout never waits for nobody,      *)
(* unless another master has won the bus.                                  *)
LEMMA NobodyWaitedFor == Spec => []HandlerExpected
<1>1. BusInv => HandlerExpected
  <2>. SUFFICES ASSUME BusInv PROVE HandlerExpected
    OBVIOUS
  <2>1. Irq => Active
    BY IrqActive
  <2>2. ASSUME msg_num # 0, Undisturbed, ~ oops PROVE shift # "none" \/ Irq
    <3>1. Active
      BY <2>2 DEF BusInv, CursorIn
    <3>. QED BY <2>2, <3>1 DEF BusInv, Lines, Irq
  <2>. QED BY <2>1, <2>2 DEF HandlerExpected
<1>. QED BY <1>1, BusAlways, PTL

(* The handler stays inside the array of messages; and as long as no call  *)
(* has timed out it works on the messages of one that is on, and a call    *)
(* that returns has given back both them and the bus.                      *)
LEMMA MessagesGivenBack == Spec => []MessagesOwned
<1>1. BusInv => MessagesOwned
  <2>. SUFFICES ASSUME BusInv PROVE MessagesOwned
    OBVIOUS
  <2>1. Active => msg \in DOMAIN msgs /\ msg_num = Len(msgs) /\ msg_ptr \in 0 .. Msg.len
    BY LenProperties DEF BusInv, CursorIn
  <2>2. timeouts = 0 /\ Irq => pc = "wait"
    BY IrqActive
  <2>3. timeouts = 0 /\ pc = "done" /\ retry < Retries => ~ busy /\ ~ Active
    BY DEF BusInv, Calls
  <2>. QED BY <2>1, <2>2, <2>3 DEF MessagesOwned
<1>. QED BY <1>1, BusAlways, PTL

(* Both: process and handler take turns as they should.                    *)
THEOREM HandlerInTurn == Spec => []HandlerInStep
BY NobodyWaitedFor, MessagesGivenBack, PTL DEF HandlerInStep

-----------------------------------------------------------------------------
(***************************************************************************)
(* Sequences that grow by the parts of another.                            *)
(***************************************************************************)
(* Induction up to n, as a fact about sets.                                *)
LEMMA UpTo ==
  ASSUME NEW n \in Nat, NEW S, 0 \in S, \A k \in 0 .. n - 1 : k \in S => k + 1 \in S
  PROVE  0 .. n \subseteq S
<1>. DEFINE T == (0 .. n) \ S
            R == OpToRel(<, Nat)
<1>. SUFFICES ASSUME T # {} PROVE FALSE
  OBVIOUS
<1>1. T \in SUBSET Nat
  OBVIOUS
<1>2. PICK x \in T : \A y \in T : ~ (<<y, x>> \in R)
  BY <1>1, NatLessThanWellFounded, WFMin, Zenon
<1>3. x \in Nat \ {0} /\ x <= n /\ x \notin S
  OBVIOUS
<1>4. x - 1 \notin T
  <2>1. x - 1 \in Nat /\ x \in Nat /\ x - 1 < x
    BY <1>3
  <2>2. <<x - 1, x>> \in R
    BY <2>1 DEF OpToRel
  <2>. QED BY <1>2, <2>2
<1>5. x - 1 \in 0 .. n - 1
  BY <1>3
<1>6. x - 1 \in S
  BY <1>4, <1>5
<1>7. x - 1 + 1 = x
  BY <1>3
<1>. QED BY <1>3, <1>5, <1>6, <1>7

(* The parts of a sequence, one after the other: the first k of them.      *)
Flat(parts, k) == FlattenSeq(SubSeq(parts, 1, k))

Chained(f, parts, n) ==
  \A i \in 1 .. n : f[i] = IF i = 1 THEN parts[i] ELSE f[i - 1] \o parts[i]

(* There is a sequence of the partial results: what FlattenSeq chooses.    *)
LEMMA FlattenExists ==
  ASSUME NEW E, NEW parts \in Seq(Seq(E)), Len(parts) # 0
  PROVE  \E f \in [1 .. Len(parts) -> Seq(E)] : Chained(f, parts, Len(parts))
<1>. DEFINE n == Len(parts)
            Good(f, k) == \A i \in 1 .. k : f[i] = IF i = 1 THEN parts[i] ELSE f[i - 1] \o parts[i]
            S == {k \in 0 .. n : k = 0 \/ \E f \in [1 .. k -> Seq(E)] : Good(f, k)}
<1>1. n \in Nat /\ \A i \in 1 .. n : parts[i] \in Seq(E)
  BY LenProperties, ElementOfSeq
<1>2. 0 \in S
  BY <1>1
<1>3. ASSUME NEW k \in 0 .. n - 1, k \in S PROVE k + 1 \in S
  <2>1. CASE k = 0
    <3>. DEFINE f == [i \in 1 .. 1 |-> parts[1]]
    <3>0. n \in Nat \ {0} /\ 1 \in 1 .. n
      BY <1>1
    <3>1. f \in [1 .. 1 -> Seq(E)] /\ Good(f, 1)
      BY <1>1, <3>0
    <3>2. \E h \in [1 .. 1 -> Seq(E)] : Good(h, 1)
      BY <3>1, Zenon
    <3>3. 1 \in S
      <4>. HIDE DEF f, Good
      <4>. QED BY <3>0, <3>2
    <3>. QED BY <2>1, <3>3
  <2>2. CASE k # 0
    <3>1. PICK f \in [1 .. k -> Seq(E)] : Good(f, k)
      BY <2>2, <1>3
    <3>. DEFINE g == [i \in 1 .. k + 1 |-> IF i = k + 1 THEN f[k] \o parts[k + 1] ELSE f[i]]
    <3>2. k \in 1 .. n - 1 /\ k \in 1 .. k /\ k + 1 \in 1 .. n
      BY <1>1, <1>3, <2>2
    <3>3. f[k] \o parts[k + 1] \in Seq(E)
      BY <1>1, <3>1, <3>2, ConcatProperties
    <3>4. g \in [1 .. k + 1 -> Seq(E)]
      BY <3>1, <3>2, <3>3
    <3>5. Good(g, k + 1)
      <4>. SUFFICES ASSUME NEW i \in 1 .. k + 1
                    PROVE  g[i] = IF i = 1 THEN parts[i] ELSE g[i - 1] \o parts[i]
        OBVIOUS
      <4>1. CASE i = k + 1
        <5>1. i # 1 /\ i - 1 = k /\ g[k] = f[k] /\ g[i] = f[k] \o parts[i]
          BY <3>2, <4>1
        <5>. QED BY <5>1
      <4>2. CASE i # k + 1
        <5>1. i \in 1 .. k /\ (i # 1 => i - 1 \in 1 .. k)
          BY <3>2, <4>2
        <5>2. g[i] = f[i] /\ (i # 1 => g[i - 1] = f[i - 1])
          BY <5>1, <3>2
        <5>. QED BY <5>1, <5>2, <3>1
      <4>. QED BY <4>1, <4>2
    <3>6. k + 1 \in 0 .. n
      BY <3>2, <1>1
    <3>. HIDE DEF g
    <3>. QED BY <3>4, <3>5, <3>6
  <2>. QED BY <2>1, <2>2
<1>4. n \in S
  <2>. HIDE DEF S
  <2>1. 0 .. n \subseteq S
    BY <1>1, <1>2, <1>3, UpTo
  <2>. QED BY <1>1, <2>1
<1>5. PICK f \in [1 .. n -> Seq(E)] : Good(f, n)
  BY <1>4
<1>. QED BY <1>5 DEF Chained

(* FlattenSeq is the last of them.                                         *)
LEMMA FlattenIs ==
  ASSUME NEW E, NEW parts \in Seq(Seq(E)), Len(parts) # 0
  PROVE  \E f \in [1 .. Len(parts) -> Seq(E)] :
           Chained(f, parts, Len(parts)) /\ FlattenSeq(parts) = f[Len(parts)]
<1>. DEFINE Body(f) == f = [i \in 1 .. Len(parts) |-> IF i = 1 THEN parts[i] ELSE f[i - 1] \o parts[i]]
            c == CHOOSE f : Body(f)
<1>1. PICK f \in [1 .. Len(parts) -> Seq(E)] : Chained(f, parts, Len(parts))
  BY FlattenExists
<1>2. Body(f)
  BY <1>1 DEF Chained
<1>3. Body(c)
  BY <1>2, Zenon
<1>4. FlattenSeq(parts) = c[Len(parts)]
  BY DEF FlattenSeq
<1>. DEFINE n == Len(parts)
            S == {k \in 0 .. n : \A i \in 1 .. k : c[i] \in Seq(E)}
<1>5. n \in Nat \ {0} /\ \A i \in 1 .. n : parts[i] \in Seq(E)
  BY LenProperties, ElementOfSeq
<1>. HIDE DEF c
<1>6. \A i \in 1 .. n : c[i] = IF i = 1 THEN parts[i] ELSE c[i - 1] \o parts[i]
  BY <1>3
<1>7. 0 .. n \subseteq S
  <2>1. 0 \in S
    BY <1>5
  <2>2. ASSUME NEW k \in 0 .. n - 1, k \in S PROVE k + 1 \in S
    <3>1. k + 1 \in 0 .. n /\ k + 1 \in 1 .. n /\ k \in Nat
      BY <1>5
    <3>2. c[k + 1] \in Seq(E)
      <4>1. CASE k = 0
        BY <1>5, <1>6, <3>1, <4>1
      <4>2. CASE k # 0
        <5>1. k \in 1 .. k /\ k + 1 # 1 /\ k + 1 - 1 = k
          BY <3>1, <4>2
        <5>2. c[k] \in Seq(E)
          BY <2>2, <5>1
        <5>0. PICK m \in 1 .. n : m = k + 1
          BY <3>1
        <5>4. m # 1 /\ m - 1 = k
          BY <3>1, <4>2, <5>0
        <5>3. c[m] = c[m - 1] \o parts[m]
          BY <1>6, <5>4, Zenon
        <5>. QED BY <1>5, <3>1, <5>0, <5>2, <5>3, <5>4, ConcatProperties
      <4>. QED BY <4>1, <4>2
    <3>3. \A i \in 1 .. k + 1 : i \in 1 .. k \/ i = k + 1
      BY <3>1
    <3>. QED BY <2>2, <3>1, <3>2, <3>3
  <2>. HIDE DEF S
  <2>. QED BY <1>5, <2>1, <2>2, UpTo
<1>8. \A i \in 1 .. n : c[i] \in Seq(E)
  <2>1. n \in S
    <3>. HIDE DEF S
    <3>. QED BY <1>5, <1>7
  <2>. QED BY <2>1
<1>9. Chained(c, parts, n) /\ c \in [1 .. n -> Seq(E)]
  BY <1>3, <1>6, <1>8 DEF Chained
<1>. QED BY <1>4, <1>9

(* Nothing else is.                                                        *)
LEMMA FlattenUnique ==
  ASSUME NEW E, NEW parts \in Seq(Seq(E)), NEW n \in 1 .. Len(parts),
         NEW f, Chained(f, parts, n), NEW g, Chained(g, parts, n)
  PROVE  f[n] = g[n]
<1>. DEFINE S == {k \in 0 .. n : k # 0 => f[k] = g[k]}
<1>1. n \in Nat \ {0}
  BY LenProperties
<1>2. 0 \in S
  BY <1>1
<1>3. ASSUME NEW k \in 0 .. n - 1, k \in S PROVE k + 1 \in S
  <2>1. k + 1 \in 1 .. n /\ k \in Nat /\ k + 1 - 1 = k /\ k + 1 \in 0 .. n
    BY <1>1
  <2>2. f[k + 1] = g[k + 1]
    <3>1. CASE k = 0
      BY <2>1, <3>1 DEF Chained
    <3>2. CASE k # 0
      <4>1. k + 1 # 1 /\ f[k] = g[k]
        BY <1>3, <2>1, <3>2
      <4>2. PICK m \in 1 .. n : m = k + 1
        BY <2>1
      <4>3. m # 1 /\ m - 1 = k
        BY <2>1, <4>1, <4>2
      <4>4. f[m] = f[m - 1] \o parts[m] /\ g[m] = g[m - 1] \o parts[m]
        BY <4>3 DEF Chained
      <4>. QED BY <4>1, <4>2, <4>3, <4>4
    <3>. QED BY <3>1, <3>2
  <2>. QED BY <2>1, <2>2
<1>4. n \in S
  <2>. HIDE DEF S
  <2>1. 0 .. n \subseteq S
    BY <1>1, <1>2, <1>3, UpTo
  <2>. QED BY <1>1, <2>1
<1>. QED BY <1>1, <1>4

(* The first k parts.                                                      *)
LEMMA FlatFirst ==
  ASSUME NEW E, NEW parts \in Seq(Seq(E)), NEW k \in 0 .. Len(parts)
  PROVE  /\ SubSeq(parts, 1, k) \in Seq(Seq(E)) /\ Len(SubSeq(parts, 1, k)) = k
         /\ \A i \in 1 .. k : SubSeq(parts, 1, k)[i] = parts[i]
<1>1. Len(parts) \in Nat /\ \A i \in 1 .. Len(parts) : parts[i] \in Seq(E)
  BY LenProperties, ElementOfSeq
<1>2. k \in Int /\ 1 \in Int /\ \A i \in 1 .. k : parts[i] \in Seq(E)
  BY <1>1
<1>3. /\ SubSeq(parts, 1, k) \in Seq(Seq(E))
      /\ Len(SubSeq(parts, 1, k)) = IF 1 <= k THEN k - 1 + 1 ELSE 0
      /\ \A i \in 1 .. k - 1 + 1 : SubSeq(parts, 1, k)[i] = parts[1 + i - 1]
  BY <1>2, SubSeqProperties
<1>. QED BY <1>1, <1>3

(* Their concatenation is a sequence, and none of none.                    *)
LEMMA FlatType ==
  ASSUME NEW E, NEW parts \in Seq(Seq(E)), NEW k \in 0 .. Len(parts)
  PROVE  Flat(parts, k) \in Seq(E) /\ (k = 0 => Flat(parts, k) = <<>>)
<1>. DEFINE p == SubSeq(parts, 1, k)
<1>1. p \in Seq(Seq(E)) /\ Len(p) = k /\ k \in Nat
  BY FlatFirst, LenProperties
<1>2. Flat(parts, k) = FlattenSeq(p)
  BY DEF Flat
<1>. HIDE DEF p
<1>3. CASE k = 0
  <2>1. p = <<>>
    BY <1>1, <1>3, EmptySeq
  <2>. QED BY <1>1, <1>2, <1>3, <2>1, EmptySeq DEF FlattenSeq
<1>4. CASE k # 0
  <2>1. PICK f \in [1 .. k -> Seq(E)] : FlattenSeq(p) = f[k]
    BY <1>1, <1>4, FlattenIs
  <2>. QED BY <1>1, <1>2, <1>4, <2>1
<1>. QED BY <1>3, <1>4

(* It grows by the k-th part.                                              *)
LEMMA FlatStep ==
  ASSUME NEW E, NEW parts \in Seq(Seq(E)), NEW k \in 1 .. Len(parts)
  PROVE  Flat(parts, k) = Flat(parts, k - 1) \o parts[k]
<1>. DEFINE p == SubSeq(parts, 1, k)
            q == SubSeq(parts, 1, k - 1)
<1>1. Len(parts) \in Nat /\ parts[k] \in Seq(E) /\ k \in Nat \ {0} /\ k - 1 \in 0 .. Len(parts) /\ k \in 0 .. Len(parts)
  BY LenProperties, ElementOfSeq
<1>2. /\ p \in Seq(Seq(E)) /\ Len(p) = k /\ \A i \in 1 .. k : p[i] = parts[i]
  BY <1>1, FlatFirst
<1>3. /\ q \in Seq(Seq(E)) /\ Len(q) = k - 1 /\ \A i \in 1 .. k - 1 : q[i] = parts[i]
  BY <1>1, FlatFirst
<1>4. Flat(parts, k) = FlattenSeq(p) /\ Flat(parts, k - 1) = FlattenSeq(q)
  BY DEF Flat
<1>. HIDE DEF p, q
<1>5. PICK f \in [1 .. k -> Seq(E)] : Chained(f, p, k) /\ FlattenSeq(p) = f[k]
  BY <1>1, <1>2, FlattenIs
<1>6. CASE k = 1
  <2>1. Flat(parts, k - 1) = <<>>
    BY <1>1, <1>6, FlatType
  <2>2. f[k] = parts[k]
    BY <1>1, <1>2, <1>5, <1>6 DEF Chained
  <2>. QED BY <1>1, <1>4, <1>5, <2>1, <2>2, ConcatEmptySeq
<1>7. CASE k # 1
  <2>0. PICK h \in Nat \ {0} : h = k - 1
    BY <1>1, <1>7
  <2>1. PICK g \in [1 .. Len(q) -> Seq(E)] : Chained(g, q, Len(q)) /\ FlattenSeq(q) = g[Len(q)]
    BY <1>3, <2>0, FlattenIs
  <2>2. k - 1 \in 1 .. Len(q) /\ \A i \in 1 .. k - 1 : i \in 1 .. k
    BY <1>1, <1>3, <1>7
  <2>3. Chained(f, q, k - 1)
    BY <1>2, <1>3, <1>5, <2>2 DEF Chained
  <2>4. PICK z \in 1 .. Len(q) : z = k - 1
    BY <2>2
  <2>5. f[k - 1] = g[k - 1]
    <3>1. Chained(f, q, z) /\ Chained(g, q, z)
      BY <1>3, <2>1, <2>3, <2>4
    <3>2. q \in Seq(Seq(E)) /\ z \in 1 .. Len(q)
      BY <1>3
    <3>3. f[z] = g[z]
      BY ONLY <3>1, <3>2, FlattenUnique
    <3>. QED BY <2>4, <3>3
  <2>8. k \in 1 .. k
    BY <1>1
  <2>6. f[k] = IF k = 1 THEN p[k] ELSE f[k - 1] \o p[k]
    BY <1>1, <1>2, <1>5, <2>8 DEF Chained
  <2>7. p[k] = parts[k]
    BY <1>2, <2>8
  <2>. QED BY <1>3, <1>4, <1>5, <1>7, <2>1, <2>5, <2>6, <2>7
<1>. QED BY <1>6, <1>7

(* All of the parts.                                                       *)
LEMMA FlatWhole ==
  ASSUME NEW E, NEW parts \in Seq(Seq(E))
  PROVE  FlattenSeq(parts) = Flat(parts, Len(parts))
BY SubSeqFull DEF Flat

-----------------------------------------------------------------------------
Joined(s, t, e) == Append(s \o t, e) = s \o Append(t, e)
(* Append after a concatenation.                                           *)
LEMMA AppendConcat ==
  ASSUME NEW E, NEW s \in Seq(E), NEW t \in Seq(E), NEW e \in E
  PROVE  Joined(s, t, e)
BY DEF Joined

(* So far: all the parts before the k-th, and j of its elements.           *)
SoFar(parts, k, j) == Flat(parts, k - 1) \o SubSeq(parts[k], 1, j)

(* So far is a sequence, and so is what there is of the part.              *)
LEMMA SoFarType ==
  ASSUME NEW E, NEW parts \in Seq(Seq(E)), NEW k \in 1 .. Len(parts), NEW j \in 0 .. Len(parts[k])
  PROVE  /\ SoFar(parts, k, j) \in Seq(E)
         /\ SubSeq(parts[k], 1, j) \in Seq(E) /\ Len(parts[k]) \in Nat
<1>1. Len(parts) \in Nat /\ parts[k] \in Seq(E) /\ k - 1 \in 0 .. Len(parts)
  BY LenProperties, ElementOfSeq
<1>2. Len(parts[k]) \in Nat /\ \A i \in 1 .. Len(parts[k]) : parts[k][i] \in E
  BY <1>1, LenProperties, ElementOfSeq
<1>3. j \in Int /\ 1 \in Int /\ \A i \in 1 .. j : parts[k][i] \in E
  BY <1>2
<1>4. SubSeq(parts[k], 1, j) \in Seq(E)
  BY <1>3, SubSeqProperties
<1>. QED BY <1>1, <1>2, <1>4, FlatType, ConcatProperties DEF SoFar

(* One more.                                                               *)
LEMMA SoFarOn ==
  ASSUME NEW E, NEW parts \in Seq(Seq(E)), NEW k \in 1 .. Len(parts),
         NEW j \in 1 .. Len(parts[k])
  PROVE  Append(SoFar(parts, k, j - 1), parts[k][j]) = SoFar(parts, k, j)
<1>1. /\ Len(parts) \in Nat /\ parts[k] \in Seq(E) /\ k - 1 \in 0 .. Len(parts)
      /\ Len(parts[k]) \in Nat
  BY LenProperties, ElementOfSeq
<1>2. parts[k][j] \in E /\ j - 1 \in 0 .. Len(parts[k]) /\ 1 \in 1 .. Len(parts[k])
  BY <1>1, ElementOfSeq
<1>. DEFINE F == Flat(parts, k - 1)
            s == SubSeq(parts[k], 1, j - 1)
            e == parts[k][j]
<1>3. F \in Seq(E) /\ s \in Seq(E) /\ SoFar(parts, k, j - 1) = F \o s /\ SoFar(parts, k, j - 1) \in Seq(E)
  BY <1>1, <1>2, FlatType, SoFarType DEF SoFar
<1>4. SubSeq(parts[k], 1, j) = s \o <<e>>
  BY <1>1, <1>2, SubSeqRecursiveSecond
<1>5. SoFar(parts, k, j) = F \o SubSeq(parts[k], 1, j)
  BY DEF SoFar
<1>6. e \in E
  BY <1>2
<1>. HIDE DEF F, s, e
<1>7. Append(s, e) = s \o <<e>>
  BY <1>3, <1>6, AppendIsConcat
<1>8. Joined(F, s, e)
  BY <1>3, <1>6, AppendConcat
<1>9. SoFar(parts, k, j) = Append(SoFar(parts, k, j - 1), e)
  BY <1>3, <1>4, <1>5, <1>7, <1>8 DEF Joined
<1>. QED BY <1>9 DEF e

(* A part is over: nothing of the next one, or all.                        *)
LEMMA SoFarOver ==
  ASSUME NEW E, NEW parts \in Seq(Seq(E)), NEW k \in 1 .. Len(parts)
  PROVE  SoFar(parts, k, Len(parts[k])) = Flat(parts, k)
<1>1. parts[k] \in Seq(E)
  BY ElementOfSeq
<1>. QED BY <1>1, SubSeqFull, FlatStep DEF SoFar

(* Nothing of a part: all before it.                                       *)
LEMMA SoFarNone ==
  ASSUME NEW E, NEW parts \in Seq(Seq(E)), NEW k \in 1 .. Len(parts)
  PROVE  SoFar(parts, k, 0) = Flat(parts, k - 1)
<1>1. Len(parts) \in Nat /\ k - 1 \in 0 .. Len(parts)
  BY LenProperties
<1>2. SubSeq(parts[k], 1, 0) = <<>>
  BY SubSeqEmpty
<1>3. Flat(parts, k - 1) \in Seq(E)
  BY <1>1, FlatType
<1>4. Flat(parts, k - 1) \o <<>> = Flat(parts, k - 1)
  BY <1>3, ConcatEmptySeq
<1>. QED BY <1>2, <1>4 DEF SoFar

-----------------------------------------------------------------------------
(***************************************************************************)
(* ServedFaithful: how far the messages are on the bus, at any time.       *)
(***************************************************************************)
(* How far the messages are on the bus: all before message msg, and j of   *)
(* its events.                                                             *)
BusHead(a, k) == IF a[k].nostart /\ k > 1 THEN 0 ELSE 1
BusParts(a)   == [k \in DOMAIN a |-> Part(a, k)]
WireAt(j)     == wire = SoFar(BusParts(msgs), msg, j)

OnStart ==
  /\ state = "START" /\ BusHead(msgs, msg) = 1 /\ msg_ptr = 0 /\ acken
  /\ pend => WireAt(1)
  /\ ~ pend => shift = "addr" /\ ds = StartEvent(Msg) /\ WireAt(0)
OnWrite ==
  /\ state = "WRITE" /\ ~ Msg.rd
  /\ pend => WireAt(BusHead(msgs, msg) + msg_ptr)
  /\ ~ pend => /\ shift = "tx" /\ msg_ptr # 0 /\ ds = TxEvent(msg, msg_ptr - 1)
               /\ WireAt(BusHead(msgs, msg) + msg_ptr - 1)
OnRead ==
  /\ state = "READ" /\ Msg.rd /\ msg_ptr < Msg.len /\ WireAt(1 + msg_ptr)
  /\ acken <=> msg_ptr + 1 # Msg.len
  /\ IF pend THEN ds[2] = acken ELSE shift = "rx"

(* A transfer that can be served is as far as the handler thinks, and when *)
(* the handler has ended it with a success it is whole.                    *)
Follows ==
  /\ Active /\ Served(msgs) /\ Undisturbed => OnStart \/ OnWrite \/ OnRead
  /\ state = "STOP" /\ Served(msgs) /\ Undisturbed /\ msg_idx = Len(msgs) =>
       IF shift = "stop" THEN Append(wire, StopEvent) = Expected(msgs) ELSE wire = Expected(msgs)

(* It is the caller's own, and what the caller reports has ended.          *)
Whose ==
  /\ pc \in {"wait", "collect", "settle"} => msgs = args /\ state # "IDLE"
  /\ pc = "settle" /\ ret = Len(args) => state = "STOP" /\ msg_idx = Len(args)
  /\ pc = "done" /\ ret = Len(args) =>
       msgs = args /\ state = "STOP" /\ msg_idx = Len(args) /\ shift # "stop"

ServInv == BusInv /\ acken \in BOOLEAN /\ Follows /\ Whose

-----------------------------------------------------------------------------
BusReads == {RxEvent(t[1], t[2], t[3]) : t \in Nat \X Nat \X BOOLEAN}
BusSends ==
  {StopEvent} \cup {StartEvent(m) : m \in Message}
    \cup UNION {{TxEvent(k, p) : p \in Nat} : k \in Nat}
BusEvents == BusSends \cup BusReads

(* What a message asks for: its start, unless it continues another, and    *)
(* then its bytes.                                                         *)
LEMMA BusPartIs ==
  ASSUME NEW a \in Seq(Message), NEW k \in 1 .. Len(a)
  PROVE  /\ Part(a, k) \in Seq(BusEvents)
         /\ a[k].len \in Nat /\ a[k].rd \in BOOLEAN /\ a[k].nostart \in BOOLEAN
         /\ Len(Part(a, k)) = BusHead(a, k) + a[k].len
         /\ BusHead(a, k) = 1 => Part(a, k)[1] = StartEvent(a[k])
         /\ \A i \in 1 .. a[k].len :
              Part(a, k)[BusHead(a, k) + i]
                = IF a[k].rd THEN RxEvent(k, i - 1, ~ (k = Len(a) /\ i = a[k].len)) ELSE TxEvent(k, i - 1)
<1>. DEFINE m == a[k]
            hd == IF m.nostart /\ k > 1 THEN <<>> ELSE <<StartEvent(m)>>
            bytes == [i \in 1 .. m.len |-> IF m.rd THEN RxEvent(k, i - 1, ~ (k = Len(a) /\ i = m.len)) ELSE TxEvent(k, i - 1)]
<1>1. m \in Message /\ k \in Nat
  BY ElementOfSeq, LenProperties
<1>2. m.len \in Nat /\ m.rd \in BOOLEAN /\ m.nostart \in BOOLEAN
  BY <1>1 DEF Message
<1>3. Part(a, k) = hd \o bytes
  BY DEF Part, Bytes
<1>4. hd \in Seq(BusEvents) /\ Len(hd) = BusHead(a, k) /\ (BusHead(a, k) = 1 => hd[1] = StartEvent(m))
  <2>1. StartEvent(m) \in BusEvents
    BY <1>1 DEF BusEvents, BusSends
  <2>2. CASE m.nostart /\ k > 1
    BY <2>2 DEF BusHead
  <2>3. CASE ~ (m.nostart /\ k > 1)
    BY <2>1, <2>3 DEF BusHead
  <2>. QED BY <2>2, <2>3
<1>5. bytes \in Seq(BusEvents) /\ Len(bytes) = m.len
  <2>1. \A i \in 1 .. m.len : (IF m.rd THEN RxEvent(k, i - 1, ~ (k = Len(a) /\ i = m.len)) ELSE TxEvent(k, i - 1)) \in BusEvents
    <3>. SUFFICES ASSUME NEW i \in 1 .. m.len
                  PROVE  RxEvent(k, i - 1, ~ (k = Len(a) /\ i = m.len)) \in BusEvents /\ TxEvent(k, i - 1) \in BusEvents
      OBVIOUS
    <3>2. RxEvent(k, i - 1, ~ (k = Len(a) /\ i = m.len)) \in BusEvents
      <4>1. PICK p \in Nat : p = i - 1
        BY <1>2
      <4>2. ASSUME NEW b \in BOOLEAN PROVE RxEvent(k, p, b) \in BusEvents
        <5>2. PICK t \in Nat \X Nat \X BOOLEAN : t = <<k, p, b>>
          BY <1>1
        <5>3. RxEvent(k, p, b) = RxEvent(t[1], t[2], t[3])
          BY <5>2
        <5>1. RxEvent(k, p, b) \in BusReads
          BY <5>3 DEF BusReads
        <5>4. PICK e : e = RxEvent(k, p, b)
          OBVIOUS
        <5>5. e \in BusReads
          BY <5>1, <5>4
        <5>6. e \in BusEvents
          BY <5>5 DEF BusEvents
        <5>. QED BY <5>4, <5>6
      <4>3. CASE k = Len(a) /\ i = m.len
        <5>1. (~ (k = Len(a) /\ i = m.len)) = FALSE
          BY <4>3
        <5>. QED BY <4>1, <4>2, <5>1
      <4>4. CASE ~ (k = Len(a) /\ i = m.len)
        <5>1. (~ (k = Len(a) /\ i = m.len)) = TRUE
          BY <4>4
        <5>. QED BY <4>1, <4>2, <5>1
      <4>. QED BY <4>3, <4>4
    <3>3. TxEvent(k, i - 1) \in BusEvents
      <4>1. PICK p \in Nat : p = i - 1
        BY <1>2
      <4>2. TxEvent(k, p) \in UNION {{TxEvent(l, q) : q \in Nat} : l \in Nat}
        BY <1>1
      <4>. QED BY <4>1, <4>2 DEF BusEvents, BusSends
    <3>. QED BY <3>2, <3>3
  <2>2. bytes \in [1 .. m.len -> BusEvents]
    BY <2>1
  <2>. HIDE DEF bytes
  <2>. QED BY <1>2, <2>2
<1>6. \A i \in 1 .. m.len : bytes[i] = IF m.rd THEN RxEvent(k, i - 1, ~ (k = Len(a) /\ i = m.len)) ELSE TxEvent(k, i - 1)
  OBVIOUS
<1>7. BusHead(a, k) \in {0, 1}
  BY DEF BusHead
<1>. HIDE DEF m, hd, bytes
<1>8. /\ hd \o bytes \in Seq(BusEvents)
      /\ Len(hd \o bytes) = Len(hd) + Len(bytes)
      /\ \A i \in 1 .. Len(hd) + Len(bytes) : (hd \o bytes)[i] = IF i <= Len(hd) THEN hd[i] ELSE bytes[i - Len(hd)]
  BY <1>4, <1>5, ConcatProperties
<1>9. BusHead(a, k) = 1 => (hd \o bytes)[1] = StartEvent(m)
  BY <1>2, <1>4, <1>5, <1>7, <1>8
<1>10. ASSUME NEW i \in 1 .. m.len
       PROVE  (hd \o bytes)[BusHead(a, k) + i] = IF m.rd THEN RxEvent(k, i - 1, ~ (k = Len(a) /\ i = m.len)) ELSE TxEvent(k, i - 1)
  <2>. PICK j \in Nat : j = BusHead(a, k) + i
    BY <1>2, <1>7
  <2>1. j \in 1 .. Len(hd) + Len(bytes) /\ ~ (j <= Len(hd)) /\ j - Len(hd) = i
    BY <1>2, <1>4, <1>5, <1>7
  <2>. QED BY <1>6, <1>8, <2>1
<1>. QED BY <1>2, <1>3, <1>4, <1>5, <1>8, <1>9, <1>10 DEF m

(* The parts of an array are sequences of events.                          *)
LEMMA BusSeqs ==
  ASSUME NEW a \in Seq(Message)
  PROVE  /\ BusParts(a) \in Seq(Seq(BusEvents)) /\ Len(BusParts(a)) = Len(a)
         /\ \A k \in 1 .. Len(a) : BusParts(a)[k] = Part(a, k)
<1>1. DOMAIN a = 1 .. Len(a) /\ Len(a) \in Nat
  BY LenProperties
<1>2. BusParts(a) \in [1 .. Len(a) -> Seq(BusEvents)]
  BY <1>1, BusPartIs DEF BusParts
<1>4. BusParts(a) \in Seq(Seq(BusEvents)) /\ Len(BusParts(a)) = Len(a)
  BY <1>1, <1>2
<1>. QED BY <1>1, <1>4 DEF BusParts

(* One more event of message k.                                            *)
LEMMA BusOneMore ==
  ASSUME NEW a \in Seq(Message), NEW k \in 1 .. Len(a), NEW j \in 1 .. BusHead(a, k) + a[k].len,
         NEW e, e = Part(a, k)[j], NEW i, i = j - 1
  PROVE  Append(SoFar(BusParts(a), k, i), e) = SoFar(BusParts(a), k, j)
<1>. DEFINE P == BusParts(a)
<1>1. P \in Seq(Seq(BusEvents)) /\ k \in 1 .. Len(P) /\ P[k] = Part(a, k)
  BY BusSeqs
<1>2. j \in 1 .. Len(P[k])
  BY <1>1, BusPartIs
<1>3. e = P[k][j]
  BY <1>1
<1>. HIDE DEF P
<1>4. Append(SoFar(P, k, j - 1), P[k][j]) = SoFar(P, k, j)
  BY ONLY <1>1, <1>2, SoFarOn
<1>5. Append(SoFar(P, k, i), e) = SoFar(P, k, j)
  BY <1>3, <1>4
<1>. QED BY <1>5 DEF P

(* The end of message k, and the start of the next one that is not passed  *)
(* over.                                                                   *)
LEMMA BusEnds ==
  ASSUME NEW a \in Seq(Message), NEW k \in 1 .. Len(a)
  PROVE  /\ SoFar(BusParts(a), k, BusHead(a, k) + a[k].len) = Flat(BusParts(a), k)
         /\ SoFar(BusParts(a), k, 0) = Flat(BusParts(a), k - 1)
<1>. DEFINE P == BusParts(a)
<1>1. P \in Seq(Seq(BusEvents)) /\ k \in 1 .. Len(P) /\ P[k] = Part(a, k)
  BY BusSeqs
<1>2. Len(P[k]) = BusHead(a, k) + a[k].len
  BY <1>1, BusPartIs
<1>. HIDE DEF P
<1>3. SoFar(P, k, Len(P[k])) = Flat(P, k) /\ SoFar(P, k, 0) = Flat(P, k - 1)
  BY ONLY <1>1, SoFarOver, SoFarNone
<1>. QED BY <1>2, <1>3 DEF P

(* Empty messages that continue one ask for nothing.                       *)
LEMMA BusPassedOver ==
  ASSUME NEW a \in Seq(Message), NEW i \in 1 .. Len(a), NEW k \in i .. Len(a),
         \A j \in i + 1 .. k : a[j].nostart /\ a[j].len = 0
  PROVE  Flat(BusParts(a), k) = Flat(BusParts(a), i)
<1>. DEFINE P == BusParts(a)
            S == {n \in Nat : i + n <= k => Flat(P, i + n) = Flat(P, i)}
<1>1. P \in Seq(Seq(BusEvents)) /\ Len(P) = Len(a) /\ Len(a) \in Nat /\ i \in Nat /\ k \in Nat
  BY BusSeqs, LenProperties
<1>2. 0 \in S
  BY <1>1
<1>3. ASSUME NEW n \in Nat, n \in S PROVE n + 1 \in S
  <2>. SUFFICES ASSUME i + n + 1 <= k PROVE Flat(P, i + (n + 1)) = Flat(P, i)
    BY <1>1
  <2>1. PICK m \in Nat : m = i + n + 1
    BY <1>1
  <2>2. m \in 1 .. Len(a) /\ m \in i + 1 .. k /\ m - 1 = i + n /\ m > 1 /\ i + n <= k /\ i + (n + 1) = m
    BY <1>1, <2>1
  <2>3. Flat(P, m - 1) = Flat(P, i)
    BY <1>3, <2>2
  <2>4. P[m] = Part(a, m) /\ Len(Part(a, m)) = 0 /\ Part(a, m) \in Seq(BusEvents)
    <3>1. a[m].nostart /\ a[m].len = 0
      BY <2>2
    <3>2. BusHead(a, m) = 0
      BY <2>2, <3>1 DEF BusHead
    <3>3. Part(a, m) \in Seq(BusEvents) /\ Len(Part(a, m)) = BusHead(a, m) + a[m].len
      BY <2>2, BusPartIs
    <3>. QED BY <2>2, <3>1, <3>2, <3>3, BusSeqs
  <2>5. P[m] = <<>>
    BY <2>4, EmptySeq
  <2>6. Flat(P, m) = Flat(P, m - 1) \o P[m] /\ Flat(P, m - 1) \in Seq(BusEvents)
    <3>1. m \in 1 .. Len(P) /\ m - 1 \in 0 .. Len(P)
      BY <1>1, <2>2
    <3>. HIDE DEF P
    <3>. QED BY <1>1, <3>1, FlatStep, FlatType
  <2>7. Flat(P, m - 1) \o <<>> = Flat(P, m - 1)
    BY <2>6, ConcatEmptySeq
  <2>. QED BY <2>2, <2>3, <2>5, <2>6, <2>7
<1>4. PICK n \in Nat : n = k - i
  BY <1>1
<1>. HIDE DEF S
<1>5. 0 .. n \subseteq S
  <2>1. \A m \in 0 .. n - 1 : m \in S => m + 1 \in S
    BY <1>3
  <2>. QED BY <1>2, <2>1, UpTo
<1>6. n \in S /\ i + n = k
  BY <1>1, <1>4, <1>5
<1>7. i + n <= k => Flat(P, i + n) = Flat(P, i)
  BY <1>6 DEF S
<1>8. i + n <= k
  BY <1>1, <1>6
<1>9. Flat(P, i + n) = Flat(P, i)
  BY <1>7, <1>8
<1>. QED BY <1>6, <1>9, Zenon


(* A whole transfer is all parts and the stop.                             *)
LEMMA BusExpectedIs ==
  ASSUME NEW a \in Seq(Message)
  PROVE  Expected(a) = Append(Flat(BusParts(a), Len(a)), StopEvent)
<1>1. BusParts(a) \in Seq(Seq(BusEvents)) /\ Len(BusParts(a)) = Len(a)
  BY BusSeqs
<1>2. FlattenSeq(BusParts(a)) = Flat(BusParts(a), Len(a))
  BY <1>1, FlatWhole
<1>. QED BY <1>2 DEF Expected, BusParts

-----------------------------------------------------------------------------
(* Before the first call.                                                  *)
LEMMA ServInit == Init => ServInv
<1>. SUFFICES ASSUME Init PROVE ServInv
  OBVIOUS
<1>1. BusInv
  BY InitBus
<1>2. acken \in BOOLEAN /\ Follows /\ Whose
  BY DEF Init, Follows, Whose, Active
<1>. QED BY <1>1, <1>2 DEF ServInv

(* Where a transfer that can be served is, when an interrupt comes.        *)
LEMMA FollowsIs ==
  ASSUME ServInv, Irq
  PROVE  /\ pend /\ Active /\ Lines /\ (Undisturbed => busy)
         /\ Served(msgs) /\ Undisturbed => OnStart \/ OnWrite \/ OnRead
         /\ BusHead(msgs, msg) \in {0, 1} /\ acken \in BOOLEAN
<1>1. BusInv /\ Follows /\ acken \in BOOLEAN
  BY DEF ServInv
<1>2. Active /\ pend /\ Lines
  BY <1>1, IrqActive DEF BusInv
<1>. QED BY <1>1, <1>2 DEF Follows, Lines, BusHead

(* The handler does not touch what is the caller's.                        *)
LEMMA HandlerWhose ==
  ASSUME ServInv, Irq, UNCHANGED caller, msgs' = msgs, state' # "IDLE"
  PROVE  Whose'
<1>1. Active /\ Whose
  BY FollowsIs DEF ServInv
<1>2. state # "STOP" /\ state # "IDLE"
  BY <1>1 DEF Active
<1>3. UNCHANGED <<pc, args, ret>>
  BY DEF caller
<1>. QED BY <1>1, <1>2, <1>3 DEF Whose

(* A transfer ends, with a success only when it is whole.                  *)
LEMMA FollowsStop ==
  ASSUME ServInv, Irq, NEW r, NEW idx, Stop(r, idx), UNCHANGED caller, Undisturbed' => Undisturbed,
         Served(msgs) /\ Undisturbed' /\ msg_idx' = Len(msgs) => Append(wire', StopEvent) = Expected(msgs)
  PROVE  Follows' /\ Whose' /\ acken' \in BOOLEAN
<1>1. /\ state' = "STOP" /\ msgs' = msgs /\ acken' = acken
      /\ shift' = IF busy THEN "stop" ELSE "none"
  BY DEF Stop, AckIrq
<1>2. ~ Active'
  BY <1>1 DEF Active
<1>3. acken \in BOOLEAN /\ (Undisturbed' => busy)
  BY FollowsIs
<1>4. Follows'
  BY <1>1, <1>2, <1>3 DEF Follows
<1>5. Whose'
  BY <1>1, HandlerWhose
<1>. QED BY <1>1, <1>3, <1>4, <1>5

(* A transfer that ends with an error is no success.                       *)
LEMMA FollowsError ==
  ASSUME ServInv, Irq, NEW r \in {-EREMOTEIO, -ECONNREFUSED, -EINVAL}, NEW idx, Stop(r, idx), UNCHANGED <<wire, caller>>
  PROVE  Follows' /\ Whose' /\ acken' \in BOOLEAN
<1>1. r \in Int /\ r < 0 /\ r # 0
  BY DEF EREMOTEIO, ECONNREFUSED, EINVAL
<1>2. msg_idx' = r
  BY <1>1 DEF Stop
<1>3. Len(msgs) \in Nat
  BY FollowsIs, CursorFacts DEF ServInv
<1>4. msg_idx' # Len(msgs)
  BY <1>1, <1>2, <1>3
<1>5. Undisturbed' => Undisturbed
  BY DEF Undisturbed
<1>. QED BY <1>4, <1>5, FollowsStop

(* A byte is given to the controller.                                      *)
LEMMA FollowsSend ==
  ASSUME ServInv, Irq, NEW k \in 1 .. Len(msgs), NEW p \in Nat, SendByte(k, p),
         UNCHANGED <<wire, caller, oops>>,
         Served(msgs) /\ Undisturbed =>
           ~ msgs[k].rd /\ wire = SoFar(BusParts(msgs), k, BusHead(msgs, k) + p)
  PROVE  Follows' /\ Whose' /\ acken' \in BOOLEAN
<1>1. /\ state' = "WRITE" /\ msg' = k /\ msg_ptr' = p + 1 /\ ds' = TxEvent(k, p)
      /\ pend' = FALSE /\ shift' = (IF busy THEN "tx" ELSE "none")
      /\ msgs' = msgs /\ acken' = acken /\ wire' = wire
  BY DEF SendByte, AckIrq
<1>2. acken \in BOOLEAN /\ (Undisturbed => busy) /\ (Undisturbed' <=> Undisturbed)
  BY <1>1, FollowsIs DEF Undisturbed
<1>3. PICK h \in {0, 1} : h = BusHead(msgs, k)
  BY DEF BusHead
<1>4. msg_ptr' # 0 /\ msg_ptr' - 1 = p /\ h + msg_ptr' - 1 = h + p
  BY <1>1, <1>3
<1>5. ASSUME Served(msgs), Undisturbed PROVE OnWrite'
  <2>1. ~ Msg'.rd
    BY <1>1, <1>5 DEF Msg
  <2>2. wire' = SoFar(BusParts(msgs'), msg', BusHead(msgs', msg') + msg_ptr' - 1)
    BY <1>1, <1>3, <1>4, <1>5
  <2>3. ds' = TxEvent(msg', msg_ptr' - 1)
    BY <1>1, <1>4
  <2>. QED BY <1>1, <1>2, <1>4, <1>5, <2>1, <2>2, <2>3 DEF OnWrite, WireAt
<1>6. Follows'
  BY <1>1, <1>2, <1>5 DEF Follows
<1>7. Whose'
  BY <1>1, HandlerWhose
<1>. QED BY <1>1, <1>2, <1>6, <1>7

(* The handler writes a message that is to be written, and its bytes so    *)
(* far are out.                                                            *)
LEMMA WritingIs ==
  ASSUME ServInv, Irq, Writing, Served(msgs), Undisturbed
  PROVE  ~ Msg.rd /\ wire = SoFar(BusParts(msgs), msg, BusHead(msgs, msg) + msg_ptr)
<1>1. pend /\ (OnStart \/ OnWrite \/ OnRead)
  BY FollowsIs
<1>2. CASE state = "WRITE"
  BY <1>1, <1>2 DEF OnStart, OnWrite, OnRead, WireAt
<1>3. CASE state # "WRITE"
  <2>1. state = "START" /\ ~ Msg.rd
    BY <1>3 DEF Writing, Started
  <2>2. BusHead(msgs, msg) = 1 /\ msg_ptr = 0 /\ wire = SoFar(BusParts(msgs), msg, 1)
    BY <1>1, <2>1 DEF OnStart, OnWrite, OnRead, WireAt
  <2>3. BusHead(msgs, msg) + msg_ptr = 1
    BY <2>2
  <2>. QED BY <2>1, <2>2, <2>3
<1>. QED BY <1>2, <1>3

(* The messages between this one and k are passed over.                    *)
LEMMA BusPassed ==
  ASSUME ServInv, Irq, Writing, IsMsgEnd(msg_ptr), Served(msgs), Undisturbed,
         NEW k \in msg .. Len(msgs), \A j \in msg + 1 .. k : Passed(j)
  PROVE  wire = Flat(BusParts(msgs), k)
<1>1. /\ msgs \in Seq(Message) /\ Len(msgs) \in Nat /\ msg \in 1 .. Len(msgs)
      /\ msg_ptr \in 0 .. Msg.len /\ Msg.len \in Nat
  BY FollowsIs, CursorFacts DEF ServInv
<1>2. msg_ptr = msgs[msg].len
  BY <1>1 DEF IsMsgEnd, Msg
<1>3. wire = SoFar(BusParts(msgs), msg, BusHead(msgs, msg) + msgs[msg].len)
  BY <1>2, WritingIs
<1>4. wire = Flat(BusParts(msgs), msg)
  BY <1>1, <1>3, BusEnds
<1>5. \A j \in msg + 1 .. k : msgs[j].nostart /\ msgs[j].len = 0
  BY DEF Passed
<1>6. Flat(BusParts(msgs), k) = Flat(BusParts(msgs), msg)
  BY <1>1, <1>5, BusPassedOver
<1>. QED BY <1>4, <1>6

(* The next message with work to do begins where the bus is.               *)
LEMMA BusNext ==
  ASSUME ServInv, Irq, Writing, IsMsgEnd(msg_ptr), NEW k \in NextWork
  PROVE  /\ k \in 2 .. Len(msgs)
         /\ Served(msgs) /\ Undisturbed => wire = SoFar(BusParts(msgs), k, 0)
<1>1. /\ msgs \in Seq(Message) /\ Len(msgs) \in Nat /\ msg \in 1 .. Len(msgs) /\ msg_num = Len(msgs)
  BY FollowsIs, CursorFacts DEF ServInv
<1>2. k \in msg + 1 .. Len(msgs) /\ \A j \in msg + 1 .. k - 1 : Passed(j)
  BY <1>1 DEF NextWork
<1>3. k \in 2 .. Len(msgs) /\ k \in 1 .. Len(msgs)
  BY <1>1, <1>2
<1>4. PICK i \in msg .. Len(msgs) : i = k - 1
  BY <1>1, <1>2
<1>5. \A j \in msg + 1 .. i : Passed(j)
  BY <1>2, <1>4
<1>6. SoFar(BusParts(msgs), k, 0) = Flat(BusParts(msgs), i)
  BY <1>1, <1>3, <1>4, BusEnds
<1>7. Served(msgs) /\ Undisturbed => wire = Flat(BusParts(msgs), i)
  BY <1>5, BusPassed
<1>. QED BY <1>3, <1>6, <1>7

(* There is none: all messages are on the bus.                             *)
LEMMA BusNone ==
  ASSUME ServInv, Irq, Writing, IsMsgEnd(msg_ptr), Served(msgs), Undisturbed, NextWork = {}
  PROVE  wire = Flat(BusParts(msgs), Len(msgs))
<1>1. /\ Len(msgs) \in Nat /\ msg \in 1 .. Len(msgs) /\ msg_num = Len(msgs)
  BY FollowsIs, CursorFacts DEF ServInv
<1>. DEFINE S == {n \in Nat : \A j \in msg + 1 .. msg + n : Passed(j)}
<1>2. PICK d \in Nat : d = Len(msgs) - msg
  BY <1>1
<1>3. 0 \in S
  BY <1>1
<1>4. ASSUME NEW n \in 0 .. d - 1, n \in S PROVE n + 1 \in S
  <2>1. PICK k \in msg + 1 .. Len(msgs) : k = msg + n + 1
    BY <1>1, <1>2
  <2>2. \A j \in msg + 1 .. k - 1 : Passed(j)
    BY <1>1, <1>4, <2>1
  <2>3. Passed(k)
    BY <1>1, <2>1, <2>2 DEF NextWork
  <2>4. \A j \in msg + 1 .. msg + (n + 1) : j = k \/ j \in msg + 1 .. k - 1
    BY <1>1, <2>1
  <2>. QED BY <2>2, <2>3, <2>4
<1>5. 0 .. d \subseteq S
  <2>. HIDE DEF S
  <2>. QED BY <1>3, <1>4, UpTo
<1>6. \A j \in msg + 1 .. msg + d : Passed(j)
  BY <1>5
<1>7. msg + d = Len(msgs) /\ Len(msgs) \in msg .. Len(msgs)
  BY <1>1, <1>2
<1>8. \A j \in msg + 1 .. Len(msgs) : Passed(j)
  BY <1>6, <1>7
<1>. QED BY <1>7, <1>8, BusPassed

-----------------------------------------------------------------------------
(* The handler, action by action.                                          *)

(* The handler as it writes.                                               *)
LEMMA ServWrote ==
  ASSUME ServInv, IrqNoSlave \/ IrqProbed \/ IrqWriteByte \/ IrqWriteOn \/ IrqWriteTurn \/ IrqWriteEnd
  PROVE  Follows' /\ Whose' /\ acken' \in BOOLEAN
<1>1. Irq /\ UNCHANGED <<wire, caller>>
  BY DEF IrqNoSlave, IrqProbed, IrqWriteByte, IrqWriteOn, IrqWriteTurn, IrqWriteEnd
<1>2. /\ msgs \in Seq(Message) /\ Len(msgs) \in Nat /\ msg \in 1 .. Len(msgs) /\ msg_num = Len(msgs)
      /\ msg_idx = msg - 1 /\ msg_ptr \in 0 .. Msg.len /\ Msg.len \in Nat
  BY <1>1, FollowsIs, CursorFacts DEF ServInv
<1>3. Undisturbed' <=> Undisturbed
  BY <1>1 DEF Undisturbed
<1>4. Expected(msgs) = Append(Flat(BusParts(msgs), Len(msgs)), StopEvent)
  BY <1>2, BusExpectedIs
<1>5. CASE IrqNoSlave
  BY <1>1, <1>5, FollowsError DEF IrqNoSlave
<1>6. CASE IrqProbed
  <2>1. Stop(0, msg_idx) /\ state = "START" /\ msg = Len(msgs) /\ Msg.len = 0
    BY <1>2, <1>6 DEF IrqProbed, Started, Probed, IsLastMsg
  <2>2. ASSUME Served(msgs), Undisturbed PROVE wire = Flat(BusParts(msgs), Len(msgs))
    <3>1. OnStart /\ pend
      BY <1>1, <2>1, <2>2, FollowsIs DEF OnStart, OnWrite, OnRead
    <3>2. BusHead(msgs, msg) = 1 /\ wire = SoFar(BusParts(msgs), msg, 1)
      BY <3>1 DEF OnStart, WireAt
    <3>3. BusHead(msgs, msg) + msgs[msg].len = 1
      BY <2>1, <3>2 DEF Msg
    <3>4. SoFar(BusParts(msgs), msg, BusHead(msgs, msg) + msgs[msg].len) = Flat(BusParts(msgs), msg)
      BY <1>2, BusEnds
    <3>. QED BY <2>1, <3>2, <3>3, <3>4
  <2>. QED BY <1>1, <1>3, <1>4, <2>1, <2>2, FollowsStop
<1>7. CASE IrqWriteByte
  <2>1. Writing /\ SendByte(msg, msg_ptr) /\ UNCHANGED oops /\ msg_ptr \in Nat
    BY <1>2, <1>7 DEF IrqWriteByte
  <2>2. Served(msgs) /\ Undisturbed =>
          ~ msgs[msg].rd /\ wire = SoFar(BusParts(msgs), msg, BusHead(msgs, msg) + msg_ptr)
    BY <1>1, <2>1, WritingIs DEF Msg
  <2>. QED BY <1>1, <1>2, <2>1, <2>2, FollowsSend
<1>8. CASE IrqWriteOn
  <2>1. Writing /\ IsMsgEnd(msg_ptr) /\ UNCHANGED oops
    BY <1>8 DEF IrqWriteOn
  <2>2. PICK k \in NextWork : msgs[k].nostart /\ ~ msgs[k].rd /\ SendByte(k, 0)
    BY <1>8 DEF IrqWriteOn
  <2>3. /\ k \in 2 .. Len(msgs)
        /\ Served(msgs) /\ Undisturbed => wire = SoFar(BusParts(msgs), k, 0)
    BY <1>1, <2>1, BusNext
  <2>4. BusHead(msgs, k) + 0 = 0 /\ k \in 1 .. Len(msgs)
    BY <1>2, <2>2, <2>3 DEF BusHead
  <2>5. Served(msgs) /\ Undisturbed =>
          ~ msgs[k].rd /\ wire = SoFar(BusParts(msgs), k, BusHead(msgs, k) + 0)
    BY <2>2, <2>3, <2>4
  <2>. QED BY <1>1, <2>1, <2>2, <2>4, <2>5, FollowsSend
<1>9. CASE IrqWriteTurn
  <2>1. PICK k \in NextWork : Stop(-EINVAL, k - 1)
    BY <1>9 DEF IrqWriteTurn
  <2>. QED BY <1>1, <2>1, FollowsError
<1>10. CASE IrqWriteEnd
  <2>1. Writing /\ IsMsgEnd(msg_ptr) /\ NextWork = {} /\ Stop(0, msg_num - 1)
    BY <1>10 DEF IrqWriteEnd
  <2>2. Served(msgs) /\ Undisturbed => wire = Flat(BusParts(msgs), Len(msgs))
    BY <1>1, <2>1, BusNone
  <2>. QED BY <1>1, <1>3, <1>4, <2>1, <2>2, FollowsStop
<1>. QED BY <1>5, <1>6, <1>7, <1>8, <1>9, <1>10

(* The handler as it starts the next message.                              *)
LEMMA ServStarted ==
  ASSUME ServInv, IrqWriteStart
  PROVE  Follows' /\ Whose' /\ acken' \in BOOLEAN
<1>1. Irq /\ Writing /\ IsMsgEnd(msg_ptr) /\ UNCHANGED <<msgs, wire, caller>>
  BY DEF IrqWriteStart
<1>2. PICK k \in NextWork :
        /\ ~ msgs[k].nostart
        /\ MessageStart(msgs[k]) /\ pend' = FALSE
        /\ msg' = k /\ msg_idx' = k - 1 /\ msg_ptr' = 0
  BY DEF IrqWriteStart
<1>3. Served(msgs) /\ Undisturbed => wire = SoFar(BusParts(msgs), k, 0)
  BY <1>1, BusNext
<1>4. state' = "START" /\ acken' = TRUE /\ ds' = StartEvent(msgs[k]) /\ shift' = "addr"
  BY <1>2 DEF MessageStart
<1>5. Undisturbed' <=> Undisturbed
  BY <1>1 DEF Undisturbed
<1>6. BusHead(msgs', msg') = 1 /\ Msg' = msgs[k]
  BY <1>1, <1>2 DEF BusHead, Msg
<1>7. ASSUME Served(msgs), Undisturbed PROVE OnStart'
  BY <1>1, <1>2, <1>3, <1>4, <1>6, <1>7 DEF OnStart, WireAt
<1>8. Follows'
  BY <1>1, <1>4, <1>5, <1>7 DEF Follows
<1>9. Whose'
  BY <1>1, <1>4, HandlerWhose
<1>. QED BY <1>4, <1>8, <1>9

(* A read message is the last one, and has its own start.                  *)
LEMMA BusServedIs ==
  ASSUME NEW a \in Seq(Message), Served(a), NEW k \in 1 .. Len(a), a[k].rd
  PROVE  k = Len(a) /\ BusHead(a, k) = 1
<1>1. k \in DOMAIN a
  BY LenProperties
<1>. QED BY <1>1 DEF Served, BusHead

(* The next byte of a read, or its end.                                    *)
LEMMA FollowsRead ==
  ASSUME ServInv, Irq, NEW p \in Nat, PrepareRead(p), UNCHANGED caller, Undisturbed' => Undisturbed,
         Served(msgs) /\ Undisturbed' =>
           /\ Msg.rd /\ p <= Msg.len /\ (p < Msg.len => acken)
           /\ wire' = SoFar(BusParts(msgs), msg, 1 + p)
  PROVE  Follows' /\ Whose' /\ acken' \in BOOLEAN
<1>1. /\ msgs \in Seq(Message) /\ Len(msgs) \in Nat /\ msg \in 1 .. Len(msgs) /\ msg_num = Len(msgs)
      /\ msg_idx = msg - 1 /\ msg_ptr \in 0 .. Msg.len /\ Msg.len \in Nat
  BY FollowsIs, CursorFacts DEF ServInv
<1>2. acken \in BOOLEAN /\ (Undisturbed => busy)
  BY FollowsIs
<1>3. ASSUME Served(msgs), Undisturbed'
      PROVE  msg = Len(msgs) /\ IsLastMsg /\ BusHead(msgs, msg) = 1
  <2>1. msgs[msg].rd
    BY <1>3 DEF Msg
  <2>2. msg = Len(msgs) /\ BusHead(msgs, msg) = 1
    BY <1>1, <1>3, <2>1, BusServedIs
  <2>. QED BY <1>1, <2>2 DEF IsLastMsg
<1>4. CASE /\ IsMsgLast(p) \/ ~ IsMsgEnd(p)
           /\ acken' = (acken /\ ~ (IsMsgLast(p) /\ IsLastMsg))
           /\ state' = "READ" /\ msg_ptr' = p
           /\ AckIrq("rx")
           /\ UNCHANGED <<msg, msgs, msg_num, msg_idx, irqen, lastbit, busy, rx, ds>>
  <2>1. pend' = FALSE /\ shift' = (IF busy THEN "rx" ELSE "none") /\ p < Msg.len
    BY <1>1, <1>4 DEF AckIrq, IsMsgLast, IsMsgEnd
  <2>2. IsMsgLast(p) <=> p + 1 = Msg.len
    BY <1>1 DEF IsMsgLast
  <2>3. Msg' = Msg
    BY <1>4 DEF Msg
  <2>4. ASSUME Served(msgs), Undisturbed' PROVE OnRead'
    <3>1. acken' <=> p + 1 # Msg.len
      BY <1>3, <1>4, <2>1, <2>2, <2>4
    <3>2. wire' = SoFar(BusParts(msgs'), msg', 1 + msg_ptr')
      BY <1>4, <2>4
    <3>. QED BY <1>2, <1>4, <2>1, <2>3, <2>4, <3>1, <3>2 DEF OnRead, WireAt
  <2>5. Follows'
    BY <1>4, <2>4 DEF Follows
  <2>6. Whose'
    BY <1>4, HandlerWhose
  <2>. QED BY <1>4, <2>5, <2>6
<1>5. CASE IsMsgEnd(p) /\ IsLastMsg /\ Stop(0, msg_idx)
  <2>1. ASSUME Served(msgs), Undisturbed' PROVE Append(wire', StopEvent) = Expected(msgs)
    <3>1. p = Msg.len
      BY <1>1, <1>5, <2>1 DEF IsMsgEnd
    <3>2. BusHead(msgs, msg) + msgs[msg].len = 1 + p
      BY <1>1, <1>3, <2>1, <3>1 DEF Msg
    <3>3. wire' = SoFar(BusParts(msgs), msg, BusHead(msgs, msg) + msgs[msg].len)
      BY <2>1, <3>2
    <3>4. wire' = Flat(BusParts(msgs), msg)
      BY <1>1, <3>3, BusEnds
    <3>. QED BY <1>1, <1>3, <2>1, <3>4, BusExpectedIs
  <2>. QED BY <1>5, <2>1, FollowsStop
<1>6. CASE /\ IsMsgEnd(p) /\ ~ IsLastMsg
           /\ state' = "READ"
           /\ msg' = msg + 1 /\ msg_idx' = msg_idx + 1 /\ msg_ptr' = 0
           /\ AckIrq("rx")
           /\ UNCHANGED <<msgs, msg_num, irqen, acken, lastbit, busy, rx, ds>>
  <2>1. ~ (Served(msgs) /\ Undisturbed')
    BY <1>3, <1>6
  <2>2. Follows'
    BY <1>6, <2>1 DEF Follows
  <2>3. Whose'
    BY <1>6, HandlerWhose
  <2>. QED BY <1>2, <1>6, <2>2, <2>3
<1>. QED BY <1>4, <1>5, <1>6 DEF PrepareRead

(* The handler as it reads.                                                *)
LEMMA ServRead ==
  ASSUME ServInv, IrqReadStarted \/ IrqReadNoAck \/ IrqReadByte
  PROVE  Follows' /\ Whose' /\ acken' \in BOOLEAN
<1>1. Irq /\ UNCHANGED caller
  BY DEF IrqReadStarted, IrqReadNoAck, IrqReadByte
<1>2. /\ msgs \in Seq(Message) /\ Len(msgs) \in Nat /\ msg \in 1 .. Len(msgs) /\ msg_num = Len(msgs)
      /\ msg_idx = msg - 1 /\ msg_ptr \in 0 .. Msg.len /\ Msg.len \in Nat
  BY <1>1, FollowsIs, CursorFacts DEF ServInv
<1>3. CASE IrqReadStarted
  <2>1. state = "START" /\ ~ Probed /\ Msg.rd /\ PrepareRead(msg_ptr) /\ wire' = wire
    BY <1>3 DEF IrqReadStarted, Started
  <2>2. Undisturbed' <=> Undisturbed
    BY <2>1 DEF Undisturbed
  <2>3. ASSUME Served(msgs), Undisturbed'
        PROVE  msg_ptr <= Msg.len /\ acken /\ wire' = SoFar(BusParts(msgs), msg, 1 + msg_ptr)
    <3>1. OnStart /\ pend
      BY <1>1, <2>1, <2>2, <2>3, FollowsIs DEF OnStart, OnWrite, OnRead
    <3>2. msg_ptr = 0 /\ acken /\ wire = SoFar(BusParts(msgs), msg, 1)
      BY <3>1 DEF OnStart, WireAt
    <3>3. 1 + msg_ptr = 1
      BY <3>2
    <3>. QED BY <1>2, <2>1, <3>2, <3>3
  <2>4. msg_ptr \in Nat
    BY <1>2
  <2>. QED BY <1>1, <2>1, <2>2, <2>3, <2>4, FollowsRead
<1>4. CASE IrqReadNoAck
  BY <1>1, <1>4, FollowsError DEF IrqReadNoAck
<1>5. CASE IrqReadByte
  <2>1. /\ state = "READ" /\ wire' = Append(wire, RxEvent(msg, msg_ptr, ds[2]))
        /\ PrepareRead(msg_ptr + 1)
    BY <1>5 DEF IrqReadByte
  <2>2. Undisturbed' => Undisturbed
    BY <2>1, WireGrows DEF ServInv, BusInv
  <2>3. ASSUME Served(msgs), Undisturbed'
        PROVE  /\ Msg.rd /\ msg_ptr + 1 <= Msg.len /\ (msg_ptr + 1 < Msg.len => acken)
               /\ wire' = SoFar(BusParts(msgs), msg, 1 + (msg_ptr + 1))
    <3>1. OnRead /\ pend
      BY <1>1, <2>1, <2>2, <2>3, FollowsIs DEF OnStart, OnWrite, OnRead
    <3>2. /\ Msg.rd /\ msg_ptr < Msg.len /\ wire = SoFar(BusParts(msgs), msg, 1 + msg_ptr)
          /\ (acken <=> msg_ptr + 1 # Msg.len) /\ ds[2] = acken
      BY <3>1 DEF OnRead, WireAt
    <3>3. msgs[msg].rd /\ msg = Len(msgs) /\ BusHead(msgs, msg) = 1
      BY <1>2, <2>3, <3>2, BusServedIs DEF Msg
    <3>4. PICK i \in 1 .. msgs[msg].len : i = msg_ptr + 1
      BY <1>2, <3>2 DEF Msg
    <3>5. Part(msgs, msg)[BusHead(msgs, msg) + i] = RxEvent(msg, i - 1, ~ (msg = Len(msgs) /\ i = msgs[msg].len))
      BY <1>2, <3>3, BusPartIs
    <3>6. ds[2] = (~ (msg = Len(msgs) /\ i = msgs[msg].len))
      <4>1. acken \in BOOLEAN /\ msgs[msg].len = Msg.len
        BY DEF ServInv, Msg
      <4>. QED BY <1>2, <3>2, <3>3, <3>4, <4>1
    <3>7. PICK j \in 1 .. BusHead(msgs, msg) + msgs[msg].len : j = BusHead(msgs, msg) + i
      BY <1>2, <3>3, <3>4 DEF Msg
    <3>8. i - 1 = msg_ptr /\ 1 + msg_ptr = j - 1 /\ 1 + (msg_ptr + 1) = j
      BY <1>2, <3>3, <3>4, <3>7
    <3>9. RxEvent(msg, msg_ptr, ds[2]) = Part(msgs, msg)[j]
      BY <3>5, <3>6, <3>7, <3>8
    <3>10. Append(SoFar(BusParts(msgs), msg, j - 1), RxEvent(msg, msg_ptr, ds[2])) = SoFar(BusParts(msgs), msg, j)
      <4>1. PICK e : e = RxEvent(msg, msg_ptr, ds[2])
        OBVIOUS
      <4>2. PICK n \in Nat : n = j - 1
        OBVIOUS
      <4>3. /\ msgs \in Seq(Message) /\ msg \in 1 .. Len(msgs) /\ j \in 1 .. BusHead(msgs, msg) + msgs[msg].len
            /\ e = Part(msgs, msg)[j] /\ n = j - 1
        BY <1>2, <3>9, <4>1, <4>2
      <4>4. Append(SoFar(BusParts(msgs), msg, n), e) = SoFar(BusParts(msgs), msg, j)
        BY ONLY <4>3, BusOneMore
      <4>. QED BY <4>1, <4>2, <4>4
    <3>11. wire' = SoFar(BusParts(msgs), msg, j)
      BY <2>1, <3>2, <3>8, <3>10
    <3>12. msg_ptr + 1 <= Msg.len /\ (msg_ptr + 1 < Msg.len => acken)
      BY <1>2, <3>2
    <3>. QED BY <3>2, <3>8, <3>11, <3>12
  <2>4. msg_ptr + 1 \in Nat
    BY <1>2
  <2>. QED BY <1>1, <2>1, <2>2, <2>3, <2>4, FollowsRead
<1>. QED BY <1>3, <1>4, <1>5

-----------------------------------------------------------------------------
(* The controller, and another master.                                     *)

(* The event the bus has taken is the next one of the messages.            *)
LEMMA SentIs ==
  ASSUME ServInv, Active, ~ pend, shift \in {"addr", "tx"}, Served(msgs), Undisturbed
  PROVE  \/ OnStart /\ shift = "addr" /\ Append(wire, ds) = SoFar(BusParts(msgs), msg, 1)
         \/ OnWrite /\ shift = "tx" /\ Append(wire, ds) = SoFar(BusParts(msgs), msg, BusHead(msgs, msg) + msg_ptr)
<1>1. /\ msgs \in Seq(Message) /\ msg \in 1 .. Len(msgs) /\ msg_ptr \in 0 .. Msg.len /\ Msg.len \in Nat
  BY CursorFacts DEF ServInv
<1>2. OnStart \/ OnWrite \/ OnRead
  BY DEF ServInv, Follows
<1>3. CASE shift = "addr"
  <2>1. OnStart
    BY <1>2, <1>3 DEF OnWrite, OnRead
  <2>2. BusHead(msgs, msg) = 1 /\ ds = StartEvent(msgs[msg]) /\ wire = SoFar(BusParts(msgs), msg, 0)
    BY <2>1 DEF OnStart, WireAt, Msg
  <2>3. ds = Part(msgs, msg)[1]
    BY <1>1, <2>2, BusPartIs
  <2>4. 1 \in 1 .. BusHead(msgs, msg) + msgs[msg].len /\ 0 = 1 - 1
    BY <1>1, <2>2 DEF Msg
  <2>5. Append(SoFar(BusParts(msgs), msg, 0), ds) = SoFar(BusParts(msgs), msg, 1)
    <3>1. msgs \in Seq(Message) /\ msg \in 1 .. Len(msgs)
      BY <1>1
    <3>. QED BY ONLY <2>3, <2>4, <3>1, BusOneMore
  <2>. QED BY <1>3, <2>1, <2>2, <2>5
<1>4. CASE shift = "tx"
  <2>1. OnWrite
    BY <1>2, <1>4 DEF OnStart, OnRead
  <2>2. /\ ~ msgs[msg].rd /\ msg_ptr # 0 /\ ds = TxEvent(msg, msg_ptr - 1)
        /\ wire = SoFar(BusParts(msgs), msg, BusHead(msgs, msg) + msg_ptr - 1)
    BY <2>1 DEF OnWrite, WireAt, Msg
  <2>3. msg_ptr \in 1 .. msgs[msg].len /\ BusHead(msgs, msg) \in {0, 1} /\ msgs[msg].len \in Nat
    BY <1>1, <2>2 DEF Msg, BusHead
  <2>4. Part(msgs, msg)[BusHead(msgs, msg) + msg_ptr] = TxEvent(msg, msg_ptr - 1)
    BY <1>1, <2>2, <2>3, BusPartIs
  <2>5. PICK j \in 1 .. BusHead(msgs, msg) + msgs[msg].len : j = BusHead(msgs, msg) + msg_ptr
    BY <2>3
  <2>6. PICK n \in Nat : n = j - 1
    BY <2>5
  <2>9. BusHead(msgs, msg) + msg_ptr - 1 = n
    BY <1>1, <2>3, <2>5, <2>6
  <2>7. ds = Part(msgs, msg)[j] /\ wire = SoFar(BusParts(msgs), msg, n)
    BY <2>2, <2>4, <2>5, <2>9
  <2>8. Append(SoFar(BusParts(msgs), msg, n), ds) = SoFar(BusParts(msgs), msg, j)
    <3>1. msgs \in Seq(Message) /\ msg \in 1 .. Len(msgs) /\ j \in 1 .. BusHead(msgs, msg) + msgs[msg].len
      BY <1>1
    <3>. QED BY ONLY <2>6, <2>7, <3>1, BusOneMore
  <2>. QED BY <1>4, <2>1, <2>5, <2>7, <2>8
<1>. QED BY <1>3, <1>4

(* The controller's steps, and the loss of the bus.                        *)
LEMMA ServController ==
  ASSUME ServInv, Controller \/ ArbitrationLost
  PROVE  Follows' /\ Whose' /\ acken' \in BOOLEAN
<1>0. BusInv /\ Lines /\ WireSeq /\ acken \in BOOLEAN
  BY DEF ServInv, BusInv
<1>1. /\ UNCHANGED <<state, cursor, acken, caller>> /\ shift' = "none"
      /\ shift \in {"addr", "tx", "rx", "stop"}
  BY DEF Controller, ArbitrationLost, Sent, Received, StopSent
<1>2. UNCHANGED <<msg, msgs, msg_num, msg_idx, msg_ptr, pc, args, ret>> /\ Msg' = Msg
  BY <1>1 DEF cursor, caller, Msg
<1>3. Whose'
  BY <1>1, <1>2 DEF ServInv, Whose
<1>4. (Active' <=> Active) /\ (shift # "stop" => Active /\ ~ pend) /\ (shift = "stop" => ~ Active)
  BY <1>0, <1>1 DEF Active, Lines, BusInv, LinesType
<1>5. CASE Sent
  <2>1. wire' = Append(wire, ds) /\ pend' = TRUE /\ shift \in {"addr", "tx"}
    BY <1>5 DEF Sent
  <2>2. Undisturbed' => Undisturbed
    BY <1>0, <2>1, WireGrows
  <2>3. state # "STOP"
    BY <1>4, <2>1 DEF Active
  <2>4. ASSUME Served(msgs), Undisturbed' PROVE OnStart' \/ OnWrite'
    <3>1. \/ OnStart /\ shift = "addr" /\ Append(wire, ds) = SoFar(BusParts(msgs), msg, 1)
          \/ OnWrite /\ shift = "tx" /\ Append(wire, ds) = SoFar(BusParts(msgs), msg, BusHead(msgs, msg) + msg_ptr)
      BY <1>4, <2>1, <2>2, <2>4, SentIs
    <3>2. CASE OnStart /\ Append(wire, ds) = SoFar(BusParts(msgs), msg, 1)
      <4>1. wire' = SoFar(BusParts(msgs'), msg', 1) /\ BusHead(msgs', msg') = 1
        BY <1>2, <2>1, <3>2 DEF OnStart
      <4>. QED BY <1>1, <1>2, <2>1, <3>2, <4>1 DEF OnStart, WireAt
    <3>3. CASE OnWrite /\ Append(wire, ds) = SoFar(BusParts(msgs), msg, BusHead(msgs, msg) + msg_ptr)
      <4>1. wire' = SoFar(BusParts(msgs'), msg', BusHead(msgs', msg') + msg_ptr')
        BY <1>2, <2>1, <3>3
      <4>. QED BY <1>1, <1>2, <2>1, <3>3, <4>1 DEF OnWrite, WireAt
    <3>. QED BY <3>1, <3>2, <3>3
  <2>5. Follows'
    BY <1>1, <1>2, <2>3, <2>4 DEF Follows
  <2>. QED BY <1>0, <1>1, <1>3, <2>5
<1>6. CASE Received
  <2>1. ds' = <<"byte", acken>> /\ wire' = wire /\ pend' = TRUE /\ shift = "rx"
    BY <1>6 DEF Received
  <2>2. Undisturbed' <=> Undisturbed
    BY <2>1 DEF Undisturbed
  <2>3. state # "STOP"
    BY <1>4, <2>1 DEF Active
  <2>4. ASSUME Served(msgs), Undisturbed PROVE OnRead'
    <3>1. OnRead
      BY <1>4, <2>1, <2>4 DEF ServInv, Follows, OnStart, OnWrite
    <3>2. wire' = SoFar(BusParts(msgs'), msg', 1 + msg_ptr')
      BY <1>2, <2>1, <3>1 DEF OnRead, WireAt
    <3>3. ds'[2] = acken'
      BY <1>1, <2>1
    <3>. QED BY <1>1, <1>2, <2>1, <3>1, <3>2, <3>3 DEF OnRead, WireAt
  <2>5. Follows'
    BY <1>1, <1>2, <2>2, <2>3, <2>4 DEF Follows
  <2>. QED BY <1>0, <1>1, <1>3, <2>5
<1>7. CASE StopSent
  <2>1. shift = "stop" /\ wire' = Append(wire, StopEvent)
    BY <1>7 DEF StopSent
  <2>2. Undisturbed' => Undisturbed
    BY <1>0, <2>1, WireGrows
  <2>3. Follows'
    BY <1>1, <1>2, <1>4, <2>1, <2>2 DEF ServInv, Follows
  <2>. QED BY <1>0, <1>1, <1>3, <2>3
<1>8. CASE ArbitrationLost
  <2>1. wire' = Append(wire, LostEvent)
    BY <1>8 DEF ArbitrationLost
  <2>2. ~ Undisturbed'
    BY <1>0, <2>1, WireGrows
  <2>3. Follows'
    BY <2>2 DEF Follows
  <2>. QED BY <1>0, <1>1, <1>3, <2>3
<1>. QED BY <1>5, <1>6, <1>7, <1>8 DEF Controller

-----------------------------------------------------------------------------
(* The process.                                                            *)

(* Where it leaves the transfer alone.                                     *)
LEMMA FollowsSame ==
  ASSUME ServInv, UNCHANGED <<state, cursor, hw, wire>>
  PROVE  Follows' /\ acken' \in BOOLEAN
<1>1. /\ UNCHANGED <<state, msg, msgs, msg_num, msg_idx, msg_ptr, acken, pend, shift, ds, wire>>
      /\ Msg' = Msg /\ acken \in BOOLEAN
  BY DEF cursor, hw, Msg, ServInv
<1>2. (Active' <=> Active) /\ (Undisturbed' <=> Undisturbed)
  BY <1>1 DEF Active, Undisturbed
<1>3. BusHead(msgs', msg') = BusHead(msgs, msg) /\ (\A j : WireAt(j)' <=> WireAt(j))
  BY <1>1 DEF WireAt
<1>4. OnStart => OnStart'
  BY <1>1, <1>3 DEF OnStart
<1>5. OnWrite => OnWrite'
  BY <1>1, <1>3 DEF OnWrite
<1>6. OnRead => OnRead'
  BY <1>1, <1>3 DEF OnRead
<1>7. Follows'
  BY <1>1, <1>2, <1>4, <1>5, <1>6 DEF ServInv, Follows
<1>. QED BY <1>1, <1>7

(* A transfer begins: nothing of an earlier one is left.                   *)
LEMMA ServDoXfer ==
  ASSUME ServInv, ~ Irq, ~ oops, DoXfer
  PROVE  Follows' /\ Whose' /\ acken' \in BOOLEAN
<1>1. /\ pc = "setup" /\ msgs' = args /\ msg' = 1 /\ msg_ptr' = 0 /\ wire' = <<>> /\ pc' = "wait"
      /\ state' = "START" /\ acken' = TRUE /\ ds' = StartEvent(args[1]) /\ shift' = "addr"
      /\ pend' = pend /\ args' = args
  BY DEF DoXfer, MessageStart
<1>2. ~ pend
  BY DEF Irq, ServInv, BusInv, Lines, LinesType, Active
<1>3. args \in Seq(Message) /\ Len(args) \in Nat \ {0}
  <2>1. args \in Transfers
    BY <1>1 DEF ServInv, BusInv, Calls
  <2>. QED BY <2>1, I2cAssumption, EmptySeq
<1>4. SoFar(BusParts(args), 1, 0) = <<>>
  <2>. DEFINE P == BusParts(args)
  <2>1. P \in Seq(Seq(BusEvents)) /\ Len(P) = Len(args)
    BY <1>3, BusSeqs
  <2>2. 1 \in 1 .. Len(args) /\ 0 \in 0 .. Len(args)
    BY <1>3
  <2>3. SoFar(P, 1, 0) = Flat(P, 1 - 1)
    BY <1>3, <2>2, BusEnds
  <2>. HIDE DEF P
  <2>4. Flat(P, 0) = <<>>
    BY <2>1, <2>2, FlatType
  <2>5. SoFar(P, 1, 0) = <<>>
    BY <2>3, <2>4
  <2>. QED BY <2>5 DEF P
<1>5. BusHead(msgs', msg') = 1 /\ Msg' = args[1]
  BY <1>1 DEF BusHead, Msg
<1>6. OnStart'
  BY <1>1, <1>2, <1>4, <1>5 DEF OnStart, WireAt
<1>7. Follows'
  BY <1>1, <1>6 DEF Follows
<1>8. Whose'
  BY <1>1 DEF Whose
<1>. QED BY <1>1, <1>7, <1>8

(* The process's steps.                                                    *)
LEMMA ServProcess ==
  ASSUME ServInv, Process \/ (~ oops /\ Xfer)
  PROVE  Follows' /\ Whose' /\ acken' \in BOOLEAN
<1>1. CASE ~ Irq /\ ~ oops /\ DoXfer
  BY <1>1, ServDoXfer
<1>. SUFFICES ASSUME Xfer \/ SetMaster \/ NoMaster \/ Completed \/ TimedOut \/ Collect \/ Settle \/ Return
              PROVE  Whose' /\ UNCHANGED <<state, cursor, hw, wire>>
  BY <1>1, FollowsSame DEF Process
<1>2. UNCHANGED <<state, cursor, hw, wire>>
  BY DEF Xfer, SetMaster, NoMaster, Completed, TimedOut, Collect, Settle, Return
<1>3. UNCHANGED <<state, msgs, msg_idx, shift>> /\ BusInv /\ Whose
  BY <1>2 DEF cursor, hw, ServInv
<1>4. CASE Xfer \/ SetMaster \/ Return
  <2>1. pc' \in {"master", "setup", "idle"}
    BY <1>4 DEF Xfer, SetMaster, Return
  <2>. QED BY <1>2, <2>1 DEF Whose
<1>5. CASE NoMaster
  <2>1. pc = "master" /\ args' = args /\ (pc' = pc \/ (pc' = "done" /\ ret' = -EREMOTEIO))
    BY <1>5 DEF NoMaster
  <2>2. args \in Transfers
    BY <1>3, <2>1 DEF BusInv, Calls
  <2>3. Len(args) \in Nat
    BY <2>2, I2cAssumption, LenProperties
  <2>4. pc' = "done" => ret' # Len(args)
    BY <2>1, <2>3 DEF EREMOTEIO
  <2>. QED BY <1>2, <2>1, <2>4 DEF Whose
<1>6. CASE Completed \/ TimedOut
  <2>1. pc = "wait" /\ pc' = "collect" /\ args' = args
    BY <1>6 DEF Completed, TimedOut
  <2>. QED BY <1>2, <1>3, <2>1 DEF Whose
<1>7. CASE Collect
  <2>1. pc = "collect" /\ pc' = "settle" /\ args' = args /\ ret' = msg_idx
    BY <1>7 DEF Collect
  <2>2. msgs = args /\ state # "IDLE"
    BY <1>3, <2>1 DEF Whose
  <2>3. msg_idx = Len(args) => state = "STOP"
    <3>1. Active => msg_idx # Len(msgs)
      BY <1>3, CursorFacts
    <3>. QED BY <1>3, <2>2, <3>1 DEF BusInv, LinesType, Active
  <2>. QED BY <1>2, <1>3, <2>1, <2>2, <2>3 DEF Whose
<1>8. CASE Settle
  <2>1. pc = "settle" /\ pc' = "done" /\ args' = args /\ ret' = ret /\ shift # "stop"
    BY <1>8 DEF Settle
  <2>. QED BY <1>2, <1>3, <2>1 DEF Whose
<1>. QED BY <1>2, <1>4, <1>5, <1>6, <1>7, <1>8

(* Every step.                                                             *)
LEMMA ServNext == ServInv /\ [Next]_vars => ServInv'
<1>. SUFFICES ASSUME ServInv, [Next]_vars PROVE ServInv'
  OBVIOUS
<1>1. BusInv'
  BY NextBus DEF ServInv
<1>2. CASE UNCHANGED vars
  <2>1. UNCHANGED <<state, cursor, hw, wire>> /\ UNCHANGED <<state, msgs, msg_idx, shift, pc, args, ret>>
    BY <1>2 DEF vars, cursor, hw, caller
  <2>2. Whose'
    BY <2>1 DEF ServInv, Whose
  <2>. QED BY <1>1, <2>1, <2>2, FollowsSame DEF ServInv
<1>3. CASE Handler
  BY <1>1, <1>3, ServWrote, ServStarted, ServRead DEF Handler, ServInv
<1>4. CASE Controller \/ (~ oops /\ ArbitrationLost)
  BY <1>1, <1>4, ServController DEF ServInv
<1>5. CASE Process \/ (~ oops /\ Xfer)
  BY <1>1, <1>5, ServProcess DEF ServInv
<1>. QED BY <1>2, <1>3, <1>4, <1>5 DEF Next

(* The invariant implies the property.                                     *)
LEMMA ServFaithful == ServInv => ServedFaithful
<1>. SUFFICES ASSUME ServInv, pc = "done", ret = Len(args), Served(args), Undisturbed
              PROVE  wire = Expected(args)
  BY DEF ServedFaithful
<1>1. msgs = args /\ state = "STOP" /\ msg_idx = Len(args) /\ shift # "stop"
  BY DEF ServInv, Whose
<1>. QED BY <1>1 DEF ServInv, Follows

(* The driver's success is the messages' own, whole transfer.              *)
THEOREM SuccessIsWhole == Spec => []ServedFaithful
<1>. QED BY ServInit, ServNext, ServFaithful, PTL DEF Spec


-----------------------------------------------------------------------------
(***************************************************************************)
(* S3cI2cClock: the divisors that are found fit into their fields, and     *)
(* what they make of the clock is what was accepted.                       *)
(***************************************************************************)
(* A set of numbers that is not empty and ends somewhere has a last one.   *)
LEMMA GreatestNumber ==
  ASSUME NEW m \in Nat, NEW S \in SUBSET (0 .. m), S # {}
  PROVE  \E f \in S : \A g \in S : g <= f
<1>. DEFINE T == {m - f : f \in S}
            R == OpToRel(<, Nat)
<1>0. S \in SUBSET Nat /\ \A f \in S : m - f \in Nat
  OBVIOUS
<1>1. T \in SUBSET Nat /\ T # {}
  BY <1>0
<1>2. PICK x \in T : \A y \in T : ~ (<<y, x>> \in R)
  BY <1>1, NatLessThanWellFounded, WFMin, Zenon
<1>3. ASSUME NEW y \in T PROVE x <= y
  <2>1. x \in Nat /\ y \in Nat /\ <<y, x>> \notin R
    BY <1>1, <1>2
  <2>. QED BY <2>1 DEF OpToRel
<1>4. PICK f \in S : x = m - f
  BY <1>2
<1>5. ASSUME NEW g \in S PROVE g <= f
  <2>1. m - g \in T
    OBVIOUS
  <2>2. m - f <= m - g /\ f \in Nat /\ g \in Nat
    BY <1>0, <1>3, <1>4, <2>1
  <2>. QED BY <2>2
<1>. QED BY <1>4, <1>5

LEMMA CkSteps ==
  ASSUME NEW c \in Nat, NEW d \in Nat \ {0}
  PROVE  /\ c \div d \in Nat
         /\ (c \div d) * d <= c
OBVIOUS

(* Down to a 8192nd of the clock the divisors fit into their fields.       *)
LEMMA DivsFit ==
  ASSUME NEW clk \in Nat, NEW f \in Nat \ {0}, f * 8192 >= clk
  PROVE  Divs(clk, f) \in 1 .. 16 /\ Div1(clk, f) \in {16, 512}
<1>. DEFINE q == clk \div f
<1>1. q \in Nat /\ q * f <= clk
  BY CkSteps
<1>2. Div1(clk, f) = IF q > 256 THEN 512 ELSE 16
  BY DEF Div1
<1>3. Divs(clk, f) = LET d == (q + Div1(clk, f) - 1) \div Div1(clk, f)
                     IN CASE d = 0 -> 1 [] d > 17 -> 17 [] OTHER -> d
  BY DEF Divs
<1>. HIDE DEF q
<1>4. q <= 8192
  <2>. SUFFICES ASSUME q >= 8193 PROVE FALSE
    BY <1>1
  <2>1. q * f >= 8193 * f
    BY <1>1
  <2>. QED BY <1>1, <2>1
<1>5. CASE q > 256
  <2>1. (q + 511) \div 512 \in 0 .. 16
    BY <1>1, <1>4
  <2>. QED BY <1>1, <1>2, <1>3, <1>5, <2>1
<1>6. CASE q <= 256
  <2>1. (q + 15) \div 16 \in 0 .. 16
    BY <1>1, <1>6
  <2>. QED BY <1>1, <1>2, <1>3, <1>6, <2>1
<1>. QED BY <1>1, <1>5, <1>6

(* What is put into the register is a choice for an acceptable frequency.  *)
CkInv ==
  /\ ck_in \in [clk : ClkRates, bus : BusFreqs, min : BusFreqs, max : BusFreqs]
  /\ ck_iicon = {} \/ ck_iicon = CkDivisor(ck_in)

LEMMA CkChosen ==
  ASSUME NEW in \in [clk : ClkRates, bus : BusFreqs, min : BusFreqs, max : BusFreqs], NEW con \in CkDivisor(in)
  PROVE  \E f \in {in.bus} \cup CkRange(in) :
           /\ f # 0 /\ Acceptable(Freq(in.clk, f), f)
           /\ con = [pres |-> Divs(in.clk, f) - 1, div |-> Div1(in.clk, f)]
<1>. DEFINE Good(f) == f # 0 /\ Acceptable(Freq(in.clk, f), f)
            set(f) == {[pres |-> Divs(in.clk, f) - 1, div |-> Div1(in.clk, f)]}
            asked  == in.bus # 0 /\ Acceptable(Freq(in.clk, in.bus), in.bus)
<1>1. CkDivisor(in) = CASE asked -> set(in.bus)
                        [] ~ asked /\ CkGood(in) # {} -> set(CkHighest(in))
                        [] OTHER -> {}
  BY DEF CkDivisor
<1>2. in.bus \in Nat /\ in.min \in Nat /\ in.max \in Nat
  BY S3cI2cClockAssumption
<1>3. ASSUME CkGood(in) # {} PROVE CkHighest(in) \in CkRange(in) /\ Good(CkHighest(in))
  <2>. DEFINE m == IF in.max = 0 THEN in.bus ELSE in.max
  <2>1. m \in Nat /\ CkRange(in) \subseteq 0 .. m /\ 0 \notin CkRange(in)
    BY <1>2 DEF CkRange
  <2>2. CkGood(in) \subseteq CkRange(in) /\ \A f \in CkGood(in) : Acceptable(Freq(in.clk, f), f)
    BY DEF CkGood
  <2>. HIDE DEF m
  <2>3. \E f \in CkGood(in) : \A g \in CkGood(in) : g <= f
    BY <1>3, <2>1, <2>2, GreatestNumber
  <2>4. CkHighest(in) \in CkGood(in)
    BY <2>3 DEF CkHighest
  <2>. QED BY <2>1, <2>2, <2>4
<1>4. CASE con \in set(in.bus) /\ Good(in.bus)
  BY <1>4
<1>5. CASE con \in set(CkHighest(in)) /\ CkGood(in) # {}
  BY <1>3, <1>5
<1>. QED BY <1>1, <1>4, <1>5

(* The bus runs within 2 kHz of the frequency that was asked for or of one *)
(* in the range, for any clock of the chip: what is put into the fields of *)
(* the register is what the search has found.                              *)
THEOREM BusWithinTwo == CkSpec => []RateAllowed
<1>1. CkInit => CkInv
  BY DEF CkInit, CkInv
<1>2. CkInv /\ [CkNext]_ckVars => CkInv'
  <2>. SUFFICES ASSUME CkInv, [CkNext]_ckVars PROVE CkInv'
    OBVIOUS
  <2>1. ck_in' = ck_in /\ (ck_iicon' = ck_iicon \/ ck_iicon' = CkDivisor(ck_in))
    BY DEF CkNext, CkSet, ckVars
  <2>. QED BY <2>1 DEF CkInv
<1>3. CkInv => RateAllowed
  <2>. SUFFICES ASSUME CkInv, ck_in.bus * 8192 >= ck_in.clk, ck_in.min * 8192 >= ck_in.clk,
                       NEW con \in ck_iicon
                PROVE  \E f \in {ck_in.bus} \cup CkRange(ck_in) : CkRate(con) \in f - 2 .. f + 2
    BY DEF RateAllowed
  <2>1. /\ ck_in.clk \in Nat /\ ck_in.bus \in Nat /\ ck_in.min \in Nat /\ ck_in.max \in Nat
        /\ con \in CkDivisor(ck_in)
    <3>1. con \in CkDivisor(ck_in)
      BY DEF CkInv
    <3>2. ck_in \in [clk : ClkRates, bus : BusFreqs, min : BusFreqs, max : BusFreqs]
      BY DEF CkInv
    <3>3. ck_in.clk \in ClkRates /\ ck_in.bus \in BusFreqs /\ ck_in.min \in BusFreqs /\ ck_in.max \in BusFreqs
      BY <3>2
    <3>4. \A n \in ClkRates : n \in Nat
      BY S3cI2cClockAssumption
    <3>5. \A n \in BusFreqs : n \in Nat
      BY S3cI2cClockAssumption
    <3>. QED BY <3>1, <3>3, <3>4, <3>5
  <2>2. PICK f \in {ck_in.bus} \cup CkRange(ck_in) :
          /\ f # 0 /\ Acceptable(Freq(ck_in.clk, f), f)
          /\ con = [pres |-> Divs(ck_in.clk, f) - 1, div |-> Div1(ck_in.clk, f)]
    BY <2>1, CkChosen DEF CkInv
  <2>3. f \in Nat \ {0} /\ f * 8192 >= ck_in.clk
    BY <2>1, <2>2 DEF CkRange
  <2>4. Divs(ck_in.clk, f) \in 1 .. 16 /\ Div1(ck_in.clk, f) \in {16, 512}
    BY <2>1, <2>3, DivsFit
  <2>5. CkRate(con) = Freq(ck_in.clk, f)
    <3>1. (con.pres % 16) + 1 = Divs(ck_in.clk, f) /\ con.div = Div1(ck_in.clk, f)
      BY <2>2, <2>4
    <3>. QED BY <3>1 DEF CkRate, Freq
  <2>6. Freq(ck_in.clk, f) \in Nat
    <3>. DEFINE D == Divs(ck_in.clk, f) E == Div1(ck_in.clk, f)
    <3>1. D * E \in Nat \ {0}
      BY <2>4
    <3>. QED BY <2>1, <3>1, CkSteps DEF Freq
  <2>7. CkRate(con) \in Nat /\ CkRate(con) - f \in -2 .. 2
    BY <2>2, <2>5, <2>6 DEF Acceptable
  <2>8. CkRate(con) \in f - 2 .. f + 2
    BY <2>3, <2>7
  <2>. QED BY <2>8
<1>. QED BY <1>1, <1>2, <1>3, PTL DEF CkSpec

-----------------------------------------------------------------------------
(***************************************************************************)
(* I2cCore: what core_lock keeps, and what it leaves to the order in which *)
(* adapters, drivers and their user come and go.                           *)
(***************************************************************************)
(* Where threads are, what of it the registrations are, and that a thread  *)
(* that walks holds the lock.                                              *)
IcWorking == {"walk", "tell", "clients", "detach"}
IcPlaces ==
  /\ ic_pc \in [IcThreads -> IcWorking \cup {"off", "numbered", "registered", "on"}]
  /\ ic_class \subseteq IcAdapters /\ ic_drv \subseteq IcDrivers /\ ic_init \subseteq IcDrivers
  /\ \A a \in IcAdapters :
       /\ ic_pc[a] \notin {"registered", "detach"}
       /\ a \in ic_class <=> ic_pc[a] \in {"walk", "on", "tell", "clients"}
  /\ \A d \in IcDrivers :
       /\ ic_pc[d] \notin {"numbered", "tell", "clients"}
       /\ d \in ic_drv <=> ic_pc[d] # "off"
       /\ d \in ic_init <=> ic_pc[d] \in {"walk", "on", "detach"}
  /\ \A t \in IcThreads : ic_pc[t] \in IcWorking <=> core_lock = t

LEMMA PlacesInit == IcInit => IcPlaces
BY I2cNamesAssumption DEF IcInit, IcPlaces, IcThreads, IcWorking

(* A thread goes on, or lets the others be.                                *)
LEMMA PlacesKept ==
  ASSUME IcPlaces, UNCHANGED <<core_lock, ic_pc, ic_class, ic_drv, ic_init>>
  PROVE  IcPlaces'
BY DEF IcPlaces

(* A thread goes to another place: its registrations follow, and the lock. *)
LEMMA PlacesGo ==
  ASSUME IcPlaces, NEW t \in IcThreads, NEW from, NEW to, IcGo(t, from, to),
         to \in IcWorking \cup {"off", "numbered", "registered", "on"},
         t \in IcAdapters =>
           /\ to \notin {"registered", "detach"} /\ UNCHANGED <<ic_drv, ic_init>>
           /\ ic_class' = IF to \in {"walk", "on", "tell", "clients"} THEN ic_class \cup {t} ELSE ic_class \ {t},
         t \in IcDrivers =>
           /\ to \notin {"numbered", "tell", "clients"} /\ UNCHANGED ic_class
           /\ ic_drv' = IF to # "off" THEN ic_drv \cup {t} ELSE ic_drv \ {t}
           /\ ic_init' = IF to \in {"walk", "on", "detach"} THEN ic_init \cup {t} ELSE ic_init \ {t},
         \/ to \in IcWorking /\ core_lock' = t /\ core_lock \in {IcNone, t}
         \/ to \notin IcWorking /\ IcUnlock(t)
         \/ to \notin IcWorking /\ core_lock # t /\ core_lock' = core_lock
  PROVE  IcPlaces'
<1>1. /\ ic_pc[t] = from /\ ic_pc' = [ic_pc EXCEPT ![t] = to]
      /\ ic_pc' \in [IcThreads -> IcWorking \cup {"off", "numbered", "registered", "on"}]
  BY DEF IcGo, IcPlaces
<1>2. \A u \in IcThreads \ {t} : ic_pc'[u] = ic_pc[u]
  BY <1>1 DEF IcPlaces
<1>3. ic_pc'[t] = to
  BY <1>1 DEF IcPlaces
<1>4. \A u \in IcThreads : ic_pc'[u] \in IcWorking <=> core_lock' = u
  BY <1>2, <1>3, I2cNamesAssumption DEF IcPlaces, IcUnlock
<1>5. CASE t \in IcAdapters
  <2>1. t \notin IcDrivers /\ UNCHANGED <<ic_drv, ic_init>> /\ ic_class' \subseteq IcAdapters
    BY <1>5, I2cCoreAssumption DEF IcPlaces
  <2>2. \A a \in IcAdapters :
          /\ ic_pc'[a] \notin {"registered", "detach"}
          /\ a \in ic_class' <=> ic_pc'[a] \in {"walk", "on", "tell", "clients"}
    BY <1>2, <1>3, <1>5 DEF IcPlaces, IcThreads
  <2>3. \A d \in IcDrivers : ic_pc'[d] = ic_pc[d]
    BY <1>2, <2>1 DEF IcThreads
  <2>. QED BY <1>1, <1>4, <2>1, <2>2, <2>3 DEF IcPlaces
<1>6. CASE t \in IcDrivers
  <2>1. t \notin IcAdapters /\ UNCHANGED ic_class /\ ic_drv' \subseteq IcDrivers /\ ic_init' \subseteq IcDrivers
    BY <1>6, I2cCoreAssumption DEF IcPlaces
  <2>2. \A d \in IcDrivers :
          /\ ic_pc'[d] \notin {"numbered", "tell", "clients"}
          /\ d \in ic_drv' <=> ic_pc'[d] # "off"
          /\ d \in ic_init' <=> ic_pc'[d] \in {"walk", "on", "detach"}
    BY <1>2, <1>3, <1>6 DEF IcPlaces, IcThreads
  <2>3. \A a \in IcAdapters : ic_pc'[a] = ic_pc[a]
    BY <1>2, <2>1 DEF IcThreads
  <2>. QED BY <1>1, <1>4, <2>1, <2>2, <2>3 DEF IcPlaces
<1>. QED BY <1>5, <1>6 DEF IcThreads

LEMMA PlacesNext == IcPlaces /\ [IcNext]_icVars => IcPlaces'
<1>. SUFFICES ASSUME IcPlaces, [IcNext]_icVars PROVE IcPlaces'
  OBVIOUS
<1>1. ASSUME NEW a \in IcAdapters, NEW from, NEW to, IcGo(a, from, to),
             to \in IcWorking \cup {"off", "numbered", "on"},
             to # "detach", UNCHANGED <<ic_drv, ic_init>>,
             ic_class' = IF to \in {"walk", "on", "tell", "clients"} THEN ic_class \cup {a} ELSE ic_class \ {a},
             \/ to \in IcWorking /\ core_lock' = a /\ core_lock \in {IcNone, a}
             \/ to \notin IcWorking /\ IcUnlock(a)
             \/ to \notin IcWorking /\ core_lock # a /\ core_lock' = core_lock
      PROVE  IcPlaces'
  <2>1. a \in IcThreads /\ a \notin IcDrivers
    BY I2cCoreAssumption DEF IcThreads
  <2>. QED BY <1>1, <2>1, PlacesGo DEF IcWorking
<1>2. ASSUME NEW d \in IcDrivers, NEW from, NEW to, IcGo(d, from, to),
             to \in {"off", "registered", "walk", "on", "detach"}, UNCHANGED ic_class,
             ic_drv' = IF to # "off" THEN ic_drv \cup {d} ELSE ic_drv \ {d},
             ic_init' = IF to \in {"walk", "on", "detach"} THEN ic_init \cup {d} ELSE ic_init \ {d},
             \/ to \in IcWorking /\ core_lock' = d /\ core_lock \in {IcNone, d}
             \/ to \notin IcWorking /\ IcUnlock(d)
             \/ to \notin IcWorking /\ core_lock # d /\ core_lock' = core_lock
      PROVE  IcPlaces'
  <2>1. d \in IcThreads /\ d \notin IcAdapters
    BY I2cCoreAssumption DEF IcThreads
  <2>. QED BY <1>2, <2>1, PlacesGo DEF IcWorking
<1>3. /\ \A t \in IcThreads : core_lock = t => ic_pc[t] \in IcWorking
      /\ \A a \in IcAdapters : ic_pc[a] \in {"walk", "on", "tell", "clients"} => ic_class \cup {a} = ic_class
      /\ \A a \in IcAdapters : ic_pc[a] \in {"off", "numbered"} => ic_class \ {a} = ic_class /\ core_lock # a
      /\ \A d \in IcDrivers : ic_pc[d] # "off" => ic_drv \cup {d} = ic_drv
      /\ \A d \in IcDrivers : ic_pc[d] \in {"walk", "on", "detach"} => ic_init \cup {d} = ic_init
      /\ \A d \in IcDrivers : ic_pc[d] \in {"off", "registered"} => ic_init \ {d} = ic_init /\ core_lock # d
  BY DEF IcPlaces, IcThreads, IcWorking
<1>4. ASSUME NEW a \in IcAdapters,
             IcAllocate(a) \/ IcRegisterAdapter(a) \/ IcRegisterFails(a) \/ IcDelAdapter(a) PROVE IcPlaces'
  <2>1. CASE IcAllocate(a)
    <3>1. IcGo(a, "off", "numbered") /\ UNCHANGED <<ic_class, ic_drv, ic_init, core_lock>> /\ ic_pc[a] = "off"
      BY <2>1 DEF IcAllocate, IcGo
    <3>. QED BY <1>1, <1>3, <3>1 DEF IcWorking
  <2>2. CASE IcRegisterAdapter(a)
    BY <1>1, <1>3, <2>2 DEF IcRegisterAdapter, IcLock, IcWorking
  <2>3. CASE IcRegisterFails(a)
    <3>1. IcGo(a, "numbered", "off") /\ UNCHANGED <<ic_class, ic_drv, ic_init, core_lock>> /\ ic_pc[a] = "numbered"
      BY <2>3 DEF IcRegisterFails, IcGo
    <3>. QED BY <1>1, <1>3, <3>1 DEF IcWorking
  <2>4. CASE IcDelAdapter(a)
    <3>1. /\ IcGo(a, "on", "tell") /\ UNCHANGED <<ic_class, ic_drv, ic_init>> /\ ic_pc[a] = "on"
          /\ core_lock = IcNone /\ core_lock' = a
      BY <2>4 DEF IcDelAdapter, IcLock, IcGo, IcUnregistered
    <3>. QED BY <1>1, <1>3, <3>1 DEF IcWorking
  <2>. QED BY <1>4, <2>1, <2>2, <2>3, <2>4
<1>5. ASSUME NEW a \in IcAdapters, IcAdapterWorks(a) PROVE IcPlaces'
  <2>1. CASE IcAddTo(a)
    BY <1>1, <1>3, <2>1 DEF IcAddTo, IcOffer, IcAfterOffer, IcGo, IcUnregistered, IcWorking
  <2>2. CASE IcOffered(a) \/ IcTellRefused(a) \/ IcClientRefuses(a)
    BY <1>1, <1>3, <2>2 DEF IcOffered, IcTellRefused, IcClientRefuses, IcGo, IcUnregistered, IcWorking
  <2>3. CASE IcTell(a) \/ IcTold(a) \/ IcClientGoes(a)
    <3>1. \E from \in {"tell", "clients"}, to \in {"tell", "clients"} : IcGo(a, from, to) /\ ic_pc[a] = from
      BY <2>3 DEF IcTell, IcTold, IcClientGoes, IcGo
    <3>2. UNCHANGED <<ic_class, ic_drv, ic_init>> /\ core_lock = a /\ core_lock' = a
      BY <2>3 DEF IcTell, IcTold, IcClientGoes, IcUnregistered
    <3>. QED BY <1>1, <1>3, <3>1, <3>2 DEF IcWorking
  <2>4. CASE IcAdapterGone(a)
    BY <1>1, <1>3, <2>4 DEF IcAdapterGone, IcWorking
  <2>. QED BY <1>5, <2>1, <2>2, <2>3, <2>4 DEF IcAdapterWorks
<1>6. ASSUME NEW d \in IcDrivers, IcRegisterDriver(d) \/ IcInitDriver(d) \/ IcDelDriver(d) PROVE IcPlaces'
  <2>1. CASE IcRegisterDriver(d)
    BY <1>2, <1>3, <2>1 DEF IcRegisterDriver, IcGo, IcWorking
  <2>2. CASE IcInitDriver(d)
    BY <1>2, <1>3, <2>2 DEF IcInitDriver, IcLock, IcGo, IcWorking
  <2>3. CASE IcDelDriver(d)
    BY <1>2, <1>3, <2>3 DEF IcDelDriver, IcLock, IcGo, IcUnregistered, IcWorking
  <2>. QED BY <1>6, <2>1, <2>2, <2>3
<1>7. ASSUME NEW d \in IcDrivers, IcDriverWorks(d) PROVE IcPlaces'
  <2>1. CASE IcAttach(d)
    BY <1>2, <1>3, <2>1 DEF IcAttach, IcOffer, IcAfterOffer, IcGo, IcUnregistered, IcWorking
  <2>2. CASE IcOffered(d)
    BY <1>2, <1>3, <2>2 DEF IcOffered, IcGo, IcUnregistered, IcWorking
  <2>3. CASE IcDetach(d)
    BY <1>2, <1>3, <2>3 DEF IcDetach, IcGo, IcUnregistered, IcWorking
  <2>4. CASE IcDriverGone(d)
    BY <1>2, <1>3, <2>4 DEF IcDriverGone, IcWorking
  <2>. QED BY <1>7, <2>1, <2>2, <2>3, <2>4 DEF IcDriverWorks
<1>8. CASE UNCHANGED <<core_lock, ic_pc, ic_class, ic_drv, ic_init>>
  BY <1>8, PlacesKept
<1>9. CASE \/ \E a \in IcAdapters : IcGetAdapter(a)
           \/ \E x \in IcAddrs, d \in IcDrivers \ IcLegacy : IcNewDevice(x, d)
           \/ IcPutAdapter \/ IcUnregisterDevice
           \/ \E c \in DOMAIN ic_dev : IcUseClient(c)
           \/ IcReleaseClient
  BY <1>8, <1>9 DEF IcGetAdapter, IcNewDevice, IcPutAdapter, IcUnregisterDevice, IcUseClient,
                    IcReleaseClient, IcUserKeeps, IcUnregistered
<1>. QED BY <1>4, <1>5, <1>6, <1>7, <1>8, <1>9 DEF IcNext, icVars

(* An adapter and a driver that have both begun have met, or will by the   *)
(* end of the loop that one of them is in.                                 *)
IcOffers ==
  \A a \in ic_class, d \in ic_init :
    \/ <<a, d>> \in ic_offered
    \/ ic_pc[a] = "walk" /\ d \notin ic_seen
    \/ ic_pc[d] = "walk" /\ a \notin ic_seen

LEMMA IcWent ==
  ASSUME IcPlaces, NEW t \in IcThreads, NEW from, NEW to, IcGo(t, from, to)
  PROVE  /\ ~ ic_oops /\ ic_pc[t] = from /\ ic_pc'[t] = to
         /\ \A u \in IcThreads \ {t} : ic_pc'[u] = ic_pc[u]
BY DEF IcGo, IcPlaces

(* Nobody is in a loop but the thread that holds the lock.                 *)
LEMMA IcAlone ==
  ASSUME IcPlaces
  PROVE  /\ IcAdapters \subseteq IcThreads /\ IcDrivers \subseteq IcThreads /\ ic_init \subseteq ic_drv
         /\ \A t \in IcThreads : ic_pc[t] \in IcWorking <=> core_lock = t
         /\ IcNone \notin IcThreads /\ \A a \in IcAdapters, d \in IcDrivers : a # d
         /\ ic_class \subseteq IcAdapters /\ ic_drv \subseteq IcDrivers
<1>1. \A d \in ic_init : d \in IcDrivers => d \in ic_drv
  BY DEF IcPlaces
<1>. QED BY <1>1, I2cCoreAssumption, I2cNamesAssumption DEF IcPlaces, IcThreads

LEMMA OffersInit == IcInit => IcOffers
BY DEF IcInit, IcOffers

LEMMA OffersNext == IcPlaces /\ IcOffers /\ [IcNext]_icVars => IcOffers'
<1>. SUFFICES ASSUME IcPlaces, IcOffers, [IcNext]_icVars PROVE IcOffers'
  OBVIOUS
<1>1. ASSUME core_lock = IcNone
      PROVE  \A a \in ic_class, d \in ic_init : <<a, d>> \in ic_offered
  BY <1>1, IcAlone DEF IcOffers, IcWorking
(* Whoever is not in a walk, or does not change what is claimed.           *)
<1>2. ASSUME NEW t \in IcThreads, NEW from, NEW to, IcGo(t, from, to), to # "walk",
             \/ core_lock = IcNone
             \/ core_lock = t /\ from # "walk",
             UNCHANGED <<ic_class, ic_init, ic_offered>>
      PROVE  IcOffers'
  <2>1. \A a \in ic_class, d \in ic_init : <<a, d>> \in ic_offered
    BY <1>1, <1>2, IcAlone, IcWent DEF IcOffers, IcWorking
  <2>. QED BY <1>2, <2>1 DEF IcOffers
<1>3. CASE UNCHANGED <<ic_pc, ic_class, ic_init, ic_offered, ic_seen>>
  BY <1>3 DEF IcOffers
<1>4. ASSUME NEW a \in IcAdapters,
             IcAllocate(a) \/ IcRegisterAdapter(a) \/ IcRegisterFails(a) \/ IcDelAdapter(a) PROVE IcOffers'
  <2>1. CASE IcAllocate(a)
    <3>1. /\ a \in IcThreads /\ IcGo(a, "off", "numbered") /\ core_lock = IcNone
          /\ UNCHANGED <<ic_class, ic_init, ic_offered>>
      BY <2>1, IcAlone DEF IcAllocate, IcUnregistered
    <3>. QED BY <1>2, <3>1
  <2>2. CASE IcRegisterAdapter(a)
    <3>1. IcGo(a, "numbered", "walk") /\ core_lock = IcNone /\ ic_seen' = {}
          /\ ic_class' = ic_class \cup {a} /\ UNCHANGED <<ic_init, ic_offered>>
      BY <2>2 DEF IcRegisterAdapter, IcLock
    <3>2. ic_pc'[a] = "walk" /\ a \in IcThreads
      BY <3>1, IcWent, IcAlone
    <3>3. \A b \in ic_class, d \in ic_init : <<b, d>> \in ic_offered'
      BY <1>1, <3>1
    <3>. QED BY <3>1, <3>2, <3>3 DEF IcOffers
  <2>3. CASE IcRegisterFails(a)
    <3>1. /\ a \in IcThreads /\ IcGo(a, "numbered", "off") /\ core_lock = IcNone
          /\ UNCHANGED <<ic_class, ic_init, ic_offered>>
      BY <2>3, IcAlone DEF IcRegisterFails
    <3>. QED BY <1>2, <3>1
  <2>4. CASE IcDelAdapter(a)
    <3>1. /\ a \in IcThreads /\ IcGo(a, "on", "tell") /\ core_lock = IcNone
          /\ UNCHANGED <<ic_class, ic_init, ic_offered>>
      BY <2>4, IcAlone DEF IcDelAdapter, IcLock, IcUnregistered
    <3>. QED BY <1>2, <3>1
  <2>. QED BY <1>4, <2>1, <2>2, <2>3, <2>4
<1>5. ASSUME NEW t \in IcThreads, IcOffered(t) PROVE IcOffers'
  <2>1. /\ IcGo(t, "walk", "on") /\ core_lock = t
        /\ (IF t \in IcAdapters THEN ic_drv ELSE ic_class) \subseteq ic_seen
        /\ UNCHANGED <<ic_class, ic_init, ic_offered>>
    BY <1>5 DEF IcOffered, IcUnlock, IcUnregistered
  <2>2. \A a \in ic_class, d \in ic_init : <<a, d>> \in ic_offered
    BY <2>1, IcAlone DEF IcOffers, IcWorking
  <2>. QED BY <2>1, <2>2 DEF IcOffers
<1>6. ASSUME NEW a \in IcAdapters, IcAdapterWorks(a) PROVE IcOffers'
  <2>1. CASE IcAddTo(a)
    <3>1. PICK d \in ic_drv : IcOffer(a, a, d) /\ ic_seen' = ic_seen \cup {d}
      BY <2>1 DEF IcAddTo
    <3>2. /\ IcGo(a, "walk", "walk") /\ core_lock = a /\ ic_offered' = ic_offered \cup {<<a, d>>}
          /\ UNCHANGED <<ic_class, ic_init>>
      BY <3>1 DEF IcOffer, IcAfterOffer, IcUnregistered
    <3>3. \A t \in ic_class \cup ic_init : ic_pc[t] = "walk" => t = a
      BY <3>2, IcAlone DEF IcWorking
    <3>4. UNCHANGED ic_pc
      BY <3>2, IcAlone DEF IcGo, IcPlaces
    <3>5. ASSUME NEW b \in ic_class, NEW e \in ic_init PROVE b # e /\ e \in IcDrivers /\ b \in IcAdapters
      BY IcAlone
    <3>. QED BY <3>1, <3>2, <3>3, <3>4, <3>5, IcAlone DEF IcOffers
  <2>2. CASE IcTell(a)
    <3>1. /\ a \in IcThreads /\ IcGo(a, "tell", "tell") /\ core_lock = a
          /\ UNCHANGED <<ic_class, ic_init, ic_offered>>
      BY <2>2, IcAlone DEF IcTell, IcUnregistered
    <3>. QED BY <1>2, <3>1
  <2>3. CASE IcTellRefused(a)
    <3>1. /\ a \in IcThreads /\ IcGo(a, "tell", "on") /\ core_lock = a
          /\ UNCHANGED <<ic_class, ic_init, ic_offered>>
      BY <2>3, IcAlone DEF IcTellRefused, IcUnlock, IcUnregistered
    <3>. QED BY <1>2, <3>1
  <2>4. CASE IcTold(a)
    <3>1. /\ a \in IcThreads /\ IcGo(a, "tell", "clients") /\ core_lock = a
          /\ UNCHANGED <<ic_class, ic_init, ic_offered>>
      BY <2>4, IcAlone DEF IcTold, IcUnregistered
    <3>. QED BY <1>2, <3>1
  <2>5. CASE IcClientGoes(a)
    <3>1. /\ a \in IcThreads /\ IcGo(a, "clients", "clients") /\ core_lock = a
          /\ UNCHANGED <<ic_class, ic_init, ic_offered>>
      BY <2>5, IcAlone DEF IcClientGoes, IcUnregistered
    <3>. QED BY <1>2, <3>1
  <2>6. CASE IcClientRefuses(a)
    <3>1. /\ a \in IcThreads /\ IcGo(a, "clients", "on") /\ core_lock = a
          /\ UNCHANGED <<ic_class, ic_init, ic_offered>>
      BY <2>6, IcAlone DEF IcClientRefuses, IcUnlock, IcUnregistered
    <3>. QED BY <1>2, <3>1
  <2>7. CASE IcAdapterGone(a)
    <3>1. /\ a \in IcThreads /\ IcGo(a, "clients", "off") /\ core_lock = a
          /\ ic_class' = ic_class \ {a} /\ ic_init' = ic_init
          /\ ic_offered' = {p \in ic_offered : p[1] # a}
      BY <2>7, IcAlone DEF IcAdapterGone, IcUnlock
    <3>0. \A t \in IcThreads : ic_pc[t] # "walk"
      BY <3>1, IcAlone, IcWent DEF IcWorking
    <3>2. \A b \in ic_class', d \in ic_init' : <<b, d>> \in ic_offered
      BY <3>0, <3>1, IcAlone DEF IcOffers
    <3>3. \A b \in ic_class', d \in ic_init' : <<b, d>> \in ic_offered'
      BY <3>1, <3>2
    <3>. QED BY <3>3 DEF IcOffers
  <2>. QED BY <1>5, <1>6, <2>1, <2>2, <2>3, <2>4, <2>5, <2>6, <2>7, IcAlone DEF IcAdapterWorks
<1>7. ASSUME NEW d \in IcDrivers, IcRegisterDriver(d) \/ IcInitDriver(d) \/ IcDelDriver(d) PROVE IcOffers'
  <2>1. CASE IcRegisterDriver(d)
    <3>1. IcGo(d, "off", "registered") /\ UNCHANGED <<ic_class, ic_init, ic_offered, ic_seen>>
      BY <2>1 DEF IcRegisterDriver
    <3>2. ic_pc[d] = "off" /\ \A t \in IcThreads \ {d} : ic_pc'[t] = ic_pc[t]
      BY <3>1, IcWent, IcAlone
    <3>3. d \notin ic_init /\ d \notin ic_class
      BY <3>2, IcAlone DEF IcPlaces
    <3>. QED BY <3>1, <3>2, <3>3, IcAlone DEF IcOffers
  <2>2. CASE IcInitDriver(d)
    <3>1. IcGo(d, "registered", "walk") /\ core_lock = IcNone /\ ic_seen' = {}
          /\ ic_init' = ic_init \cup {d} /\ UNCHANGED <<ic_class, ic_offered>>
      BY <2>2 DEF IcInitDriver, IcLock
    <3>2. ic_pc'[d] = "walk" /\ d \in IcThreads
      BY <3>1, IcWent, IcAlone
    <3>3. \A a \in ic_class, e \in ic_init : <<a, e>> \in ic_offered'
      BY <1>1, <3>1
    <3>. QED BY <3>1, <3>2, <3>3 DEF IcOffers
  <2>3. CASE IcDelDriver(d)
    <3>1. /\ d \in IcThreads /\ IcGo(d, "on", "detach") /\ core_lock = IcNone
          /\ UNCHANGED <<ic_class, ic_init, ic_offered>>
      BY <2>3, IcAlone DEF IcDelDriver, IcLock, IcUnregistered
    <3>. QED BY <1>2, <3>1
  <2>. QED BY <1>7, <2>1, <2>2, <2>3
<1>8. ASSUME NEW d \in IcDrivers, IcDriverWorks(d) PROVE IcOffers'
  <2>1. CASE IcAttach(d)
    <3>1. PICK a \in ic_class : IcOffer(d, a, d) /\ ic_seen' = ic_seen \cup {a}
      BY <2>1 DEF IcAttach
    <3>2. /\ IcGo(d, "walk", "walk") /\ core_lock = d /\ ic_offered' = ic_offered \cup {<<a, d>>}
          /\ UNCHANGED <<ic_class, ic_init>>
      BY <3>1 DEF IcOffer, IcAfterOffer, IcUnregistered
    <3>3. \A t \in ic_class \cup ic_init : ic_pc[t] = "walk" => t = d
      BY <3>2, IcAlone DEF IcWorking
    <3>4. UNCHANGED ic_pc
      BY <3>2, IcAlone DEF IcGo, IcPlaces
    <3>5. ASSUME NEW b \in ic_class, NEW e \in ic_init PROVE b # e /\ e \in IcDrivers /\ b \in IcAdapters
      BY IcAlone
    <3>. QED BY <3>1, <3>2, <3>3, <3>4, <3>5, IcAlone DEF IcOffers
  <2>2. CASE IcDetach(d)
    <3>1. /\ d \in IcThreads /\ IcGo(d, "detach", "detach") /\ core_lock = d
          /\ UNCHANGED <<ic_class, ic_init, ic_offered>>
      BY <2>2, IcAlone DEF IcDetach, IcUnregistered
    <3>. QED BY <1>2, <3>1
  <2>3. CASE IcDriverGone(d)
    <3>1. /\ d \in IcThreads /\ IcGo(d, "detach", "off") /\ core_lock = d
          /\ ic_init' = ic_init \ {d} /\ ic_class' = ic_class
          /\ ic_offered' = {p \in ic_offered : p[2] # d}
      BY <2>3, IcAlone DEF IcDriverGone, IcUnlock
    <3>2. \A a \in ic_class', e \in ic_init' : <<a, e>> \in ic_offered
      BY <3>1, IcAlone, IcWent DEF IcOffers, IcWorking
    <3>3. \A a \in ic_class', e \in ic_init' : <<a, e>> \in ic_offered'
      BY <3>1, <3>2
    <3>. QED BY <3>3 DEF IcOffers
  <2>. QED BY <1>5, <1>8, <2>1, <2>2, <2>3, IcAlone DEF IcDriverWorks
<1>9. CASE \/ \E a \in IcAdapters : IcGetAdapter(a)
           \/ \E x \in IcAddrs, d \in IcDrivers \ IcLegacy : IcNewDevice(x, d)
           \/ IcPutAdapter \/ IcUnregisterDevice
           \/ \E c \in DOMAIN ic_dev : IcUseClient(c)
           \/ IcReleaseClient
  BY <1>3, <1>9 DEF IcGetAdapter, IcNewDevice, IcPutAdapter, IcUnregisterDevice, IcUseClient,
                    IcReleaseClient, IcUserKeeps, IcUnregistered
<1>. QED BY <1>3, <1>4, <1>6, <1>7, <1>8, <1>9 DEF IcNext, icVars

(* Whichever comes first, a driver and an adapter whose calls have         *)
(* returned have met, for any adapters and drivers in any order.           *)
THEOREM EveryPairMeets == IcSpec => []EveryPairOffered
<1>1. IcPlaces /\ IcOffers => EveryPairOffered
  BY IcAlone DEF IcPlaces, IcOffers, EveryPairOffered
<1>. QED BY <1>1, PlacesInit, PlacesNext, OffersInit, OffersNext, PTL DEF IcSpec

(* The devices: who made one has the driver its type is for, and nobody    *)
(* else is bound to it; its driver is on the bus, its adapter in the class.*)
IcDevs == [for : IcDrivers, by : IcDrivers \cup {IcNone}, driver : IcDrivers \cup {IcNone, IcLost}]
IcMade ==
  \A c \in DOMAIN ic_dev :
    /\ c \in IcAdapters \X IcAddrs /\ ic_dev[c] \in IcDevs
    /\ ic_dev[c].by # IcNone => ic_dev[c].for = ic_dev[c].by /\ ic_dev[c].driver \in {ic_dev[c].by, IcNone}
    /\ ic_dev[c].driver \in ic_drv \cup {IcNone, IcLost}
    /\ ~ ic_oops => c[1] \in ic_class

(* New devices.                                                            *)
LEMMA MakeMade ==
  ASSUME IcMade, ~ ic_oops, NEW types, NEW by \in IcDrivers \cup {IcNone}, NEW probed \in BOOLEAN,
         ic_dev' = IcMake(types, by, probed), UNCHANGED ic_drv, ic_class \subseteq ic_class',
         DOMAIN types \subseteq IcAdapters \X IcAddrs,
         \A c \in DOMAIN types :
           /\ types[c] \in IcDrivers
           /\ types[c] \in IcLegacy => types[c] \in ic_drv
           /\ by # IcNone => by = types[c]
           /\ ic_oops' \/ c[1] \in ic_class'
  PROVE  /\ IcMade'
         /\ DOMAIN ic_dev' = DOMAIN ic_dev \cup DOMAIN types
         /\ \A c \in DOMAIN ic_dev : ic_dev'[c] = ic_dev[c]
         /\ \A c \in DOMAIN types \ DOMAIN ic_dev : ic_dev'[c].by = by
<1>1. /\ DOMAIN ic_dev' = DOMAIN ic_dev \cup DOMAIN types
      /\ \A c \in DOMAIN ic_dev : ic_dev'[c] = ic_dev[c]
      /\ \A c \in DOMAIN types \ DOMAIN ic_dev :
           ic_dev'[c] = [for |-> types[c], by |-> by, driver |-> IcBound(types[c], probed)]
  BY DEF IcMake
<1>2. ASSUME NEW c \in DOMAIN types \ DOMAIN ic_dev
      PROVE  /\ ic_dev'[c] \in IcDevs /\ ic_dev'[c].by = by /\ ic_dev'[c].for = types[c]
             /\ ic_dev'[c].driver \in {types[c], IcNone} /\ ic_dev'[c].driver \in ic_drv \cup {IcNone}
  <2>1. IcBound(types[c], probed) \in {types[c], IcNone} /\ IcBound(types[c], probed) \in ic_drv \cup {IcNone}
    BY DEF IcBound
  <2>2. types[c] \in IcDrivers /\ IcBound(types[c], probed) \in IcDrivers \cup {IcNone, IcLost}
    BY <2>1
  <2>. QED BY <1>1, <2>1, <2>2 DEF IcDevs
<1>. QED BY <1>1, <1>2 DEF IcMade

(* Devices go.                                                             *)
LEMMA DropMade ==
  ASSUME IcMade, ~ ic_oops, NEW gone, ic_dev' = IcDrop(gone), UNCHANGED <<ic_drv, ic_class>>
  PROVE  /\ IcMade'
         /\ DOMAIN ic_dev' = DOMAIN ic_dev \ gone
         /\ \A c \in DOMAIN ic_dev' : ic_dev'[c] = ic_dev[c]
BY DEF IcMade, IcDrop

LEMMA MadeKept ==
  ASSUME IcMade, ~ ic_oops, UNCHANGED <<ic_dev, ic_drv>>, ic_class \subseteq ic_class'
  PROVE  IcMade'
BY DEF IcMade

-----------------------------------------------------------------------------
(* While an adapter's clients go, nothing of the next loop is seen; and    *)
(* the user holds adapters that are not being deleted, or not yet known.   *)
IcUserIn ==
  /\ ic_user \in [adapter : SUBSET IcAdapters, dev : SUBSET (IcAdapters \X IcAddrs),
                  uses : SUBSET (IcAdapters \X IcAddrs)]
  /\ \A a \in ic_user.adapter : ic_pc[a] \notin {"tell", "clients"}
  /\ \A a \in IcAdapters : ic_pc[a] = "clients" => ic_seen = {}

LEMMA UserInInit == IcInit => IcUserIn
BY DEF IcInit, IcUserIn, IcNobody, IcThreads

LEMMA UserInNext == IcPlaces /\ IcMade /\ IcUserIn /\ [IcNext]_icVars => IcUserIn'
<1>. SUFFICES ASSUME IcPlaces, IcMade, IcUserIn, [IcNext]_icVars PROVE IcUserIn'
  OBVIOUS
<1>1. ASSUME UNCHANGED ic_user, NEW t \in IcThreads, NEW from, NEW to, IcGo(t, from, to),
             to \in {"tell", "clients"} => from \in {"tell", "clients"} \/ t \notin ic_user.adapter,
             to = "clients" => ic_seen' = {},
             UNCHANGED ic_seen \/ core_lock \in {IcNone, t}
      PROVE  IcUserIn'
  <2>1. \A a \in ic_user.adapter : ic_pc'[a] \notin {"tell", "clients"}
    BY <1>1, IcWent, IcAlone DEF IcUserIn
  <2>2. ASSUME NEW a \in IcAdapters, ic_pc'[a] = "clients" PROVE ic_seen' = {}
    <3>1. CASE a # t
      <4>1. ic_pc[a] = "clients" /\ ic_seen = {}
        BY <1>1, <2>2, <3>1, IcWent, IcAlone DEF IcUserIn
      <4>2. core_lock = a
        BY <4>1, IcAlone DEF IcWorking
      <4>. QED BY <1>1, <3>1, <4>1, <4>2, IcAlone
    <3>. QED BY <1>1, <2>2, <3>1, IcWent
  <2>. QED BY <1>1, <2>1, <2>2 DEF IcUserIn
<1>2. CASE UNCHANGED <<ic_user, ic_pc, ic_seen>>
  BY <1>2 DEF IcUserIn
<1>3. ASSUME NEW a \in IcAdapters,
             IcAllocate(a) \/ IcRegisterAdapter(a) \/ IcRegisterFails(a) \/ IcDelAdapter(a) PROVE IcUserIn'
  <2>1. CASE IcAllocate(a)
    BY <1>1, <2>1, IcAlone DEF IcAllocate, IcUser
  <2>2. CASE IcRegisterAdapter(a)
    BY <1>1, <2>2, IcAlone DEF IcRegisterAdapter, IcUser, IcNoCall, IcLock
  <2>3. CASE IcRegisterFails(a)
    BY <1>1, <2>3, IcAlone DEF IcRegisterFails, IcUser, IcNoCall
  <2>4. CASE IcDelAdapter(a)
    BY <1>1, <2>4, IcAlone DEF IcDelAdapter, IcUser, IcLock
  <2>. QED BY <1>3, <2>1, <2>2, <2>3, <2>4
<1>4. ASSUME NEW t \in IcThreads, IcOffered(t) PROVE IcUserIn'
  BY <1>1, <1>4 DEF IcOffered, IcUser, IcNoCall
<1>5. ASSUME NEW a \in IcAdapters, IcAdapterWorks(a) PROVE IcUserIn'
  <2>1. CASE IcAddTo(a)
    BY <1>1, <2>1, IcAlone DEF IcAddTo, IcOffer, IcAfterOffer, IcUser, IcNoCall
  <2>2. CASE IcTell(a)
    BY <1>1, <2>2, IcAlone DEF IcTell, IcUser, IcNoCall
  <2>3. CASE IcTellRefused(a) \/ IcClientRefuses(a)
    BY <1>1, <2>3, IcAlone DEF IcTellRefused, IcClientRefuses, IcUser, IcNoCall
  <2>4. CASE IcTold(a)
    BY <1>1, <2>4, IcAlone DEF IcTold, IcUser, IcNoCall
  <2>5. CASE IcClientGoes(a)
    <3>1. ic_pc[a] = "clients"
      BY <2>5 DEF IcClientGoes, IcGo
    <3>. QED BY <1>1, <2>5, <3>1, IcAlone DEF IcClientGoes, IcUser, IcNoCall, IcUserIn
  <2>6. CASE IcAdapterGone(a)
    BY <1>1, <2>6, IcAlone DEF IcAdapterGone, IcUser, IcNoCall
  <2>. QED BY <1>4, <1>5, <2>1, <2>2, <2>3, <2>4, <2>5, <2>6, IcAlone DEF IcAdapterWorks
<1>6. ASSUME NEW d \in IcDrivers, IcRegisterDriver(d) \/ IcInitDriver(d) \/ IcDelDriver(d) PROVE IcUserIn'
  <2>1. CASE IcRegisterDriver(d)
    BY <1>1, <2>1, IcAlone DEF IcRegisterDriver, IcUser
  <2>2. CASE IcInitDriver(d)
    BY <1>1, <2>2, IcAlone DEF IcInitDriver, IcUser, IcNoCall, IcLock
  <2>3. CASE IcDelDriver(d)
    BY <1>1, <2>3, IcAlone DEF IcDelDriver, IcUser, IcLock
  <2>. QED BY <1>6, <2>1, <2>2, <2>3
<1>7. ASSUME NEW d \in IcDrivers, IcDriverWorks(d) PROVE IcUserIn'
  <2>1. CASE IcAttach(d)
    BY <1>1, <2>1, IcAlone DEF IcAttach, IcOffer, IcAfterOffer, IcUser, IcNoCall
  <2>2. CASE IcDetach(d)
    BY <1>1, <2>2, IcAlone DEF IcDetach, IcUser, IcNoCall
  <2>3. CASE IcDriverGone(d)
    BY <1>1, <2>3, IcAlone DEF IcDriverGone, IcUser, IcNoCall
  <2>. QED BY <1>4, <1>7, <2>1, <2>2, <2>3, IcAlone DEF IcDriverWorks
<1>8. ASSUME NEW a \in IcAdapters, IcGetAdapter(a) PROVE IcUserIn'
  <2>1. core_lock = IcNone /\ UNCHANGED <<ic_pc, ic_seen>> /\ ic_user' = [ic_user EXCEPT !.adapter = {a}]
    BY <1>8 DEF IcGetAdapter, IcUserKeeps
  <2>2. ic_pc[a] \notin {"tell", "clients"}
    BY <2>1, IcAlone DEF IcWorking
  <2>. QED BY <2>1, <2>2 DEF IcUserIn
<1>9. CASE \/ \E x \in IcAddrs, d \in IcDrivers \ IcLegacy : IcNewDevice(x, d)
           \/ IcPutAdapter \/ IcUnregisterDevice
           \/ \E c \in DOMAIN ic_dev : IcUseClient(c)
           \/ IcReleaseClient
  <2>1. UNCHANGED <<ic_pc, ic_seen>>
    BY <1>9 DEF IcNewDevice, IcPutAdapter, IcUnregisterDevice, IcUseClient, IcReleaseClient, IcUserKeeps
  <2>2. \/ ic_user' = [ic_user EXCEPT !.adapter = {}]
        \/ \E cs \in SUBSET (IcAdapters \X IcAddrs) :
             ic_user' = [ic_user EXCEPT !.dev = cs] \/ ic_user' = [ic_user EXCEPT !.uses = cs]
    <3>1. \A x \in IcAddrs : ic_user.adapter \X {x} \in SUBSET (IcAdapters \X IcAddrs)
      BY DEF IcUserIn
    <3>2. \A c \in DOMAIN ic_dev : {c} \in SUBSET (IcAdapters \X IcAddrs)
      BY DEF IcMade
    <3>. QED BY <1>9, <3>1, <3>2
             DEF IcNewDevice, IcPutAdapter, IcUnregisterDevice, IcUseClient, IcReleaseClient
  <2>. QED BY <2>1, <2>2 DEF IcUserIn
<1>. QED BY <1>2, <1>3, <1>5, <1>6, <1>7, <1>8, <1>9 DEF IcNext, icVars

(* Every step keeps the devices.                                           *)
LEMMA MadeInit == IcInit => IcMade
BY DEF IcInit, IcMade

LEMMA MadeNext == IcPlaces /\ IcMade /\ IcUserIn /\ [IcNext]_icVars => IcMade'
<1>. SUFFICES ASSUME IcPlaces, IcMade, IcUserIn, [IcNext]_icVars PROVE IcMade'
  OBVIOUS
<1>1. ASSUME NEW a \in IcAdapters,
             IcAllocate(a) \/ IcRegisterAdapter(a) \/ IcRegisterFails(a) \/ IcDelAdapter(a) PROVE IcMade'
  <2>1. CASE IcAllocate(a) \/ IcRegisterFails(a) \/ IcDelAdapter(a)
    BY <2>1, MadeKept DEF IcAllocate, IcRegisterFails, IcDelAdapter, IcGo, IcDevices, IcUnregistered
  <2>2. CASE IcRegisterAdapter(a)
    <3>. DEFINE types == [c \in {b \in DOMAIN IcBoard : b[1] = a} |-> IcBoard[c]]
    <3>1. PICK probed \in BOOLEAN : ic_dev' = IcMake(types, IcNone, probed)
      BY <2>2 DEF IcRegisterAdapter
    <3>2. ~ ic_oops /\ ic_class' = ic_class \cup {a} /\ UNCHANGED ic_drv
      BY <2>2 DEF IcRegisterAdapter, IcGo
    <3>3. /\ DOMAIN types \subseteq IcAdapters \X IcAddrs
          /\ \A c \in DOMAIN types : types[c] \in IcDrivers \ IcLegacy /\ c[1] = a
      BY I2cCoreAssumption
    <3>. HIDE DEF types
    <3>. QED BY <3>1, <3>2, <3>3, MakeMade
  <2>. QED BY <1>1, <2>1, <2>2
<1>2. ASSUME NEW t \in IcThreads, IcOffered(t) PROVE IcMade'
  BY <1>2, MadeKept DEF IcOffered, IcGo, IcDevices, IcUnregistered
<1>3. ASSUME NEW t \in IcThreads, NEW a \in ic_class, NEW d \in ic_drv, IcOffer(t, a, d) PROVE IcMade'
  <2>0. /\ ~ ic_oops /\ UNCHANGED <<ic_class, ic_drv>> /\ a \in IcAdapters /\ d \in IcDrivers
    BY <1>3, IcAlone DEF IcOffer, IcAfterOffer, IcGo, IcUnregistered
  <2>1. PICK found \in SUBSET IcAddrs, probed \in BOOLEAN :
          ic_dev' = IcMake([c \in IcFree(a, found) |-> d], d, probed)
    BY <1>3 DEF IcOffer, IcDetect, IcProbe
  <2>2. IcFree(a, found) \subseteq IcAdapters \X IcAddrs /\ \A c \in IcFree(a, found) : c[1] = a
    BY <2>0 DEF IcFree
  <2>. DEFINE types == [c \in IcFree(a, found) |-> d]
  <2>3. DOMAIN types = IcFree(a, found) /\ \A c \in DOMAIN types : types[c] = d
    OBVIOUS
  <2>. HIDE DEF types
  <2>4. ic_dev' = IcMake(types, d, probed)
    BY <2>1 DEF types
  <2>. QED BY <2>0, <2>2, <2>3, <2>4, MakeMade
<1>4. ASSUME NEW a \in IcAdapters, IcAdapterWorks(a) PROVE IcMade'
  <2>1. CASE IcAddTo(a)
    <3>1. core_lock = a /\ ic_pc[a] = "walk"
      BY <2>1 DEF IcAddTo, IcOffer, IcAfterOffer, IcGo
    <3>2. a \in ic_class
      BY <3>1 DEF IcPlaces
    <3>. QED BY <1>3, <2>1, <3>2, IcAlone DEF IcAddTo
  <2>2. CASE IcTell(a) \/ IcClientGoes(a)
    <3>1. ~ ic_oops /\ UNCHANGED <<ic_drv, ic_class>> /\ \E gone : ic_dev' = IcDrop(gone)
      BY <2>2 DEF IcTell, IcClientGoes, IcGo, IcUnregistered
    <3>. QED BY <3>1, DropMade
  <2>3. CASE IcTellRefused(a) \/ IcTold(a) \/ IcClientRefuses(a)
    BY <2>3, MadeKept DEF IcTellRefused, IcTold, IcClientRefuses, IcGo, IcDevices, IcUnregistered
  <2>4. CASE IcAdapterGone(a)
    <3>1. /\ ~ ic_oops /\ UNCHANGED <<ic_drv, ic_dev, ic_oops>> /\ ic_class' = ic_class \ {a}
          /\ IcAt(a) \subseteq ic_seen
      BY <2>4 DEF IcAdapterGone, IcGo, IcDevices
    <3>2. IcAt(a) = {}
      BY <2>4, <3>1 DEF IcAdapterGone, IcGo, IcUserIn
    <3>. QED BY <3>1, <3>2 DEF IcMade, IcAt
  <2>. QED BY <1>2, <1>4, <2>1, <2>2, <2>3, <2>4, IcAlone DEF IcAdapterWorks
<1>5. ASSUME NEW d \in IcDrivers, IcRegisterDriver(d) \/ IcInitDriver(d) \/ IcDelDriver(d) PROVE IcMade'
  <2>1. CASE IcRegisterDriver(d)
    <3>1. /\ ~ ic_oops /\ ic_drv' = ic_drv \cup {d} /\ UNCHANGED <<ic_class, ic_oops>>
          /\ DOMAIN ic_dev' = DOMAIN ic_dev
          /\ \A c \in DOMAIN ic_dev :
               \/ ic_dev'[c] = ic_dev[c]
               \/ ic_dev[c].for = d /\ ic_dev'[c] = [ic_dev[c] EXCEPT !.driver = d]
      BY <2>1 DEF IcRegisterDriver, IcGo
    <3>2. ASSUME NEW v \in IcDevs
          PROVE  LET w == [v EXCEPT !.driver = d]
                 IN w \in IcDevs /\ w.for = v.for /\ w.by = v.by /\ w.driver = d
      BY DEF IcDevs
    <3>3. ASSUME NEW c \in DOMAIN ic_dev
          PROVE  /\ ic_dev'[c] \in IcDevs
                 /\ ic_dev'[c].by # IcNone => ic_dev'[c].for = ic_dev'[c].by /\ ic_dev'[c].driver \in {ic_dev'[c].by, IcNone}
                 /\ ic_dev'[c].driver \in ic_drv' \cup {IcNone, IcLost}
      <4>1. CASE ic_dev'[c] = ic_dev[c]
        BY <3>1, <4>1 DEF IcMade
      <4>2. CASE ic_dev[c].for = d /\ ic_dev'[c] = [ic_dev[c] EXCEPT !.driver = d]
        <5>1. ic_dev[c] \in IcDevs
          BY DEF IcMade
        <5>2. ic_dev'[c] \in IcDevs /\ ic_dev'[c].for = d /\ ic_dev'[c].by = ic_dev[c].by /\ ic_dev'[c].driver = d
          BY <3>2, <4>2, <5>1
        <5>. QED BY <3>1, <4>2, <5>2 DEF IcMade
      <4>. QED BY <3>1, <4>1, <4>2
    <3>. QED BY <3>1, <3>3 DEF IcMade
  <2>2. CASE IcInitDriver(d) \/ IcDelDriver(d)
    BY <2>2, MadeKept DEF IcInitDriver, IcDelDriver, IcGo, IcDevices, IcUnregistered
  <2>. QED BY <1>5, <2>1, <2>2
<1>6. ASSUME NEW d \in IcDrivers, IcDriverWorks(d) PROVE IcMade'
  <2>1. CASE IcAttach(d)
    <3>1. core_lock = d /\ ic_pc[d] = "walk"
      BY <2>1 DEF IcAttach, IcOffer, IcAfterOffer, IcGo
    <3>2. d \in ic_drv
      BY <3>1 DEF IcPlaces
    <3>. QED BY <1>3, <2>1, <3>2, IcAlone DEF IcAttach
  <2>2. CASE IcDetach(d)
    <3>1. ~ ic_oops /\ UNCHANGED <<ic_drv, ic_class>> /\ \E gone : ic_dev' = IcDrop(gone)
      BY <2>2 DEF IcDetach, IcGo, IcUnregistered
    <3>. QED BY <3>1, DropMade
  <2>3. CASE IcDriverGone(d)
    <3>1. /\ ~ ic_oops /\ ic_drv' = ic_drv \ {d} /\ UNCHANGED <<ic_class, ic_oops>>
          /\ DOMAIN ic_dev' = DOMAIN ic_dev
          /\ \A c \in DOMAIN ic_dev :
               \/ ic_dev[c].driver # d /\ ic_dev'[c] = ic_dev[c]
               \/ \E x \in {IcNone, IcLost} : ic_dev'[c] = [ic_dev[c] EXCEPT !.by = IcNone, !.driver = x]
      BY <2>3 DEF IcDriverGone, IcGo, IcUnbind
    <3>2. ASSUME NEW v \in IcDevs, NEW x \in {IcNone, IcLost}
          PROVE  LET w == [v EXCEPT !.by = IcNone, !.driver = x]
                 IN w \in IcDevs /\ w.by = IcNone /\ w.driver = x
      BY DEF IcDevs
    <3>3. ASSUME NEW c \in DOMAIN ic_dev
          PROVE  /\ ic_dev'[c] \in IcDevs
                 /\ ic_dev'[c].by # IcNone => ic_dev'[c].for = ic_dev'[c].by /\ ic_dev'[c].driver \in {ic_dev'[c].by, IcNone}
                 /\ ic_dev'[c].driver \in ic_drv' \cup {IcNone, IcLost}
      <4>1. CASE ic_dev[c].driver # d /\ ic_dev'[c] = ic_dev[c]
        BY <3>1, <4>1 DEF IcMade
      <4>2. ASSUME NEW x \in {IcNone, IcLost}, ic_dev'[c] = [ic_dev[c] EXCEPT !.by = IcNone, !.driver = x]
            PROVE  ic_dev'[c] \in IcDevs /\ ic_dev'[c].by = IcNone /\ ic_dev'[c].driver = x
        <5>1. ic_dev[c] \in IcDevs
          BY DEF IcMade
        <5>. QED BY <3>2, <4>2, <5>1
      <4>. QED BY <3>1, <4>1, <4>2
    <3>. QED BY <3>1, <3>3 DEF IcMade
  <2>. QED BY <1>2, <1>6, <2>1, <2>2, <2>3, IcAlone DEF IcDriverWorks
<1>7. CASE \/ \E a \in IcAdapters : IcGetAdapter(a)
           \/ IcPutAdapter \/ \E c \in DOMAIN ic_dev : IcUseClient(c)
           \/ IcReleaseClient
  BY <1>7, MadeKept DEF IcGetAdapter, IcPutAdapter, IcUseClient, IcReleaseClient, IcUserKeeps, IcUnregistered
<1>8. ASSUME NEW x \in IcAddrs, NEW d \in IcDrivers \ IcLegacy, IcNewDevice(x, d) PROVE IcMade'
  <2>1. /\ ~ ic_oops /\ UNCHANGED <<ic_class, ic_drv>>
        /\ ic_oops' = ~ (ic_user.adapter \subseteq ic_class)
    BY <1>8 DEF IcNewDevice, IcUserKeeps, IcUnregistered
  <2>. DEFINE new == ic_user.adapter \X {x} types == [c \in new |-> d]
  <2>2. PICK probed \in BOOLEAN : ic_dev' = IcMake(types, IcNone, probed)
    BY <1>8 DEF IcNewDevice
  <2>3. new \subseteq IcAdapters \X IcAddrs /\ \A c \in new : c[1] \in ic_user.adapter
    BY DEF IcUserIn
  <2>4. DOMAIN types = new /\ \A c \in DOMAIN types : types[c] = d
    OBVIOUS
  <2>. HIDE DEF new, types
  <2>. QED BY <2>1, <2>2, <2>3, <2>4, MakeMade
<1>9. CASE IcUnregisterDevice
  <2>1. ~ ic_oops /\ UNCHANGED <<ic_drv, ic_class>> /\ \E gone : ic_dev' = IcDrop(gone)
    BY <1>9 DEF IcUnregisterDevice, IcUserKeeps, IcUnregistered
  <2>. QED BY <2>1, DropMade
<1>10. CASE UNCHANGED icVars
  BY <1>10 DEF icVars, IcMade
<1>. QED BY <1>1, <1>4, <1>5, <1>6, <1>7, <1>8, <1>9, <1>10 DEF IcNext

-----------------------------------------------------------------------------
(* A driver's list has what it has made; once told of an adapter's end, or *)
(* detached, it has made nothing there. What the user made is the user's.  *)
IcOwns == IcDrivers \ IcLegacy
IcLists ==
  /\ ic_detected \in [IcDrivers -> SUBSET (IcAdapters \X IcAddrs)]
  /\ ~ ic_oops =>
       /\ \A d \in IcOwns :
            /\ ic_detected[d] = IcBy(d)
            /\ d \notin ic_init \/ (ic_pc[d] = "detach" /\ ic_seen # {}) => IcBy(d) = {}
       /\ \A a \in IcAdapters, d \in IcOwns :
            (ic_pc[a] = "tell" /\ d \in ic_seen) \/ ic_pc[a] = "clients" => \A c \in IcBy(d) : c[1] # a
       /\ \A c \in ic_user.dev : c \in DOMAIN ic_dev /\ ic_dev[c].by = IcNone /\ c[1] \in ic_user.adapter

LEMMA ListsInit == IcInit => IcLists
<1>. SUFFICES ASSUME IcInit PROVE IcLists
  OBVIOUS
<1>1. \A d \in IcDrivers : IcBy(d) = {}
  BY DEF IcInit, IcBy
<1>2. ic_detected \in [IcDrivers -> SUBSET (IcAdapters \X IcAddrs)]
  BY DEF IcInit
<1>. QED BY <1>1, <1>2 DEF IcInit, IcLists, IcNobody, IcOwns, IcThreads

(* The lists shrink, or stay, while a thread goes on.                      *)
LEMMA ListsGo ==
  ASSUME IcPlaces, IcLists, NEW t \in IcThreads, NEW from, NEW to, IcGo(t, from, to),
         ic_detected' \in [IcDrivers -> SUBSET (IcAdapters \X IcAddrs)],
         \A e \in IcOwns : IcBy(e)' \subseteq IcBy(e) /\ ic_detected'[e] = IcBy(e)',
         \A e \in IcOwns : e \in ic_init => e \in ic_init' \/ IcBy(e)' = {},
         UNCHANGED ic_seen \/ core_lock \in {IcNone, t},
         to = "tell" => \A e \in ic_seen' \cap IcOwns : \A c \in IcBy(e)' : c[1] # t,
         to = "clients" => \A e \in IcOwns : \A c \in IcBy(e)' : c[1] # t,
         to = "detach" /\ t \in IcOwns => ic_seen' = {} \/ IcBy(t)' = {},
         UNCHANGED ic_user,
         \A c \in ic_user.dev : c \in DOMAIN ic_dev /\ ic_dev[c].by = IcNone => c \in DOMAIN ic_dev' /\ ic_dev'[c].by = IcNone
  PROVE  IcLists'
<1>1. ~ ic_oops /\ ic_pc'[t] = to /\ \A u \in IcThreads \ {t} : ic_pc'[u] = ic_pc[u]
  BY IcWent
<1>2. ASSUME NEW d \in IcOwns, d \notin ic_init' \/ (ic_pc'[d] = "detach" /\ ic_seen' # {}) PROVE IcBy(d)' = {}
  <2>1. CASE d \notin ic_init'
    BY <1>1, <2>1 DEF IcLists
  <2>2. CASE d = t /\ ic_pc'[d] = "detach" /\ ic_seen' # {}
    BY <1>1, <2>2
  <2>3. CASE d # t /\ ic_pc'[d] = "detach" /\ ic_seen' # {}
    <3>1. d \in IcThreads /\ ic_pc[d] = "detach"
      BY <1>1, <2>3, IcAlone DEF IcOwns
    <3>2. ic_seen' = ic_seen
      BY <2>3, <3>1, IcAlone DEF IcWorking
    <3>3. IcBy(d) = {}
      BY <1>1, <2>3, <3>1, <3>2 DEF IcLists
    <3>. QED BY <3>3
  <2>. QED BY <1>2, <2>1, <2>2, <2>3
<1>3. ASSUME NEW a \in IcAdapters, NEW d \in IcOwns, NEW c \in IcBy(d)',
             (ic_pc'[a] = "tell" /\ d \in ic_seen') \/ ic_pc'[a] = "clients"
      PROVE  c[1] # a
  <2>1. CASE a = t
    BY <1>1, <1>3, <2>1
  <2>2. CASE a # t
    <3>1. ic_pc'[a] = ic_pc[a] /\ ic_seen' = ic_seen
      BY <1>1, <1>3, <2>2, IcAlone DEF IcWorking
    <3>2. c \in IcBy(d)
      OBVIOUS
    <3>. QED BY <1>1, <1>3, <3>1, <3>2 DEF IcLists
  <2>. QED BY <2>1, <2>2
<1>4. ASSUME NEW c \in ic_user'.dev PROVE c \in DOMAIN ic_dev' /\ ic_dev'[c].by = IcNone /\ c[1] \in ic_user'.adapter
  BY <1>1 DEF IcLists
<1>. QED BY <1>2, <1>3, <1>4 DEF IcLists

(* What goes is in no list.                                                *)
LEMMA ByDropped ==
  ASSUME NEW gone, ic_dev' = IcDrop(gone)
  PROVE  \A e : IcBy(e)' = IcBy(e) \ gone
BY DEF IcBy, IcDrop

LEMMA BySame ==
  ASSUME DOMAIN ic_dev' = DOMAIN ic_dev, \A c \in DOMAIN ic_dev : ic_dev'[c].by = ic_dev[c].by
  PROVE  \A e : IcBy(e)' = IcBy(e)
BY DEF IcBy

LEMMA ListsNext ==
  IcPlaces /\ IcMade /\ IcUserIn /\ IcLists /\ [IcNext]_icVars => IcLists'
<1>. SUFFICES ASSUME IcPlaces, IcMade, IcUserIn, IcLists, [IcNext]_icVars PROVE IcLists'
  OBVIOUS
<1>0. /\ ic_detected \in [IcDrivers -> SUBSET (IcAdapters \X IcAddrs)]
      /\ IcOwns \subseteq IcDrivers
  BY DEF IcLists, IcOwns
(* A step that makes no device and drops none.                             *)
<1>1. ASSUME NEW t \in IcThreads, NEW from, NEW to, IcGo(t, from, to),
             UNCHANGED <<ic_detected, ic_user>>,
             DOMAIN ic_dev' = DOMAIN ic_dev, \A c \in DOMAIN ic_dev : ic_dev'[c].by = ic_dev[c].by,
             ic_init \subseteq ic_init',
             UNCHANGED ic_seen \/ (ic_seen' = {} /\ core_lock \in {IcNone, t}),
             to \in {"tell", "detach"} => ic_seen' = {},
             to = "clients" => \A e \in IcOwns : \A c \in IcBy(e) : c[1] # t
      PROVE  IcLists'
  <2>1. \A e : IcBy(e)' = IcBy(e)
    BY <1>1, BySame
  <2>2. ~ ic_oops
    BY <1>1 DEF IcGo
  <2>3. \A e \in IcOwns : IcBy(e)' \subseteq IcBy(e) /\ ic_detected'[e] = IcBy(e)'
    BY <1>1, <2>1, <2>2 DEF IcLists
  <2>4. \A c \in ic_user.dev : c \in DOMAIN ic_dev /\ ic_dev[c].by = IcNone => c \in DOMAIN ic_dev' /\ ic_dev'[c].by = IcNone
    BY <1>1
  <2>5. UNCHANGED ic_seen \/ core_lock \in {IcNone, t}
    BY <1>1
  <2>6. to = "clients" => \A e \in IcOwns : \A c \in IcBy(e)' : c[1] # t
    BY <1>1, <2>1
  <2>7. \A e \in IcOwns : e \in ic_init => e \in ic_init' \/ IcBy(e)' = {}
    BY <1>1
  <2>. QED BY <1>0, <1>1, <2>3, <2>4, <2>5, <2>6, <2>7, ListsGo
<1>2. ASSUME NEW a \in IcAdapters,
             IcAllocate(a) \/ IcRegisterFails(a) \/ IcDelAdapter(a) PROVE IcLists'
  <2>1. CASE IcAllocate(a)
    <3>1. /\ IcGo(a, "off", "numbered") /\ a \in IcThreads
          /\ UNCHANGED <<ic_detected, ic_user, ic_dev, ic_init, ic_seen>>
      BY <2>1, IcAlone DEF IcAllocate, IcDevices, IcUser
    <3>. QED BY <1>1, <3>1
  <2>2. CASE IcRegisterFails(a)
    <3>1. /\ IcGo(a, "numbered", "off") /\ a \in IcThreads
          /\ UNCHANGED <<ic_detected, ic_user, ic_dev, ic_init, ic_seen>>
      BY <2>2, IcAlone DEF IcRegisterFails, IcDevices, IcUser, IcNoCall
    <3>. QED BY <1>1, <3>1
  <2>3. CASE IcDelAdapter(a)
    <3>1. /\ IcGo(a, "on", "tell") /\ a \in IcThreads /\ core_lock = IcNone /\ ic_seen' = {}
          /\ UNCHANGED <<ic_detected, ic_user, ic_dev, ic_init>>
      BY <2>3, IcAlone DEF IcDelAdapter, IcDevices, IcUser, IcUnregistered, IcLock
    <3>. QED BY <1>1, <3>1
  <2>. QED BY <1>2, <2>1, <2>2, <2>3
<1>3. ASSUME NEW t \in IcThreads, IcOffered(t) PROVE IcLists'
  <2>1. IcGo(t, "walk", "on") /\ UNCHANGED <<ic_detected, ic_user, ic_dev, ic_init, ic_seen>>
    BY <1>3 DEF IcOffered, IcDevices, IcUser, IcNoCall, IcUnregistered
  <2>. QED BY <1>1, <2>1
<1>4. ASSUME NEW a \in IcAdapters, IcTellRefused(a) \/ IcClientRefuses(a) \/ IcTold(a) \/ IcAdapterGone(a)
      PROVE  IcLists'
  <2>1. CASE IcTellRefused(a)
    <3>1. /\ IcGo(a, "tell", "on") /\ a \in IcThreads
          /\ UNCHANGED <<ic_detected, ic_user, ic_dev, ic_init, ic_seen>>
      BY <2>1, IcAlone DEF IcTellRefused, IcDevices, IcUser, IcNoCall, IcUnregistered
    <3>. QED BY <1>1, <3>1
  <2>2. CASE IcClientRefuses(a)
    <3>1. /\ IcGo(a, "clients", "on") /\ a \in IcThreads
          /\ UNCHANGED <<ic_detected, ic_user, ic_dev, ic_init, ic_seen>>
      BY <2>2, IcAlone DEF IcClientRefuses, IcDevices, IcUser, IcNoCall, IcUnregistered
    <3>. QED BY <1>1, <3>1
  <2>3. CASE IcTold(a)
    <3>1. /\ IcGo(a, "tell", "clients") /\ a \in IcThreads /\ core_lock = a /\ ic_seen' = {}
          /\ ic_drv \subseteq ic_seen
          /\ UNCHANGED <<ic_detected, ic_user, ic_dev, ic_init>>
      BY <2>3, IcAlone DEF IcTold, IcDevices, IcUser, IcNoCall, IcUnregistered
    <3>2. ~ ic_oops /\ ic_pc[a] = "tell"
      BY <3>1, IcWent
    <3>3. ASSUME NEW e \in IcOwns, NEW c \in IcBy(e) PROVE c[1] # a
      <4>1. CASE e \in ic_init
        BY <3>1, <3>2, <4>1, IcAlone DEF IcLists
      <4>2. CASE e \notin ic_init
        BY <3>2, <4>2 DEF IcLists
      <4>. QED BY <4>1, <4>2
    <3>. QED BY <1>1, <3>1, <3>3
  <2>4. CASE IcAdapterGone(a)
    <3>1. /\ IcGo(a, "clients", "off") /\ a \in IcThreads
          /\ UNCHANGED <<ic_detected, ic_user, ic_dev, ic_init, ic_seen>>
      BY <2>4, IcAlone DEF IcAdapterGone, IcDevices, IcUser, IcNoCall
    <3>. QED BY <1>1, <3>1
  <2>. QED BY <1>4, <2>1, <2>2, <2>3, <2>4
<1>5. ASSUME NEW d \in IcDrivers, IcRegisterDriver(d) \/ IcDelDriver(d) PROVE IcLists'
  <2>1. CASE IcRegisterDriver(d)
    <3>1. /\ IcGo(d, "off", "registered") /\ d \in IcThreads
          /\ UNCHANGED <<ic_detected, ic_user, ic_init, ic_seen>>
          /\ DOMAIN ic_dev' = DOMAIN ic_dev
          /\ \A c \in DOMAIN ic_dev :
               ic_dev'[c] = ic_dev[c] \/ ic_dev'[c] = [ic_dev[c] EXCEPT !.driver = d]
      BY <2>1, IcAlone DEF IcRegisterDriver, IcUser
    <3>2. \A c \in DOMAIN ic_dev : ic_dev'[c].by = ic_dev[c].by
      BY <3>1 DEF IcMade, IcDevs
    <3>. QED BY <1>1, <3>1, <3>2
  <2>2. CASE IcDelDriver(d)
    <3>1. /\ IcGo(d, "on", "detach") /\ d \in IcThreads /\ core_lock = IcNone /\ ic_seen' = {}
          /\ UNCHANGED <<ic_detected, ic_user, ic_dev, ic_init>>
      BY <2>2, IcAlone DEF IcDelDriver, IcDevices, IcUser, IcUnregistered, IcLock
    <3>. QED BY <1>1, <3>1
  <2>. QED BY <1>5, <2>1, <2>2
<1>6. ASSUME NEW d \in IcDrivers, IcInitDriver(d) PROVE IcLists'
  <2>1. /\ IcGo(d, "registered", "walk") /\ d \in IcThreads /\ core_lock = IcNone /\ ic_seen' = {}
        /\ ic_detected' = [ic_detected EXCEPT ![d] = {}] /\ UNCHANGED <<ic_user, ic_dev>>
        /\ ic_init' = ic_init \cup {d}
    BY <1>6, IcAlone DEF IcInitDriver, IcUser, IcNoCall, IcLock
  <2>2. ~ ic_oops /\ d \notin ic_init
    BY <2>1, IcWent DEF IcPlaces
  <2>3. \A e : IcBy(e)' = IcBy(e)
    BY <2>1, BySame
  <2>4. ic_detected' \in [IcDrivers -> SUBSET (IcAdapters \X IcAddrs)]
    BY <1>0, <2>1
  <2>5. \A e \in IcOwns : IcBy(e)' \subseteq IcBy(e) /\ ic_detected'[e] = IcBy(e)'
    BY <1>0, <2>1, <2>2, <2>3 DEF IcLists
  <2>6. \A e \in IcOwns : e \in ic_init => e \in ic_init' \/ IcBy(e)' = {}
    BY <2>1
  <2>7. \A c \in ic_user.dev : c \in DOMAIN ic_dev /\ ic_dev[c].by = IcNone => c \in DOMAIN ic_dev' /\ ic_dev'[c].by = IcNone
    BY <2>1
  <2>. QED BY <2>1, <2>4, <2>5, <2>6, <2>7, ListsGo
(* Devices go: what is dropped leaves the lists too.                       *)
<1>7. ASSUME NEW t \in IcThreads, NEW at, IcGo(t, at, at), core_lock = t, UNCHANGED <<ic_user, ic_init>>,
             NEW gone, ic_dev' = IcDrop(gone),
             ic_detected' \in [IcDrivers -> SUBSET (IcAdapters \X IcAddrs)],
             \A e \in IcOwns : ic_detected'[e] = IcBy(e) \ gone,
             at = "tell" => \A e \in ic_seen' \cap IcOwns : \A c \in IcBy(e) \ gone : c[1] # t,
             at = "detach" /\ t \in IcOwns => ic_seen' = {} \/ IcBy(t) \ gone = {},
             \A c \in ic_user.dev : c \in DOMAIN ic_dev /\ ic_dev[c].by = IcNone => c \notin gone
      PROVE  IcLists'
  <2>1. \A e : IcBy(e)' = IcBy(e) \ gone
    BY <1>7, ByDropped
  <2>2. ~ ic_oops /\ ic_pc[t] = at
    BY <1>7, IcWent
  <2>3. \A e \in IcOwns : IcBy(e)' \subseteq IcBy(e) /\ ic_detected'[e] = IcBy(e)'
    BY <1>7, <2>1
  <2>4. \A c \in ic_user.dev : c \in DOMAIN ic_dev /\ ic_dev[c].by = IcNone => c \in DOMAIN ic_dev' /\ ic_dev'[c].by = IcNone
    BY <1>7 DEF IcDrop
  <2>5. at = "clients" => \A e \in IcOwns : \A c \in IcBy(e)' : c[1] # t
    <3>. SUFFICES ASSUME at = "clients", NEW e \in IcOwns, NEW c \in IcBy(e)' PROVE c[1] # t
      OBVIOUS
    <3>1. t \in IcAdapters /\ c \in IcBy(e)
      BY <2>1, <2>2 DEF IcPlaces, IcThreads
    <3>. QED BY <2>2, <3>1 DEF IcLists
  <2>6. /\ at = "tell" => \A e \in ic_seen' \cap IcOwns : \A c \in IcBy(e)' : c[1] # t
        /\ at = "detach" /\ t \in IcOwns => ic_seen' = {} \/ IcBy(t)' = {}
    BY <1>7, <2>1
  <2>7. \A e \in IcOwns : e \in ic_init => e \in ic_init' \/ IcBy(e)' = {}
    BY <1>7
  <2>. QED BY <1>7, <2>3, <2>4, <2>5, <2>6, <2>7, ListsGo
<1>8. ASSUME NEW a \in IcAdapters, IcTell(a) PROVE IcLists'
  <2>1. PICK d \in ic_drv \ ic_seen :
          LET gone == IF d \in IcLegacy \ ic_detaches THEN {} ELSE IcBy(d) \cap IcAt(a)
          IN  /\ core_lock = a /\ IcGo(a, "tell", "tell")
              /\ ic_dev' = IcDrop(gone) /\ IcUndetect(d, gone)
              /\ ic_seen' = ic_seen \cup {d} /\ UNCHANGED <<ic_user, ic_init>>
    BY <1>8 DEF IcTell, IcUser, IcNoCall, IcUnregistered
  <2>. DEFINE gone == IF d \in IcLegacy \ ic_detaches THEN {} ELSE IcBy(d) \cap IcAt(a)
  <2>2. /\ a \in IcThreads /\ d \in IcDrivers /\ ~ ic_oops /\ ic_pc[a] = "tell"
        /\ a \notin ic_user.adapter
    <3>1. a \in IcThreads /\ d \in IcDrivers
      BY <2>1, IcAlone
    <3>2. ~ ic_oops /\ ic_pc[a] = "tell"
      BY <2>1, <3>1, IcWent
    <3>. QED BY <3>1, <3>2 DEF IcUserIn
  <2>3. ic_detected' = [ic_detected EXCEPT ![d] = @ \ gone]
    BY <2>1 DEF IcUndetect
  <2>4. /\ gone \subseteq IcBy(d) /\ \A c \in gone : c[1] = a
        /\ d \in IcOwns => gone = {c \in IcBy(d) : c[1] = a}
    BY DEF IcAt, IcBy, IcOwns
  <2>5. ic_dev' = IcDrop(gone)
    BY <2>1
  <2>. HIDE DEF gone
  <2>6. ic_detected' \in [IcDrivers -> SUBSET (IcAdapters \X IcAddrs)]
    BY <1>0, <2>2, <2>3
  <2>7. \A e \in IcOwns : e # d => IcBy(e) \cap gone = {}
    BY <2>4 DEF IcBy
  <2>8. \A e \in IcOwns : ic_detected'[e] = IcBy(e) \ gone
    BY <1>0, <2>2, <2>3, <2>7 DEF IcLists
  <2>9. ASSUME NEW e \in ic_seen' \cap IcOwns, NEW c \in IcBy(e) \ gone PROVE c[1] # a
    <3>1. CASE e = d
      BY <2>4, <2>9, <3>1
    <3>2. CASE e \in ic_seen
      BY <2>2, <2>9, <3>2 DEF IcLists
    <3>. QED BY <2>1, <2>9, <3>1, <3>2
  <2>10. ASSUME NEW c \in ic_user.dev PROVE c \notin gone
    BY <2>2, <2>4 DEF IcLists
  <2>. QED BY <1>7, <2>1, <2>2, <2>5, <2>6, <2>8, <2>9, <2>10
<1>9. ASSUME NEW a \in IcAdapters, IcClientGoes(a) PROVE IcLists'
  <2>1. PICK c \in IcAt(a) :
          /\ core_lock = a /\ IcGo(a, "clients", "clients") /\ ic_dev' = IcDrop({c})
          /\ UNCHANGED <<ic_detected, ic_user, ic_init>>
    BY <1>9 DEF IcClientGoes, IcUser, IcNoCall, IcUnregistered
  <2>2. a \in IcThreads /\ ~ ic_oops /\ ic_pc[a] = "clients" /\ c[1] = a
    BY <2>1, IcAlone, IcWent DEF IcAt
  <2>3. \A e \in IcOwns : c \notin IcBy(e) /\ ic_detected[e] = IcBy(e)
    BY <2>2 DEF IcLists
  <2>4. c \notin ic_user.dev
    BY <2>2 DEF IcLists, IcUserIn
  <2>5. \A e \in IcOwns : ic_detected'[e] = IcBy(e) \ {c}
    BY <2>1, <2>3
  <2>. QED BY <1>0, <1>7, <2>1, <2>2, <2>4, <2>5
<1>10. ASSUME NEW d \in IcDrivers, IcDetach(d) PROVE IcLists'
  <2>1. PICK a \in ic_class, refuse \in SUBSET IcBy(d) :
          LET gone == IF d \in IcLegacy THEN (IcBy(d) \cap IcAt(a)) \ refuse ELSE ic_detected[d]
          IN  /\ core_lock = d /\ IcGo(d, "detach", "detach")
              /\ ic_dev' = IcDrop(gone) /\ IcUndetect(d, gone) /\ UNCHANGED <<ic_user, ic_init>>
    BY <1>10 DEF IcDetach, IcUser, IcNoCall, IcUnregistered
  <2>. DEFINE gone == IF d \in IcLegacy THEN (IcBy(d) \cap IcAt(a)) \ refuse ELSE ic_detected[d]
  <2>2. d \in IcThreads /\ ~ ic_oops
    BY <2>1, IcAlone, IcWent
  <2>3. ic_dev' = IcDrop(gone) /\ ic_detected' = [ic_detected EXCEPT ![d] = @ \ gone]
    BY <2>1 DEF IcUndetect
  <2>4. gone \subseteq IcBy(d) /\ (d \in IcOwns => gone = IcBy(d))
    BY <2>2 DEF IcLists, IcOwns
  <2>. HIDE DEF gone
  <2>5. ic_detected' \in [IcDrivers -> SUBSET (IcAdapters \X IcAddrs)]
    BY <1>0, <2>2, <2>3
  <2>6. \A e \in IcOwns : e # d => IcBy(e) \cap gone = {}
    BY <2>4 DEF IcBy
  <2>7. \A e \in IcOwns : ic_detected'[e] = IcBy(e) \ gone
    BY <1>0, <2>2, <2>3, <2>6 DEF IcLists
  <2>8. \A c \in ic_user.dev : ic_dev[c].by = IcNone => c \notin gone
    BY <2>4, IcAlone DEF IcBy, IcOwns
  <2>. QED BY <1>7, <2>1, <2>2, <2>3, <2>4, <2>5, <2>7, <2>8
<1>11. ASSUME NEW d \in IcDrivers, IcDriverGone(d) PROVE IcLists'
  <2>1. /\ d \in IcThreads /\ core_lock = d /\ IcGo(d, "detach", "off") /\ ic_class \subseteq ic_seen
        /\ ic_init' = ic_init \ {d} /\ UNCHANGED <<ic_detected, ic_user, ic_seen>>
        /\ DOMAIN ic_dev' = DOMAIN ic_dev
        /\ \A c \in DOMAIN ic_dev :
             \/ ic_dev[c].driver # d /\ ic_dev'[c] = ic_dev[c]
             \/ /\ ic_dev[c].driver = d
                /\ \E x \in {IcNone, IcLost} : ic_dev'[c] = [ic_dev[c] EXCEPT !.by = IcNone, !.driver = x]
    BY <1>11, IcAlone DEF IcDriverGone, IcUnlock, IcUnbind, IcUser, IcNoCall
  <2>2. ~ ic_oops /\ ic_pc[d] = "detach"
    BY <2>1, IcWent
  <2>3. \A c \in DOMAIN ic_dev :
          \/ ic_dev[c].driver # d /\ ic_dev'[c] = ic_dev[c]
          \/ ic_dev[c].driver = d /\ ic_dev'[c].by = IcNone
    BY <2>1 DEF IcMade, IcDevs
  <2>4. ASSUME d \in IcOwns PROVE IcBy(d) = {}
    <3>1. CASE ic_seen # {}
      BY <2>2, <2>4, <3>1 DEF IcLists
    <3>2. CASE ic_class = {}
      BY <2>2, <3>2 DEF IcMade, IcBy
    <3>. QED BY <2>1, <3>1, <3>2
  <2>5. ASSUME NEW e \in IcOwns PROVE IcBy(e)' = IcBy(e)
    <3>0. e # IcNone
      BY IcAlone DEF IcOwns
    <3>1. IcBy(e)' \subseteq IcBy(e)
      BY <2>1, <2>3, <3>0 DEF IcBy
    <3>2. ASSUME NEW c \in IcBy(e) PROVE c \in IcBy(e)'
      <4>1. e # d
        BY <2>4
      <4>2. ic_dev[c].by = e /\ c \in DOMAIN ic_dev /\ e # IcNone /\ d # IcNone
        BY <2>1, IcAlone DEF IcBy, IcOwns
      <4>3. ic_dev[c].driver \in {e, IcNone}
        BY <4>2 DEF IcMade
      <4>. QED BY <2>1, <2>3, <4>1, <4>2, <4>3 DEF IcBy
    <3>. QED BY <3>1, <3>2
  <2>6. \A e \in IcOwns : IcBy(e)' \subseteq IcBy(e) /\ ic_detected'[e] = IcBy(e)'
    BY <2>1, <2>2, <2>5 DEF IcLists
  <2>7. \A e \in IcOwns : e \in ic_init => e \in ic_init' \/ IcBy(e)' = {}
    BY <2>1, <2>4, <2>5
  <2>8. \A c \in ic_user.dev : c \in DOMAIN ic_dev /\ ic_dev[c].by = IcNone => c \in DOMAIN ic_dev' /\ ic_dev'[c].by = IcNone
    BY <2>1, <2>3
  <2>. QED BY <1>0, <2>1, <2>6, <2>7, <2>8, ListsGo
<1>12. ASSUME NEW a \in IcAdapters, IcRegisterAdapter(a) PROVE IcLists'
  <2>. DEFINE types == [c \in {b \in DOMAIN IcBoard : b[1] = a} |-> IcBoard[c]]
  <2>1. /\ a \in IcThreads /\ core_lock = IcNone /\ IcGo(a, "numbered", "walk") /\ ic_seen' = {}
        /\ UNCHANGED <<ic_detected, ic_user, ic_init>>
    BY <1>12, IcAlone DEF IcRegisterAdapter, IcLock, IcUser, IcNoCall
  <2>2. PICK probed \in BOOLEAN : ic_dev' = IcMake(types, IcNone, probed)
    BY <1>12 DEF IcRegisterAdapter
  <2>3. /\ DOMAIN ic_dev \subseteq DOMAIN ic_dev'
        /\ \A c \in DOMAIN ic_dev : ic_dev'[c] = ic_dev[c]
        /\ \A c \in DOMAIN ic_dev' \ DOMAIN ic_dev : ic_dev'[c].by = IcNone
    BY <2>2 DEF IcMake
  <2>4. ASSUME NEW e \in IcOwns PROVE IcBy(e)' = IcBy(e)
    BY <2>3, IcAlone DEF IcBy, IcOwns
  <2>5. ~ ic_oops
    BY <2>1 DEF IcGo
  <2>6. \A e \in IcOwns : IcBy(e)' \subseteq IcBy(e) /\ ic_detected'[e] = IcBy(e)'
    BY <2>1, <2>4, <2>5 DEF IcLists
  <2>7. \A c \in ic_user.dev : c \in DOMAIN ic_dev /\ ic_dev[c].by = IcNone => c \in DOMAIN ic_dev' /\ ic_dev'[c].by = IcNone
    BY <2>3
  <2>8. \A e \in IcOwns : e \in ic_init => e \in ic_init' \/ IcBy(e)' = {}
    BY <2>1
  <2>. QED BY <1>0, <2>1, <2>6, <2>7, <2>8, ListsGo
(* A driver is offered an adapter and makes its devices.                   *)
<1>13. ASSUME NEW t \in IcThreads, NEW a \in ic_class, NEW d \in ic_drv, IcOffer(t, a, d),
              UNCHANGED ic_seen \/ ic_pc[t] = "walk"
       PROVE  IcLists'
  <2>1. /\ core_lock = t /\ IcGo(t, "walk", "walk") /\ UNCHANGED <<ic_user, ic_init>>
        /\ a \in IcAdapters /\ d \in IcDrivers
    BY <1>13, IcAlone DEF IcOffer, IcAfterOffer, IcUnregistered, IcUser, IcNoCall
  <2>2. ~ ic_oops /\ ic_pc[t] = "walk" /\ ic_pc' = ic_pc
    BY <2>1, IcWent DEF IcGo, IcPlaces
  <2>3. PICK found \in SUBSET IcAddrs, probed \in BOOLEAN :
          LET new == IcFree(a, found)
          IN  /\ ic_dev' = IcMake([c \in new |-> d], d, probed)
              /\ \/ /\ d \in IcOwns /\ ic_detected' = [ic_detected EXCEPT ![d] = @ \cup new]
                    /\ ic_oops' = (d \notin ic_init /\ new # {})
                 \/ d \notin IcOwns /\ UNCHANGED ic_detected
    BY <1>13, <2>1 DEF IcOffer, IcDetect, IcProbe, IcOwns
  <2>. DEFINE new == IcFree(a, found)
  <2>4. new \subseteq IcAdapters \X IcAddrs /\ new \cap DOMAIN ic_dev = {}
    BY <2>1 DEF IcFree
  <2>5. /\ DOMAIN ic_dev' = DOMAIN ic_dev \cup new /\ \A c \in DOMAIN ic_dev : ic_dev'[c] = ic_dev[c]
        /\ \A c \in new : ic_dev'[c].by = d
    BY <2>3, <2>4 DEF IcMake
  <2>6. /\ \/ d \in IcOwns /\ ic_detected' = [ic_detected EXCEPT ![d] = @ \cup new]
           \/ d \notin IcOwns /\ UNCHANGED ic_detected
        /\ d \in IcOwns /\ ~ ic_oops' /\ d \notin ic_init => new = {}
    BY <2>3
  <2>. HIDE DEF new
  <2>7. ASSUME NEW e \in IcOwns PROVE IcBy(e)' = IF e = d THEN IcBy(e) \cup new ELSE IcBy(e)
    BY <2>5 DEF IcBy
  <2>8. ic_detected' \in [IcDrivers -> SUBSET (IcAdapters \X IcAddrs)]
    BY <1>0, <2>1, <2>4, <2>6
  <2>9. \A u \in IcThreads : ic_pc[u] \notin {"tell", "clients", "detach"}
    BY <2>1, <2>2, IcAlone DEF IcWorking
  <2>10. ASSUME ~ ic_oops', NEW e \in IcOwns
         PROVE  /\ ic_detected'[e] = IcBy(e)'
                /\ e \notin ic_init' \/ (ic_pc'[e] = "detach" /\ ic_seen' # {}) => IcBy(e)' = {}
    <3>1. e \in IcThreads /\ e \in IcDrivers
      BY IcAlone DEF IcOwns
    <3>2. ic_detected[e] = IcBy(e) /\ (e \notin ic_init => IcBy(e) = {})
      BY <2>2 DEF IcLists
    <3>3. ic_detected'[e] = IcBy(e)'
      BY <1>0, <2>6, <2>7, <3>1, <3>2
    <3>4. e \notin ic_init => IcBy(e)' = {}
      BY <2>6, <2>7, <2>10, <3>2
    <3>. QED BY <2>1, <2>2, <2>9, <3>1, <3>3, <3>4
  <2>11. ASSUME NEW c \in ic_user'.dev
         PROVE  c \in DOMAIN ic_dev' /\ ic_dev'[c].by = IcNone /\ c[1] \in ic_user'.adapter
    BY <2>1, <2>2, <2>5 DEF IcLists
  <2>12. ASSUME NEW b \in IcAdapters PROVE ic_pc'[b] \notin {"tell", "clients"}
    BY <2>2, <2>9, IcAlone
  <2>. QED BY <2>8, <2>10, <2>11, <2>12 DEF IcLists
<1>14. ASSUME NEW x \in IcAddrs, NEW d \in IcDrivers \ IcLegacy, IcNewDevice(x, d) PROVE IcLists'
  <2>. DEFINE new == ic_user.adapter \X {x}
  <2>1. /\ ~ ic_oops /\ new \cap DOMAIN ic_dev = {} /\ ic_user' = [ic_user EXCEPT !.dev = new]
        /\ UNCHANGED <<ic_pc, ic_seen, ic_init, ic_detected>>
        /\ \E probed \in BOOLEAN : ic_dev' = IcMake([c \in new |-> d], IcNone, probed)
    BY <1>14 DEF IcNewDevice, IcUserKeeps, IcUnregistered
  <2>2. \A c \in new : c[1] \in ic_user.adapter
    OBVIOUS
  <2>. HIDE DEF new
  <2>3. /\ DOMAIN ic_dev' = DOMAIN ic_dev \cup new /\ \A c \in DOMAIN ic_dev : ic_dev'[c] = ic_dev[c]
        /\ \A c \in new : ic_dev'[c].by = IcNone
    BY <2>1 DEF IcMake
  <2>4. ASSUME NEW e \in IcOwns PROVE IcBy(e)' = IcBy(e)
    <3>1. e # IcNone
      BY IcAlone DEF IcOwns
    <3>. QED BY <2>1, <2>3, <3>1 DEF IcBy
  <2>5. ic_user'.dev = new /\ ic_user'.adapter = ic_user.adapter
    BY <2>1 DEF IcUserIn
  <2>6. \A c \in ic_user'.dev : c \in DOMAIN ic_dev' /\ ic_dev'[c].by = IcNone /\ c[1] \in ic_user'.adapter
    BY <2>2, <2>3, <2>5
  <2>. QED BY <2>1, <2>4, <2>6 DEF IcLists
<1>15. CASE IcUnregisterDevice
  <2>1. /\ ~ ic_oops /\ ic_dev' = IcDrop(ic_user.dev) /\ ic_user' = [ic_user EXCEPT !.dev = {}]
        /\ UNCHANGED <<ic_pc, ic_seen, ic_init, ic_detected>>
    BY <1>15 DEF IcUnregisterDevice, IcUserKeeps, IcUnregistered
  <2>2. ic_user'.dev = {}
    BY <2>1 DEF IcUserIn
  <2>3. ASSUME NEW e \in IcOwns PROVE IcBy(e)' = IcBy(e)
    <3>1. e # IcNone
      BY IcAlone DEF IcOwns
    <3>2. IcBy(e) \cap ic_user.dev = {}
      BY <2>1, <3>1 DEF IcLists, IcBy
    <3>. QED BY <2>1, <3>2, ByDropped
  <2>. QED BY <2>1, <2>2, <2>3 DEF IcLists
<1>16. CASE \/ \E a \in IcAdapters : IcGetAdapter(a)
            \/ IcPutAdapter \/ \E c \in DOMAIN ic_dev : IcUseClient(c)
            \/ IcReleaseClient \/ UNCHANGED icVars
  <2>1. UNCHANGED <<ic_pc, ic_seen, ic_init, ic_detected, ic_dev, ic_oops>>
    BY <1>16 DEF IcGetAdapter, IcPutAdapter, IcUseClient, IcReleaseClient, IcUserKeeps, IcUnregistered, icVars
  <2>2. ic_user'.dev = ic_user.dev /\ (ic_user'.adapter = ic_user.adapter \/ ic_user'.dev = {})
    BY <1>16 DEF IcGetAdapter, IcPutAdapter, IcUseClient, IcReleaseClient, icVars, IcUserIn, IcNobody
  <2>3. \A e : IcBy(e)' = IcBy(e)
    BY <2>1, BySame
  <2>. QED BY <2>1, <2>2, <2>3 DEF IcLists
<1>17. ASSUME NEW a \in IcAdapters, IcAddTo(a) PROVE IcLists'
  <2>1. core_lock = a /\ ic_pc[a] = "walk"
    BY <1>17 DEF IcAddTo, IcOffer, IcAfterOffer, IcGo
  <2>2. a \in ic_class
    BY <2>1 DEF IcPlaces
  <2>. QED BY <1>13, <1>17, <2>1, <2>2, IcAlone DEF IcAddTo
<1>18. ASSUME NEW d \in IcDrivers, IcAttach(d) PROVE IcLists'
  <2>1. core_lock = d /\ ic_pc[d] = "walk"
    BY <1>18 DEF IcAttach, IcOffer, IcAfterOffer, IcGo
  <2>2. d \in ic_drv
    BY <2>1 DEF IcPlaces
  <2>. QED BY <1>13, <1>18, <2>1, <2>2, IcAlone DEF IcAttach
<1>19. ASSUME NEW a \in IcAdapters, IcAdapterWorks(a) PROVE IcLists'
  BY <1>3, <1>4, <1>8, <1>9, <1>17, <1>19, IcAlone DEF IcAdapterWorks
<1>20. ASSUME NEW d \in IcDrivers, IcDriverWorks(d) PROVE IcLists'
  BY <1>3, <1>10, <1>11, <1>18, <1>20, IcAlone DEF IcDriverWorks
<1>. QED BY <1>2, <1>5, <1>6, <1>12, <1>14, <1>15, <1>16, <1>19, <1>20 DEF IcNext

(* A driver's list has just the devices it has made and that are there, no *)
(* device outlives its adapter, and no client points to a driver that left *)
(* - for any adapters, drivers, boards and users.                          *)
THEOREM PointersLead == IcSpec => []NothingDangles
<1>1. IcMade /\ IcLists => NothingDangles
  BY DEF IcMade, IcLists, IcOwns, NothingDangles
<1>. QED BY <1>1, PlacesInit, PlacesNext, UserInInit, UserInNext, MadeInit, MadeNext, ListsInit, ListsNext,
            PTL DEF IcSpec
=============================================================================
