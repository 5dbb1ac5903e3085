------------------------------- MODULE I2cPxa -------------------------------
(***************************************************************************)
(* The PXA's I2C bus driver (i2c-pxa.c): a process in i2c_pxa_xfer, the    *)
(* interrupt handler, and the unit, which is a slave as well                *)
(* (CONFIG_I2C_PXA_SLAVE): another master may address it at any time, and  *)
(* the master transfer has to back off and be tried again.  One processor, *)
(* the handler with interrupts off: a run of it is one step.  The process  *)
(* changes the control register ICR by reading and writing it, with         *)
(* interrupts on: these are two steps.                                     *)
(***************************************************************************)
EXTENDS Integers, SequencesExt

CONSTANTS
  PxTransfers,  \* the arrays of messages i2c_pxa_xfer may be called with
  PxRetries,    \* adap.retries
  PxMaxXfers,   \* bound: calls
  PxOthers,     \* bound: how often another master takes the bus
  PxSlave       \* CONFIG_I2C_PXA_SLAVE

(* A message: address, direction, length, and I2C_M_NOSTART.               *)
PxMessage == [addr : Nat, rd : BOOLEAN, len : Nat, nostart : BOOLEAN]

ASSUME PxaAssumption ==
  /\ PxTransfers \subseteq Seq(PxMessage) \ {<<>>}
  /\ {PxRetries, PxMaxXfers, PxOthers} \subseteq Nat
  /\ PxSlave \in BOOLEAN

(* What master_xfer hands on as an error; I2C_RETRY stays in the driver.   *)
I2C_RETRY  == -2000
BUS_ERROR  == -121
XFER_NAKED == -111
PxNoAnswer == -121  \* -EREMOTEIO

VARIABLES
  px_msg,     \* i2c->msg: the place in px_msgs it points to, 0 for NULL
  px_msgs, px_num, px_idx, px_ptr,
  px_icr,     \* the bits of ICR that change: START STOP ACKNAK TB SCLE ALDIE
  px_isr,     \* the bits of ISR that interrupt, and ACKNAK
  px_rwm,     \* ISR_RWM: the unit reads
  px_bus,     \* "free" "ours" "other" "slave", and "ending" after a slave's NAK
  px_db,      \* IDBR
  px_wire,    \* what this master has put on the bus since do_xfer took it
  px_stored,  \* where the bytes read since then have gone
  px_pc, px_args, px_retry, px_ret,
  px_saved,   \* what the process has read from ICR and is about to write back
  px_late,    \* history: this attempt's five seconds have passed
  px_torn,    \* history: ICR changed between such a read and write, or master
              \* mode was entered while another master had the unit as a slave
  px_lost,    \* history: the attempt began as a slave, or ALD has been set
  px_xfers, px_others

pxCursor == <<px_msg, px_msgs, px_num, px_idx, px_ptr>>
pxUnit   == <<px_icr, px_isr, px_rwm, px_bus, px_db>>
pxRecord == <<px_wire, px_stored>>
pxCaller == <<px_pc, px_args, px_retry, px_ret, px_saved, px_late, px_torn, px_xfers>>
pxVars   == <<pxCursor, pxUnit, pxRecord, pxCaller, px_lost, px_others>>

-----------------------------------------------------------------------------
(* i2c_pxa_addr_byte, and what is seen on the bus.                         *)
PxAddrByte(m) == <<"start", m.addr, m.rd>>
PxTx(k, p)  == <<"tx", k, p>>
PxRx(ack)   == <<"rx", ack>>
PxStop      == <<"stop">>
PxResetUnit == <<"reset">>

(* i2c_pxa_reset as probe leaves the unit.                                 *)
PxInit ==
  /\ px_msg = 0 /\ px_msgs = <<>> /\ px_num = 0 /\ px_idx = 0 /\ px_ptr = 0
  /\ px_icr = IF PxSlave THEN {"ALDIE"} ELSE {"SCLE"}
  /\ px_isr = {} /\ px_rwm = FALSE /\ px_bus = "free" /\ px_db = <<>>
  /\ px_wire = <<>> /\ px_stored = <<>>
  /\ px_pc = "idle" /\ px_args = <<>> /\ px_retry = 0 /\ px_ret = 0
  /\ px_saved = {} /\ px_late = FALSE /\ px_torn = FALSE /\ px_lost = FALSE
  /\ px_xfers = 0 /\ px_others = 0

-----------------------------------------------------------------------------
(* The handler.  Every interrupt it has seen is cleared; SAD comes first,  *)
(* then SSD, then the bytes.                                               *)

PxIrq == px_isr \ (IF "ALDIE" \in px_icr THEN {} ELSE {"ALD"}) # {}

PxKeep == UNCHANGED <<px_rwm, px_bus, pxCaller, px_lost, px_others>>

(* i2c_pxa_master_complete, with msg_idx = idx before.                     *)
PxComplete(ret, idx) ==
  /\ px_msg' = 0 /\ px_msgs' = <<>> /\ px_num' = 0 /\ px_ptr' = 0
  /\ px_idx' = IF ret # 0 THEN ret ELSE idx + 1

(* i2c_pxa_slave_txempty and _rxfull: on with the next byte, but after a   *)
(* bus error.                                                              *)
PxSlaveBytes(icr) ==
  IF "IRF" \in px_isr \/ {"ITE", "BED"} \cap px_isr = {"ITE"} THEN icr \cup {"TB"} ELSE icr

(* Another master has addressed the unit: i2c_pxa_slave_start backs off    *)
(* from a start of its own and leaves master mode.                         *)
PxSlaveStart ==
  /\ PxIrq /\ "SAD" \in px_isr /\ "SSD" \notin px_isr
  /\ px_icr' = PxSlaveBytes((px_icr \ {"START", "STOP", "SCLE"}) \cup {"TB"})
  /\ px_isr' = {}
  /\ UNCHANGED <<pxCursor, px_db, pxRecord>> /\ PxKeep

(* Mutant: a transfer that waits is not told of it.                        *)
PxSlaveStop_forget ==
  /\ PxIrq /\ "SSD" \in px_isr
  /\ px_icr' = IF "SAD" \in px_isr
                 THEN PxSlaveBytes((px_icr \ {"START", "STOP", "SCLE"}) \cup {"TB"})
                 ELSE IF "SCLE" \notin px_icr THEN PxSlaveBytes(px_icr) ELSE px_icr
  /\ px_isr' = {}
  /\ UNCHANGED <<pxCursor, px_db, pxRecord>> /\ PxKeep

(* It is through: i2c_pxa_slave_stop has a master transfer that waits      *)
(* tried again.                                                            *)
PxSlaveStop ==
  /\ PxIrq /\ "SSD" \in px_isr
  /\ IF px_msg # 0 THEN PxComplete(I2C_RETRY, px_idx)
                   ELSE UNCHANGED pxCursor
  /\ px_icr' = IF "SAD" \in px_isr
                 THEN PxSlaveBytes((px_icr \ {"START", "STOP", "SCLE"}) \cup {"TB"})
                 ELSE IF "SCLE" \notin px_icr THEN PxSlaveBytes(px_icr) ELSE px_icr
  /\ px_isr' = {}
  /\ UNCHANGED <<px_db, pxRecord>> /\ PxKeep

(* A byte as slave, and an interrupt that has no message to work on.       *)
PxSlaveByte ==
  /\ PxIrq /\ {"SAD", "SSD"} \cap px_isr = {}
  /\ "SCLE" \notin px_icr \/ px_msg = 0
  /\ px_icr' = IF "SCLE" \notin px_icr THEN PxSlaveBytes(px_icr) ELSE px_icr
  /\ px_isr' = {}
  /\ UNCHANGED <<pxCursor, px_db, pxRecord>> /\ PxKeep

PxMaster ==
  /\ PxIrq /\ {"SAD", "SSD"} \cap px_isr = {} /\ "SCLE" \in px_icr /\ px_msg # 0
  /\ px_isr' = {}

PxLast(k) == k = px_num  \* msg_idx = msg_num - 1
PxBase == px_icr \ {"START", "STOP", "ACKNAK", "TB"}

(* i2c_pxa_irq_txempty.  ALD ends it at once, and nothing goes on; so does *)
(* an interrupt that is neither of the two.                                *)
PxIgnored ==
  /\ PxMaster
  /\ "ALD" \in px_isr /\ "IRF" \notin px_isr
  /\ UNCHANGED <<pxCursor, px_icr, px_db, pxRecord>> /\ PxKeep

PxTxEmpty == PxMaster /\ "ITE" \in px_isr /\ "ALD" \notin px_isr

PxRefused ==
  /\ PxTxEmpty /\ "BED" \in px_isr
  /\ PxComplete(CASE "ACKNAK" \notin px_isr -> BUS_ERROR
                  [] "ACKNAK" \in px_isr /\ px_ptr = 0 /\ px_idx = 0 -> I2C_RETRY
                  [] OTHER -> XFER_NAKED, px_idx)
  /\ px_icr' = PxBase
  /\ UNCHANGED <<px_db, pxRecord>> /\ PxKeep

(* The address of a read is out: the first byte, with the stop if it is    *)
(* the last one of all.                                                    *)
PxReadFirst ==
  /\ PxTxEmpty /\ "BED" \notin px_isr /\ px_rwm
  /\ px_icr' = PxBase \cup {"ALDIE", "TB"} \cup
       IF px_ptr = px_msgs[px_msg].len - 1 /\ PxLast(px_msg) THEN {"STOP", "ACKNAK"} ELSE {}
  /\ UNCHANGED <<pxCursor, px_db, pxRecord>> /\ PxKeep

PxWrites == PxTxEmpty /\ "BED" \notin px_isr /\ ~ px_rwm

(* Byte p of message k, with the stop if it is the last one of all.        *)
PxSend(k, p) ==
  /\ px_db' = PxTx(k, p)
  /\ px_msg' = k /\ px_idx' = k - 1 /\ px_ptr' = p + 1
  /\ px_icr' = PxBase \cup {"ALDIE", "TB"} \cup
       IF p + 1 = px_msgs[k].len /\ PxLast(k) THEN {"STOP"} ELSE {}
  /\ UNCHANGED <<px_msgs, px_num, pxRecord>> /\ PxKeep

PxWriteByte ==
  PxWrites /\ px_ptr < px_msgs[px_msg].len /\ PxSend(px_msg, px_ptr)

(* The message is written.  The loop through again passes over the empty   *)
(* messages that continue it; PxGoal is where it ends.                     *)
PxPassed(k) == px_msgs[k].nostart /\ px_msgs[k].len = 0 /\ k < px_num
PxGoal ==
  {k \in px_msg + 1 .. px_num : ~ PxPassed(k) /\ \A j \in px_msg + 1 .. k - 1 : PxPassed(j)}

PxWritten == PxWrites /\ px_ptr >= px_msgs[px_msg].len

PxWriteOn ==
  /\ PxWritten
  /\ \E k \in PxGoal : px_msgs[k].nostart /\ px_msgs[k].len > 0 /\ PxSend(k, 0)

PxWriteStart ==
  /\ PxWritten
  /\ \E k \in PxGoal :
       /\ ~ px_msgs[k].nostart
       /\ px_msg' = k /\ px_idx' = k - 1 /\ px_ptr' = 0
       /\ px_db' = PxAddrByte(px_msgs[k])
       /\ px_icr' = (PxBase \ {"ALDIE"}) \cup {"START", "TB"}
  /\ UNCHANGED <<px_msgs, px_num, pxRecord>> /\ PxKeep

(* The end.  After an empty message the unit is reset, which lets the bus  *)
(* go; the ICR of before the reset is written back in any case.            *)
PxWriteEnd ==
  /\ PxWritten
  /\ PxGoal = {} \/ \E k \in PxGoal : px_msgs[k].nostart /\ px_msgs[k].len = 0
  /\ PxComplete(0, px_num - 1)
  /\ px_icr' = PxBase
  /\ IF px_msgs[px_num].len = 0
       THEN px_bus' = "free" /\ px_wire' = Append(px_wire, PxResetUnit)
       ELSE UNCHANGED <<px_bus, px_wire>>
  /\ UNCHANGED <<px_db, px_stored, px_rwm, pxCaller, px_lost, px_others>>

(* i2c_pxa_irq_rxfull; every message that is read ends the transfer.       *)
PxReadByte ==
  /\ PxMaster /\ "IRF" \in px_isr
  /\ px_stored' = Append(px_stored, <<px_msg, px_ptr>>)
  /\ IF px_ptr + 1 < px_msgs[px_msg].len
       THEN /\ px_ptr' = px_ptr + 1
            /\ px_icr' = PxBase \cup {"ALDIE", "TB"} \cup
                 IF px_ptr + 2 = px_msgs[px_msg].len THEN {"STOP", "ACKNAK"} ELSE {}
            /\ UNCHANGED <<px_msg, px_msgs, px_num, px_idx>>
       ELSE PxComplete(0, px_idx) /\ px_icr' = PxBase
  /\ UNCHANGED <<px_db, px_wire>> /\ PxKeep

PxHandler ==
  \/ PxSlaveStart \/ PxSlaveStop \/ PxSlaveByte \/ PxIgnored \/ PxRefused
  \/ PxReadFirst \/ PxWriteByte \/ PxWriteOn \/ PxWriteStart \/ PxWriteEnd \/ PxReadByte

-----------------------------------------------------------------------------
(* External: the unit, the slaves and other masters.  A byte that is to be *)
(* transferred (TB) is, when the bus is the unit's, and a start when it is *)
(* free or the unit's; a refused byte or ICR_STOP is followed by a stop.   *)

PxRest == UNCHANGED <<pxCursor, px_stored, pxCaller>>
PxReady == "TB" \in px_icr /\ "SCLE" \in px_icr

PxSent ==
  /\ PxReady
  /\ \/ "START" \in px_icr /\ px_bus \in {"free", "ours"}
     \/ "START" \notin px_icr /\ px_bus = "ours" /\ ~ px_rwm
  /\ px_rwm' = IF "START" \in px_icr THEN px_db[1] = "start" /\ px_db[3] ELSE px_rwm
  /\ \E error \in {{}, {"BED"}, {"BED", "ACKNAK"}} :
       /\ px_isr' = px_isr \cup {"ITE"} \cup error
       /\ IF error # {} \/ "STOP" \in px_icr
            THEN px_wire' = px_wire \o <<px_db, PxStop>> /\ px_bus' = "free"
            ELSE px_wire' = Append(px_wire, px_db) /\ px_bus' = "ours"
  /\ px_icr' = px_icr \ {"TB"}
  /\ UNCHANGED <<px_db, px_lost, px_others>> /\ PxRest

PxReceived ==
  /\ PxReady /\ "START" \notin px_icr /\ px_bus = "ours" /\ px_rwm
  /\ px_isr' = px_isr \cup {"IRF"}
  /\ IF "STOP" \in px_icr
       THEN px_wire' = px_wire \o <<PxRx("ACKNAK" \notin px_icr), PxStop>> /\ px_bus' = "free"
       ELSE px_wire' = Append(px_wire, PxRx("ACKNAK" \notin px_icr)) /\ UNCHANGED px_bus
  /\ px_icr' = px_icr \ {"TB"}
  /\ UNCHANGED <<px_rwm, px_db, px_lost, px_others>> /\ PxRest

(* Another master wins the bus while the unit sends.  What becomes of the  *)
(* byte the code's comment calls vague: ALD is set or not, the unit sends  *)
(* it again when the bus is free, or not.                                  *)
PxLose ==
  /\ PxReady /\ px_others < PxOthers
  /\ \/ "START" \in px_icr /\ px_bus \in {"free", "ours"}
     \/ "START" \notin px_icr /\ px_bus = "ours" /\ ~ px_rwm
  /\ px_others' = px_others + 1
  /\ px_bus' = "other"
  /\ \/ "START" \in px_icr /\ UNCHANGED <<px_isr, px_icr, px_lost>>
     \/ /\ px_isr' = px_isr \cup {"ALD"} /\ px_lost' = TRUE
        /\ px_icr' \in {px_icr} \cup {px_icr \ {"TB"}}
  /\ UNCHANGED <<px_rwm, px_db, px_wire>> /\ PxRest

(* Another master uses the bus, and may address this unit as a slave.      *)
PxTaken ==
  /\ px_bus = "free" /\ px_others < PxOthers
  /\ px_others' = px_others + 1 /\ px_bus' = "other"
  /\ UNCHANGED <<px_icr, px_isr, px_rwm, px_db, px_wire, px_lost>> /\ PxRest

PxAddressed ==
  /\ PxSlave /\ px_bus = "other"
  /\ px_bus' = "slave" /\ px_isr' = px_isr \cup {"SAD"}
  /\ px_rwm' \in BOOLEAN
  /\ UNCHANGED <<px_icr, px_db, px_wire, px_lost, px_others>> /\ PxRest

(* It reads or writes a byte, which ends with a refusal, and lets go.      *)
PxSlaveMoved ==
  /\ px_bus = "slave" /\ "TB" \in px_icr /\ "SAD" \notin px_isr
  /\ px_icr' = px_icr \ {"TB"}
  /\ IF px_rwm
       THEN \/ px_isr' = px_isr \cup {"ITE"} /\ UNCHANGED px_bus
            \/ px_isr' = px_isr \cup {"ITE", "BED"} /\ px_bus' = "ending"
       ELSE px_isr' = px_isr \cup {"IRF"} /\ UNCHANGED px_bus
  /\ UNCHANGED <<px_rwm, px_db, px_wire, px_lost, px_others>> /\ PxRest

PxLetGo ==
  /\ px_bus \in {"other", "slave", "ending"}
  /\ px_bus = "slave" => "TB" \in px_icr
  /\ px_bus' = "free"
  /\ px_isr' = IF px_bus = "other" THEN px_isr ELSE px_isr \cup {"SSD"}
  /\ UNCHANGED <<px_icr, px_rwm, px_db, px_wire, px_lost, px_others>> /\ PxRest

PxWorld == PxSent \/ PxReceived \/ PxLose \/ PxTaken \/ PxAddressed \/ PxSlaveMoved \/ PxLetGo

-----------------------------------------------------------------------------
(* The process.                                                            *)

PxElse == UNCHANGED <<px_isr, px_rwm, px_bus, px_others>>
PxQuiet == UNCHANGED <<pxCursor, px_icr, px_db, pxRecord, px_lost>> /\ PxElse

PxXfer ==
  /\ px_pc = "idle" /\ px_xfers < PxMaxXfers
  /\ px_args' \in PxTransfers
  /\ px_retry' = 0 /\ px_xfers' = px_xfers + 1 /\ px_torn' = px_torn
  /\ px_pc' = "wait_bus"
  /\ UNCHANGED <<px_ret, px_saved, px_late>> /\ PxQuiet

(* do_xfer returns ret: I2C_RETRY is tried again, adap.retries times.      *)
PxResult(ret) ==
  IF ret = I2C_RETRY /\ px_retry < PxRetries
    THEN /\ px_retry' = px_retry + 1 /\ px_pc' = "wait_bus"
         /\ UNCHANGED px_ret
    ELSE /\ px_ret' = IF ret = I2C_RETRY THEN PxNoAnswer ELSE ret
         /\ px_pc' = IF PxSlave THEN "set_slave" ELSE "done"
         /\ UNCHANGED px_retry

(* i2c_pxa_wait_bus_not_busy and i2c_pxa_set_master's look: both wait, and *)
(* give up some time.                                                      *)
PxBusFree ==
  /\ px_pc \in {"wait_bus", "master"} /\ px_bus = "free"
  /\ px_pc' = IF px_pc = "master" THEN "scle" ELSE "master"
  /\ UNCHANGED <<px_args, px_retry, px_ret, px_saved, px_late, px_torn, px_xfers>> /\ PxQuiet

PxBusBusy ==
  /\ px_pc \in {"wait_bus", "master"} /\ px_bus # "free"
  /\ PxResult(I2C_RETRY)
  /\ UNCHANGED <<px_args, px_saved, px_late, px_torn, px_xfers>> /\ PxQuiet

(* writel(readl(_ICR(i2c)) ..., _ICR(i2c)), in its two steps: at "scle"    *)
(* master mode is entered, "stop" is i2c_pxa_stop_message, at "clear"      *)
(* i2c_pxa_set_slave takes back a stop that is still asked for, at         *)
(* "slave1" and "slave2" it leaves master mode.                            *)
PxWriting == [scle |-> "write scle", stop |-> "write stop", clear |-> "write clear",
              slave1 |-> "write slave1", slave2 |-> "write slave2"]
PxReads == DOMAIN PxWriting

PxIcrRead ==
  /\ px_pc \in PxReads
  /\ px_saved' = px_icr
  /\ px_pc' = PxWriting[px_pc]
  /\ UNCHANGED <<px_args, px_retry, px_ret, px_late, px_torn, px_xfers>> /\ PxQuiet

PxIcrWrite ==
  /\ \E at \in PxReads :
       /\ px_pc = PxWriting[at]
       /\ px_icr' = CASE at = "scle"   -> px_saved \cup {"SCLE"}
                      [] at = "stop"   -> px_saved \ {"STOP", "ACKNAK"}
                      [] at = "clear"  -> px_saved \ {"STOP"}
                      [] at = "slave1" -> px_saved \ {"STOP", "ACKNAK"}
                      [] at = "slave2" -> px_saved \ {"SCLE"}
       /\ px_pc' = CASE at = "scle"   -> "setup"
                     [] at = "stop"   -> "collect"
                     [] at = "clear"  -> "slave"
                     [] at = "slave1" -> "slave2"
                     [] at = "slave2" -> "done"
  /\ px_torn' = \/ px_torn
                \/ px_icr # px_saved
                \/ px_pc = "write scle" /\ px_bus = "slave"
  /\ px_saved' = {}
  /\ UNCHANGED <<pxCursor, px_db, pxRecord, px_lost, px_args, px_retry, px_ret,
                 px_late, px_xfers>> /\ PxElse

(* The locked part of do_xfer, with i2c_pxa_start_message.                 *)
PxSetup ==
  /\ px_pc = "setup"
  /\ px_msgs' = px_args /\ px_msg' = 1
  /\ px_num' = Len(px_args) /\ px_idx' = 0 /\ px_ptr' = 0
  /\ px_db' = PxAddrByte(px_args[1])
  /\ px_icr' = (px_icr \ {"STOP", "ALDIE"}) \cup {"START", "TB"}
  /\ px_wire' = <<>> /\ px_stored' = <<>>
  /\ px_late' = FALSE
  /\ px_lost' = ("SCLE" \notin px_icr \/ "ALD" \in px_isr)
  /\ px_pc' = "wait"
  /\ UNCHANGED <<px_args, px_retry, px_ret, px_saved, px_torn, px_xfers>> /\ PxElse

(* wait_event_timeout.                                                     *)
PxWaited ==
  /\ px_pc = "wait"
  /\ px_late' = (px_num # 0)
  /\ px_pc' = "stop"
  /\ UNCHANGED <<px_args, px_retry, px_ret, px_saved, px_torn, px_xfers>> /\ PxQuiet

PxCollect ==
  /\ px_pc = "collect"
  /\ PxResult(px_idx)
  /\ UNCHANGED <<px_args, px_saved, px_late, px_torn, px_xfers>> /\ PxQuiet

(* i2c_pxa_set_slave: after an error it leaves master mode at once; else   *)
(* it clears a stop that a transfer given up has left, waits for the bus,  *)
(* and gives up after a second.                                            *)
PxSetSlave ==
  /\ px_pc = "set_slave"
  /\ \/ px_ret < 0 /\ px_pc' = "slave1"
     \/ px_ret >= 0 /\ "STOP" \in px_icr /\ px_pc' = "clear"
     \/ px_ret >= 0 /\ "STOP" \notin px_icr /\ px_pc' = "slave"
  /\ UNCHANGED <<px_args, px_retry, px_ret, px_saved, px_late, px_torn, px_xfers>> /\ PxQuiet

PxStopEnded ==
  /\ px_pc = "slave" /\ (px_bus = "free" \/ "SCLE" \notin px_icr)
  /\ px_pc' = "slave1"
  /\ UNCHANGED <<px_args, px_retry, px_ret, px_saved, px_late, px_torn, px_xfers>> /\ PxQuiet

PxStillBusy ==
  /\ px_pc = "slave" /\ px_bus # "free" /\ "SCLE" \in px_icr
  /\ px_pc' = "done"
  /\ UNCHANGED <<px_args, px_retry, px_ret, px_saved, px_late, px_torn, px_xfers>> /\ PxQuiet

(* The call's locals and its record end with it.                           *)
PxReturn ==
  /\ px_pc = "done"
  /\ px_pc' = "idle" /\ px_args' = <<>> /\ px_retry' = 0 /\ px_ret' = 0
  /\ px_late' = FALSE /\ px_lost' = FALSE /\ px_wire' = <<>> /\ px_stored' = <<>>
  /\ UNCHANGED <<pxCursor, px_icr, px_db, px_saved, px_torn, px_xfers>> /\ PxElse

(* An interrupt that is pending is served before the process goes on.      *)
PxProcess ==
  /\ ~ PxIrq
  /\ \/ PxBusFree \/ PxBusBusy \/ PxIcrRead \/ PxIcrWrite \/ PxSetup \/ PxWaited
     \/ PxCollect \/ PxSetSlave \/ PxStopEnded \/ PxStillBusy \/ PxReturn

(* What a torn ICR leads to is not followed further than what it is.       *)
PxNext == ~ px_torn /\ (PxHandler \/ PxWorld \/ PxXfer \/ PxProcess)

(* Interrupts are served and the process gets its turn between them, be it *)
(* that another master never stops to read.                                *)
PxFairness ==
  WF_pxVars(~ px_torn /\ PxHandler) /\ SF_pxVars(~ px_torn /\ PxProcess)
PxSpec == PxInit /\ [][PxNext]_pxVars /\ PxFairness

-----------------------------------------------------------------------------
(* Properties.                                                             *)

(* What the handler can serve: a read has bytes, is the last message and   *)
(* starts anew.                                                            *)
PxServed(array) ==
  \A k \in DOMAIN array :
    array[k].rd => k = Len(array) /\ ~ array[k].nostart /\ array[k].len > 0

(* What message k puts on the bus: a start unless it continues another.    *)
PxPart(array, k) ==
  (IF array[k].nostart /\ k > 1 THEN <<>> ELSE <<PxAddrByte(array[k])>>)
    \o [i \in 1 .. array[k].len |->
          IF array[k].rd THEN PxRx(i # array[k].len) ELSE PxTx(k, i - 1)]

PxExpected(array) ==
  Append(FlattenSeq([k \in DOMAIN array |-> PxPart(array, k)]),
         IF array[Len(array)].len = 0 THEN PxResetUnit ELSE PxStop)

PxPlaces(array) ==
  IF array[Len(array)].rd
    THEN [i \in 1 .. array[Len(array)].len |-> <<Len(array), i - 1>>] ELSE <<>>

(* A call that reports success has had its own transfer on the bus, whole, *)
(* once and stopped, and has stored each byte it read in its place -       *)
(* whatever earlier calls have left, however often it was tried, and       *)
(* whoever came between as a master -, unless its own time ran out.        *)
PxFaithful ==
  px_pc = "done" /\ px_ret = Len(px_args) /\ PxServed(px_args) /\ ~ px_late
    => px_wire = PxExpected(px_args) /\ px_stored = PxPlaces(px_args)

(* The process does not wait for nobody, and only then for its timeout:    *)
(* the unit is at work or an interrupt pending, or another master has the  *)
(* bus, whose stop will have the transfer tried again.  Not so after ALD,  *)
(* which the handler ignores, nor when a slave's turn came between         *)
(* set_master and the start.                                               *)
PxSomebodyWorks ==
  px_pc = "wait" /\ px_num # 0 /\ ~ px_lost =>
    \/ PxIrq \/ px_bus \in {"other", "slave", "ending"}
    \/ PxReady /\ ("START" \in px_icr \/ px_bus = "ours")

(* As a slave the unit never keeps another master waiting: it goes on, or  *)
(* the handler is about to let it.                                         *)
PxSlaveGoesOn == px_bus = "slave" => "TB" \in px_icr \/ PxIrq

(* All this as long as the process has not overwritten what the handler    *)
(* wrote into ICR, nor entered master mode under a master that it serves,  *)
(* whose bytes then pass for its own.                                      *)
PxaKept == ~ px_torn => PxFaithful /\ PxSomebodyWorks /\ PxSlaveGoesOn

(* No call is on, and always comes to that again (CallsReturn).            *)
PxOver == px_pc = "idle" \/ px_torn
=============================================================================
