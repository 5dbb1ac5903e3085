------------------------------ MODULE I2cMv64 -------------------------------
(***************************************************************************)
(* The I2C bus of Marvell's host bridges (i2c-mv64xxx.c): a process in     *)
(* mv64xxx_i2c_xfer, which executes one message at a time, the interrupt   *)
(* handler, whose state machine is led by the controller's status, and the *)
(* controller.  A process that has waited too long asks the handler to     *)
(* abort, waits again, and resets the controller.  What runs under         *)
(* drv_data->lock is one step.                                             *)
(***************************************************************************)
EXTENDS Integers, SequencesExt

CONSTANTS
  MvTransfers,  \* the arrays of messages mv64xxx_i2c_xfer may be called with
  MvWord,       \* how many values bytes_left has
  MvMaxXfers    \* bound: calls

(* A message: address of ten bits, direction, length (16 bits, bytes_left  *)
(* has 32), I2C_M_NOSTART and I2C_M_REV_DIR_ADDR.                          *)
MvMessage ==
  [ten : BOOLEAN, rd : BOOLEAN, len : 0 .. MvWord - 1, nostart : BOOLEAN, rev : BOOLEAN]

ASSUME MvAssumption ==
  /\ MvTransfers \subseteq Seq(MvMessage) \ {<<>>}
  /\ MvWord \in Nat \ {0} /\ MvMaxXfers \in Nat

ENODEV    == -19
EIO       == -5
ETIMEDOUT == -110

VARIABLES
  mv_idle,   \* state = MV64XXX_I2C_STATE_IDLE; nothing else looks at state
  mv_aborting, mv_left, mv_posn, mv_block, mv_rc,
  mv_ack,    \* ACK in cntl_bits, and in the register
  mv_inten,  \* INTEN in the register
  mv_job,    \* what the controller has been told to do
  mv_status, \* its status, if it has an interrupt
  mv_ours,   \* it has the bus
  mv_wire, mv_stored, \* history: what this call has put on the bus, and stored
  mv_pc, mv_args, mv_i, mv_xfers

mvData   == <<mv_idle, mv_aborting, mv_left, mv_posn, mv_block, mv_rc, mv_ack>>
mvUnit   == <<mv_inten, mv_job, mv_status, mv_ours>>
mvRecord == <<mv_wire, mv_stored>>
mvCaller == <<mv_pc, mv_args, mv_i, mv_xfers>>
mvVars   == <<mvData, mvUnit, mvRecord, mvCaller>>

MvMsg == mv_args[mv_i]

(* What there is to be seen on the bus; a byte has its place, and is       *)
(* acknowledged or not.                                                    *)
MvStart        == <<"start">>
MvAddr(m)      == <<"addr", m.rd # m.rev>>
MvAddr2        == <<"addr2">>
MvTx(p)        == <<"tx", p>>
MvRx           == <<"rx">>
MvByte(b, ack) == <<b, ack>>
MvStop         == <<"stop">>
MvReset        == <<"reset">>

(* mv64xxx_i2c_hw_init.                                                    *)
MvInit ==
  /\ mv_idle = TRUE /\ mv_aborting = FALSE /\ mv_left = 0 /\ mv_posn = 0
  /\ mv_block = FALSE /\ mv_rc = 0 /\ mv_ack = FALSE
  /\ mv_inten = FALSE /\ mv_job = <<>> /\ mv_status = "" /\ mv_ours = FALSE
  /\ mv_wire = <<>> /\ mv_stored = <<>>
  /\ mv_pc = "idle" /\ mv_args = <<>> /\ mv_i = 0 /\ mv_xfers = 0

-----------------------------------------------------------------------------
(* The handler: mv64xxx_i2c_fsm and mv64xxx_i2c_do_action.                 *)

MvLess(n) == (n + MvWord - 1) % MvWord

MvIntr == mv_inten /\ mv_status # ""
MvSays(statuses) == MvIntr /\ ~ mv_idle /\ mv_status \in statuses

(* ACTION_SEND_..., ACTION_CONTINUE: the controller goes on with a job.    *)
MvGoOn(job) ==
  /\ mv_job' = job /\ mv_status' = ""
  /\ UNCHANGED <<mv_inten, mv_ours, mv_wire, mv_idle, mv_aborting, mv_block, mv_rc, mvCaller>>

(* ACTION_SEND_STOP, with the end that fsm has found.                      *)
MvEnd(rc, seen) ==
  /\ mv_idle' = TRUE /\ mv_rc' = rc
  /\ mv_inten' = FALSE /\ mv_job' = <<>> /\ mv_status' = "" /\ mv_ours' = FALSE
  /\ mv_block' = FALSE
  /\ mv_wire' = Append(mv_wire, seen)
  /\ UNCHANGED <<mv_aborting, mvCaller>>

(* The remnants of an operation that has been given up.                    *)
MvRemnant ==
  /\ MvIntr /\ mv_idle
  /\ MvEnd(mv_rc, MvStop)
  /\ UNCHANGED <<mv_left, mv_posn, mv_ack, mv_stored>>

MvStarted ==
  /\ MvSays({"start"})
  /\ MvGoOn(MvAddr(MvMsg))
  /\ UNCHANGED <<mv_left, mv_posn, mv_ack, mv_stored>>

MvSecond ==
  /\ MvSays({"wr addr ack", "rd addr ack"}) /\ MvMsg.ten
  /\ MvGoOn(MvAddr2)
  /\ UNCHANGED <<mv_left, mv_posn, mv_ack, mv_stored>>

(* A byte may be written: after the address, or a byte.                    *)
MvMayWrite ==
  \/ MvSays({"wr addr ack"}) /\ ~ MvMsg.ten
  \/ MvSays({"wr addr2 ack", "wr ack"})

MvWrite ==
  /\ MvMayWrite /\ mv_left # 0 /\ ~ (mv_aborting /\ mv_posn # 0)
  /\ MvGoOn(MvTx(mv_posn))
  /\ mv_left' = MvLess(mv_left) /\ mv_posn' = mv_posn + 1
  /\ UNCHANGED <<mv_ack, mv_stored>>

MvWritten ==
  /\ MvMayWrite /\ (mv_left = 0 \/ (mv_aborting /\ mv_posn # 0))
  /\ MvEnd(mv_rc, MvStop)
  /\ UNCHANGED <<mv_left, mv_posn, mv_ack, mv_stored>>

(* The last byte is refused, or the next one when aborting.                *)
MvAckNext(left) == left # 1 /\ ~ mv_aborting /\ mv_ack

MvMayRead ==
  \/ MvSays({"rd addr ack"}) /\ ~ MvMsg.ten
  \/ MvSays({"rd addr2 ack"})

MvReadFirst ==
  /\ MvMayRead /\ mv_left # 0
  /\ MvGoOn(MvRx)
  /\ mv_ack' = MvAckNext(mv_left)
  /\ UNCHANGED <<mv_left, mv_posn, mv_stored>>

MvReadNone ==
  /\ MvMayRead /\ mv_left = 0
  /\ MvEnd(mv_rc, MvStop)
  /\ UNCHANGED <<mv_left, mv_posn, mv_ack, mv_stored>>

MvStore ==
  /\ mv_stored' = Append(mv_stored, <<mv_i, mv_posn>>)
  /\ mv_posn' = mv_posn + 1

MvRead ==
  /\ MvSays({"rd data ack"})
  /\ MvGoOn(MvRx) /\ MvStore
  /\ mv_left' = MvLess(mv_left)
  /\ mv_ack' = MvAckNext(MvLess(mv_left))

MvReadLast ==
  /\ MvSays({"rd data no ack"})
  /\ MvEnd(mv_rc, MvStop) /\ MvStore
  /\ UNCHANGED <<mv_left, mv_ack>>

MvRefused ==
  /\ MvSays({"wr addr no ack", "wr no ack", "rd addr no ack"})
  /\ MvEnd(ENODEV, MvStop)
  /\ UNCHANGED <<mv_left, mv_posn, mv_ack, mv_stored>>

(* Any other status: hw_init, and the stop.                                *)
MvError ==
  /\ MvSays({"lost", "addr2 no ack"})
  /\ MvEnd(EIO, MvReset)
  /\ UNCHANGED <<mv_left, mv_posn, mv_ack, mv_stored>>

MvHandler ==
  \/ MvRemnant \/ MvStarted \/ MvSecond \/ MvWrite \/ MvWritten \/ MvReadFirst
  \/ MvReadNone \/ MvRead \/ MvReadLast \/ MvRefused \/ MvError

-----------------------------------------------------------------------------
(* External: the controller and the slaves.  A start waits for the bus; a  *)
(* byte goes over the bus that the controller has, and is acknowledged or  *)
(* not; arbitration may be lost.  A controller that is told to send a byte *)
(* without the bus does nothing.                                           *)

MvWorks(job) == mv_job = job /\ mv_status = ""
MvWorld == UNCHANGED <<mvData, mv_inten, mv_stored, mvCaller>>

MvGetsBus ==
  /\ MvWorks(MvStart)
  /\ mv_ours' = TRUE /\ mv_status' = "start"
  /\ mv_wire' = Append(mv_wire, MvStart)
  /\ UNCHANGED mv_job /\ MvWorld

MvMoves(job, ack, status) ==
  /\ MvWorks(job) /\ mv_ours
  /\ mv_status' = status
  /\ mv_wire' = Append(mv_wire, MvByte(job, ack))
  /\ UNCHANGED <<mv_job, mv_ours>> /\ MvWorld

MvSent ==
  \E ack \in BOOLEAN :
    \/ MvMoves(<<"addr", FALSE>>, ack, IF ack THEN "wr addr ack" ELSE "wr addr no ack")
    \/ MvMoves(<<"addr", TRUE>>, ack, IF ack THEN "rd addr ack" ELSE "rd addr no ack")
    \/ MvMoves(MvAddr2, ack, IF ~ ack THEN "addr2 no ack"
                             ELSE IF MvMsg.rd # MvMsg.rev THEN "rd addr2 ack" ELSE "wr addr2 ack")
    \/ \E p \in 0 .. mv_posn : MvMoves(MvTx(p), ack, IF ack THEN "wr ack" ELSE "wr no ack")

MvReceived == MvMoves(MvRx, mv_ack, IF mv_ack THEN "rd data ack" ELSE "rd data no ack")

MvLost ==
  /\ mv_job # <<>> /\ mv_status = "" /\ mv_ours
  /\ mv_ours' = FALSE /\ mv_status' = "lost"
  /\ UNCHANGED <<mv_job, mv_wire>> /\ MvWorld

MvController == MvGetsBus \/ MvSent \/ MvReceived \/ MvLost

-----------------------------------------------------------------------------
(* The process.                                                            *)

MvXfer ==
  /\ mv_pc = "idle" /\ mv_xfers < MvMaxXfers
  /\ mv_args' \in MvTransfers
  /\ mv_i' = 1 /\ mv_pc' = "execute" /\ mv_xfers' = mv_xfers + 1
  /\ UNCHANGED <<mvData, mvUnit, mvRecord>>

(* mv64xxx_i2c_execute_msg, with mv64xxx_i2c_prepare_for_io, up to the     *)
(* wait.                                                                   *)
MvExecute ==
  /\ mv_pc = "execute"
  /\ mv_aborting' = FALSE /\ mv_rc' = 0 /\ mv_ack' = TRUE
  /\ mv_idle' = FALSE /\ mv_block' = TRUE
  /\ mv_inten' = TRUE /\ mv_status' = ""
  /\ IF MvMsg.nostart /\ ~ MvMsg.rd
       THEN mv_job' = MvTx(0) /\ mv_posn' = 1 /\ mv_left' = MvLess(MvMsg.len)
       ELSE /\ mv_job' = IF MvMsg.nostart THEN MvRx ELSE MvStart
            /\ mv_posn' = 0 /\ mv_left' = MvMsg.len
  /\ mv_pc' = "wait"
  /\ UNCHANGED <<mv_ours, mvRecord, mv_args, mv_i, mv_xfers>>

MvGo(pc) == mv_pc' = pc /\ UNCHANGED <<mv_args, mv_i, mv_xfers>>

(* mv64xxx_i2c_wait_for_completion: both waits, each woken or timed out    *)
(* (the first also by a signal), and what follows the first under the      *)
(* lock.                                                                   *)
MvWoken ==
  /\ mv_pc \in {"wait", "abort"} /\ ~ mv_block
  /\ MvGo("executed")
  /\ UNCHANGED <<mvData, mvUnit, mvRecord>>

MvTimedOut ==
  /\ mv_pc \in {"wait", "abort"} /\ mv_block
  /\ MvGo(IF mv_pc = "wait" THEN "late" ELSE "locked")
  /\ UNCHANGED <<mvData, mvUnit, mvRecord>>

MvAbort ==
  /\ mv_pc = "late"
  /\ mv_rc' = ETIMEDOUT
  /\ mv_aborting' = (mv_aborting \/ mv_block)
  /\ MvGo(IF mv_block THEN "abort" ELSE "executed")
  /\ UNCHANGED <<mv_idle, mv_left, mv_posn, mv_block, mv_ack, mvUnit, mvRecord>>

(* The bus is locked: without the lock, state and then hw_init.            *)
MvGiveUp ==
  /\ mv_pc = "locked"
  /\ mv_idle' = TRUE
  /\ MvGo("reset")
  /\ UNCHANGED <<mv_aborting, mv_left, mv_posn, mv_block, mv_rc, mv_ack, mvUnit, mvRecord>>

MvHwInit ==
  /\ mv_pc = "reset"
  /\ mv_idle' = TRUE
  /\ mv_inten' = FALSE /\ mv_job' = <<>> /\ mv_status' = "" /\ mv_ours' = FALSE
  /\ mv_wire' = Append(mv_wire, MvReset)
  /\ MvGo("executed")
  /\ UNCHANGED <<mv_aborting, mv_left, mv_posn, mv_block, mv_rc, mv_ack, mv_stored>>

(* The loop of mv64xxx_i2c_xfer.                                           *)
MvNextMessage ==
  /\ mv_pc = "executed"
  /\ IF mv_rc < 0 \/ mv_i = Len(mv_args)
       THEN mv_pc' = "done" /\ mv_i' = mv_i
       ELSE mv_pc' = "execute" /\ mv_i' = mv_i + 1
  /\ UNCHANGED <<mvData, mvUnit, mvRecord, mv_args, mv_xfers>>

MvReturn ==
  /\ mv_pc = "done"
  /\ mv_pc' = "idle" /\ mv_args' = <<>> /\ mv_i' = 0 /\ UNCHANGED mv_xfers
  /\ mv_wire' = <<>> /\ mv_stored' = <<>>
  /\ UNCHANGED <<mvData, mvUnit>>

MvProcess ==
  \/ MvExecute \/ MvWoken \/ MvTimedOut \/ MvAbort \/ MvGiveUp \/ MvHwInit
  \/ MvNextMessage \/ MvReturn

MvNext == MvHandler \/ MvController \/ MvXfer \/ MvProcess

MvSpec == MvInit /\ [][MvNext]_mvVars

-----------------------------------------------------------------------------
(* Properties.                                                             *)

(* The flags that the driver does not claim to serve.                      *)
MvPlain(m) == ~ m.nostart /\ ~ m.rev

MvExpected(m) ==
  <<MvStart, MvByte(MvAddr(m), TRUE)>>
    \o (IF m.ten THEN <<MvByte(MvAddr2, TRUE)>> ELSE <<>>)
    \o [p \in 1 .. m.len |->
          IF m.rd THEN MvByte(MvRx, p # m.len) ELSE MvByte(MvTx(p - 1), TRUE)]
    \o <<MvStop>>

MvWhole == FlattenSeq([k \in DOMAIN mv_args |-> MvExpected(mv_args[k])])

(* A call that reports success has had all its messages on the bus, every  *)
(* byte acknowledged but the last of a read, each stopped: whatever was    *)
(* aborted, reset or lost before.                                          *)
MvFaithful ==
  mv_pc = "done" /\ mv_rc = 0 /\ (\A k \in DOMAIN mv_args : MvPlain(mv_args[k]))
    => mv_wire = MvWhole

(* The handler stores and sends in the message's buffer only, each byte in *)
(* its place, also while it aborts.                                        *)
MvInBuffer ==
  /\ \A k \in DOMAIN mv_stored :
       /\ mv_stored[k][2] < mv_args[mv_stored[k][1]].len
       /\ k > 1 /\ mv_stored[k][1] = mv_stored[k - 1][1]
            => mv_stored[k][2] = mv_stored[k - 1][2] + 1
  /\ mv_i # 0 /\ (MvMsg.nostart => MvMsg.len # 0) /\ mv_pc # "execute"
       => mv_posn <= MvMsg.len

(* Between calls no interrupt can come, which would use the messages of    *)
(* the call before, and the bus is free - also when the wait was given up. *)
MvGivenBack == mv_pc = "idle" => ~ mv_inten /\ ~ mv_ours

(* The process never waits for its timeout only: the controller works, or  *)
(* its interrupt is pending and enabled.                                   *)
MvSomebodyWorks ==
  mv_pc \in {"wait", "late", "abort"} /\ mv_block /\ ~ MvMsg.nostart =>
    mv_inten /\ (mv_status # "" \/ mv_job = MvStart \/ (mv_job # <<>> /\ mv_ours))

MvKept == MvFaithful /\ MvInBuffer /\ MvGivenBack /\ MvSomebodyWorks
=============================================================================
