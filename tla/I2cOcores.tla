----------------------------- MODULE I2cOcores ------------------------------
(***************************************************************************)
(* The OpenCores I2C bus (i2c-ocores.c): a process in ocores_xfer, the     *)
(* interrupt handler, which looks at the state only, and the controller.   *)
(* There is no lock.  One processor: the handler runs with interrupts off  *)
(* and is one step; the process may be held up between any two of its own. *)
(***************************************************************************)
EXTENDS Integers, SequencesExt

CONSTANTS
  OcTransfers,  \* the arrays of messages ocores_xfer may be called with
  OcMaxXfers    \* bound: calls

OcMessage == [rd : BOOLEAN, len : Nat, nostart : BOOLEAN]

ASSUME OcAssumption ==
  /\ OcTransfers \subseteq Seq(OcMessage) \ {<<>>}
  /\ OcMaxXfers \in Nat

VARIABLES
  oc_state, oc_msgs, oc_msg, oc_pos, oc_nmsgs, \* struct ocores_i2c; msg is a place in msgs
  oc_cmd,    \* the command the controller works on
  oc_data,   \* DATA, when written
  oc_irq,    \* its interrupt: "no", "ack", "nack", "lost"
  oc_ours,   \* it has the bus
  oc_wire, oc_stored,  \* history: what this call has put on the bus, and stored
  oc_early,  \* history: a call returned before its stop, and what came of it is not known
  oc_pc, oc_args, oc_ret, oc_xfers

ocFields == <<oc_state, oc_msgs, oc_msg, oc_pos, oc_nmsgs>>
ocUnit   == <<oc_cmd, oc_data, oc_irq, oc_ours>>
ocRecord == <<oc_wire, oc_stored, oc_early>>
ocCaller == <<oc_pc, oc_args, oc_ret, oc_xfers>>
ocVars   == <<ocFields, ocUnit, ocRecord, ocCaller>>

OcAddr(m) == <<"addr", m.rd>>
OcTx(k, p) == <<"tx", k, p>>
OcRx(ack) == <<"rx", ack>>
OcStop    == <<"stop">>

(* As ocores_init leaves the controller.                                   *)
OcInit ==
  /\ oc_state = "DONE" /\ oc_msgs = <<>> /\ oc_msg = 1 /\ oc_pos = 0 /\ oc_nmsgs = 0
  /\ oc_cmd = "none" /\ oc_data = <<>> /\ oc_irq = "no" /\ oc_ours = FALSE
  /\ oc_wire = <<>> /\ oc_stored = <<>> /\ oc_early = FALSE
  /\ oc_pc = "idle" /\ oc_args = <<>> /\ oc_ret = 0 /\ oc_xfers = 0

-----------------------------------------------------------------------------
(* ocores_process.                                                         *)

(* A command acknowledges the interrupt and sets the controller to work.   *)
OcCommand(cmd) == oc_cmd' = cmd /\ oc_irq' = "no"

OcOver == oc_state \in {"DONE", "ERROR"}

(* The stop has been sent: whoever waits is woken.                         *)
OcStopped ==
  /\ oc_irq # "no" /\ OcOver
  /\ oc_irq' = "no"
  /\ UNCHANGED <<ocFields, oc_cmd, oc_data, oc_ours, ocRecord, ocCaller>>

(* Arbitration lost, or an address or a byte refused.                      *)
OcFailed ==
  /\ ~ OcOver
  /\ oc_irq = "lost" \/ (oc_irq = "nack" /\ oc_state \in {"START", "WRITE"})
  /\ oc_state' = "ERROR" /\ OcCommand("stop")
  /\ UNCHANGED <<oc_msgs, oc_msg, oc_pos, oc_nmsgs, oc_data, oc_ours, ocRecord, ocCaller>>

OcGoesOn == ~ OcOver /\ (oc_irq = "ack" \/ (oc_irq = "nack" /\ oc_state = "READ"))

OcDirection(k) == IF oc_msgs[k].rd THEN "READ" ELSE "WRITE"

(* The byte that has been read, if one has, and the place after it.        *)
OcMoved == IF oc_state = "READ" THEN oc_pos + 1 ELSE oc_pos
OcStore ==
  oc_stored' = IF oc_state = "READ" THEN Append(oc_stored, <<oc_msg, oc_pos>>) ELSE oc_stored

(* Byte p of message k is to be read or written, in the given state.       *)
OcByte(k, p, state) ==
  /\ oc_state' = state
  /\ IF state = "READ"
       THEN /\ OcCommand(IF p = oc_msgs[k].len - 1 THEN "read nack" ELSE "read ack")
            /\ oc_pos' = p /\ UNCHANGED oc_data
       ELSE OcCommand("write") /\ oc_data' = OcTx(k, p) /\ oc_pos' = p + 1

OcBytes ==
  /\ OcGoesOn /\ OcStore
  /\ OcMoved # oc_msgs[oc_msg].len
  /\ OcByte(oc_msg, OcMoved, IF oc_state = "READ" THEN "READ" ELSE OcDirection(oc_msg))
  /\ UNCHANGED <<oc_msgs, oc_msg, oc_nmsgs, oc_ours, oc_wire, oc_early, ocCaller>>

OcEndOfMsg ==
  /\ OcGoesOn /\ OcStore
  /\ OcMoved = oc_msgs[oc_msg].len
  /\ oc_msg' = oc_msg + 1 /\ oc_nmsgs' = oc_nmsgs - 1
  /\ UNCHANGED <<oc_msgs, oc_ours, oc_wire, oc_early, ocCaller>>

OcNextStart ==
  /\ OcEndOfMsg /\ oc_nmsgs > 1 /\ ~ oc_msgs[oc_msg + 1].nostart
  /\ oc_state' = "START" /\ oc_pos' = 0
  /\ oc_data' = OcAddr(oc_msgs[oc_msg + 1]) /\ OcCommand("start")

OcNextOn ==
  /\ OcEndOfMsg /\ oc_nmsgs > 1 /\ oc_msgs[oc_msg + 1].nostart
  /\ OcByte(oc_msg + 1, 0, OcDirection(oc_msg + 1))

OcLast ==
  /\ OcEndOfMsg /\ oc_nmsgs <= 1
  /\ oc_state' = "DONE" /\ oc_pos' = 0 /\ OcCommand("stop") /\ UNCHANGED oc_data

OcHandler == OcStopped \/ OcFailed \/ OcBytes \/ OcNextStart \/ OcNextOn \/ OcLast

-----------------------------------------------------------------------------
(* External: the controller finishes a command and interrupts.             *)

OcFinishes(irq, seen, ours) ==
  /\ oc_irq' = irq /\ oc_cmd' = "none" /\ oc_ours' = ours
  /\ oc_wire' = oc_wire \o seen
  /\ UNCHANGED <<oc_data, ocFields, oc_stored, oc_early, ocCaller>>

OcSent ==
  /\ oc_cmd = "start" \/ (oc_cmd = "write" /\ oc_ours)
  /\ \E irq \in {"ack", "nack"} : OcFinishes(irq, <<oc_data>>, TRUE)

OcReceived ==
  /\ oc_cmd \in {"read ack", "read nack"} /\ oc_ours
  /\ OcFinishes(IF oc_cmd = "read ack" THEN "ack" ELSE "nack", <<OcRx(oc_cmd = "read ack")>>, TRUE)

OcSentStop == oc_cmd = "stop" /\ OcFinishes("ack", <<OcStop>>, FALSE)

OcLost == oc_cmd \in {"start", "write"} /\ OcFinishes("lost", <<>>, FALSE)

OcController == OcSent \/ OcReceived \/ OcSentStop \/ OcLost

-----------------------------------------------------------------------------
(* The process.                                                            *)

(* The fields are set before the command is given.                         *)
OcXfer ==
  /\ oc_pc = "idle" /\ oc_xfers < OcMaxXfers
  /\ oc_args' \in OcTransfers
  /\ oc_msgs' = oc_args' /\ oc_msg' = 1 /\ oc_pos' = 0
  /\ oc_nmsgs' = Len(oc_args') /\ oc_state' = "START"
  /\ oc_pc' = "start" /\ oc_xfers' = oc_xfers + 1
  /\ UNCHANGED <<ocUnit, ocRecord, oc_ret>>

OcStart ==
  /\ oc_pc = "start"
  /\ oc_data' = OcAddr(oc_msgs[1]) /\ OcCommand("start")
  /\ oc_wire' = <<>>
  /\ oc_pc' = "wait"
  /\ UNCHANGED <<ocFields, oc_ours, oc_stored, oc_early, oc_args, oc_ret, oc_xfers>>

(* wait_event_timeout looks at the state, and not at what the handler has  *)
(* still to do: it may return before the stop has been sent.               *)
OcWaited ==
  /\ oc_pc = "wait" /\ OcOver
  /\ oc_ret' = IF oc_state = "DONE" THEN Len(oc_args) ELSE -5
  /\ oc_early' = (oc_early \/ oc_cmd # "none" \/ oc_irq # "no")
  /\ oc_pc' = "done"
  /\ UNCHANGED <<ocFields, ocUnit, oc_wire, oc_stored, oc_args, oc_xfers>>

OcTimedOut ==
  /\ oc_pc = "wait" /\ ~ OcOver
  /\ oc_ret' = -110
  /\ oc_early' = TRUE
  /\ oc_pc' = "done"
  /\ UNCHANGED <<ocFields, ocUnit, oc_wire, oc_stored, oc_args, oc_xfers>>

OcReturn ==
  /\ oc_pc = "done"
  /\ oc_pc' = "idle" /\ oc_args' = <<>> /\ oc_ret' = 0 /\ oc_stored' = <<>>
  /\ UNCHANGED <<ocFields, ocUnit, oc_wire, oc_early, oc_xfers>>

OcProcess == OcStart \/ OcWaited \/ OcTimedOut \/ OcReturn
OcNext == OcHandler \/ OcController \/ OcXfer \/ OcProcess

OcSpec == OcInit /\ [][OcNext]_ocVars

-----------------------------------------------------------------------------
(* Properties.  They speak of calls before which every call has waited for *)
(* its stop: another one's stop, or what it had still to do, may be taken  *)
(* for the next call's first byte.                                         *)

(* What message k puts on the bus - a start unless it continues another -, *)
(* and where the bytes it reads go.                                        *)
OcPart(array, k) ==
  (IF array[k].nostart /\ k > 1 THEN <<>> ELSE <<OcAddr(array[k])>>)
    \o [i \in 1 .. array[k].len |->
          IF array[k].rd THEN OcRx(i # array[k].len) ELSE OcTx(k, i - 1)]
OcPlace(array, k) ==
  [i \in 1 .. (IF array[k].rd THEN array[k].len ELSE 0) |-> <<k, i - 1>>]

OcWhole  == FlattenSeq([k \in DOMAIN oc_args |-> OcPart(oc_args, k)])
OcPlaces == FlattenSeq([k \in DOMAIN oc_args |-> OcPlace(oc_args, k)])

(* Success: every message, in order, turned where the direction turns, and *)
(* stopped; what was read is in its place.                                 *)
OcFaithful ==
  oc_pc = "done" /\ oc_ret > 0
    => oc_wire = Append(OcWhole, OcStop) /\ oc_stored = OcPlaces /\ ~ oc_ours

(* A process that waits is not waiting for its timeout only.               *)
OcSomebodyWorks ==
  oc_pc = "wait" /\ ~ OcOver
    => oc_irq # "no" \/ oc_cmd \in {"start", "stop"} \/ (oc_cmd # "none" /\ oc_ours)

(* Between calls nothing is left that could interrupt.                     *)
OcQuiet == oc_pc = "idle" => oc_cmd = "none" /\ oc_irq = "no"

OcKept == oc_early \/ (OcFaithful /\ OcSomebodyWorks /\ OcQuiet)
=============================================================================
