-------------------------------- MODULE Smbus --------------------------------
(***************************************************************************)
(* SMBus operations over an I2C bus (i2c-core.c): a driver of a device     *)
(* asks for one, i2c_smbus_xfer_emulated makes one or two messages of it,  *)
(* with a checksum (PEC) when the client wants one, and takes the answer   *)
(* apart.  The slave, which knows the SMBus protocol, and a wire that may  *)
(* damage a byte are external.                                             *)
(***************************************************************************)
EXTENDS Integers, Sequences

CONSTANTS
  SmAddr,      \* the slave's address
  SmBytes,     \* the bytes that are sent
  SmDamages,   \* which bits of a byte may be turned over
  SmBlockMax   \* I2C_SMBUS_BLOCK_MAX

Byte == 0 .. 255

ASSUME SmAssumption ==
  /\ SmAddr \in 0 .. 127 /\ SmBytes \subseteq Byte
  /\ SmDamages \subseteq Byte \ {0} /\ SmBlockMax \in 1 .. 32

VARIABLES
  sm_pc, sm_call,
  sm_msgs,    \* msg[0 .. num-1]; buf is msgbuf0 or msgbuf1 up to len
  sm_status,  \* of i2c_transfer
  sm_ret, sm_data,
  sm_took, sm_gave, sm_damaged  \* history: what the slave got and sent, and a damaged byte

smVars == <<sm_pc, sm_call, sm_msgs, sm_status, sm_ret, sm_data, sm_took, sm_gave, sm_damaged>>

-----------------------------------------------------------------------------
(* The checksum.                                                           *)

\* The exclusive or, a table of two bytes.
SmXors ==
  [a \in Byte |-> [b \in Byte |->
     LET bit(w) == w * ((a \div w + b \div w) % 2)
     IN  bit(1) + bit(2) + bit(4) + bit(8) + bit(16) + bit(32) + bit(64) + bit(128)]]
SmXor(a, b) == SmXors[a][b]

\* crc8, of a byte << 8: eight steps of the division by POLY, here POLY << 3.
SmPoly == 4208 * 8
SmDivide(data) ==
  (2 * (IF data < 32768 THEN data
        ELSE 256 * SmXor(data \div 256, SmPoly \div 256) + SmXor(data % 256, SmPoly % 256)))
    % 65536
SmCrc8 ==
  [b \in Byte |->
     LET two(data)  == SmDivide(SmDivide(data))
         four(data) == two(two(data))
     IN  four(four(b * 256)) \div 256]

SmPec(crc, bytes) ==
  LET upto[i \in 0 .. Len(bytes)] ==
        IF i = 0 THEN crc ELSE SmCrc8[SmXor(upto[i - 1], bytes[i])]
  IN  upto[Len(bytes)]

SmAddrByte(m) == 2 * SmAddr + (IF m.rd THEN 1 ELSE 0)

\* i2c_smbus_msg_pec: the address goes first.
SmMsgPec(pec, m) == SmPec(SmPec(pec, <<SmAddrByte(m)>>), m.buf)

-----------------------------------------------------------------------------
(* The operations.  A call of i2c_smbus_xfer has its data as the part of   *)
(* the union that the size names: <<byte>>, <<word>> or a block, whose     *)
(* length is block[0].                                                     *)

SmCall(size, rd, command, data) ==
  [size |-> size, rd |-> rd, command |-> command, data |-> data]

SmReadByte            == SmCall("BYTE", TRUE, 0, <<>>)
SmWriteByte(v)        == SmCall("BYTE", FALSE, v, <<>>)
SmReadByteData(c)     == SmCall("BYTE_DATA", TRUE, c, <<>>)
SmWriteByteData(c, v) == SmCall("BYTE_DATA", FALSE, c, <<v>>)
SmReadWordData(c)     == SmCall("WORD_DATA", TRUE, c, <<>>)
SmWriteWordData(c, w) == SmCall("WORD_DATA", FALSE, c, <<w>>)
SmProcessCall(c, w)   == SmCall("PROC_CALL", FALSE, c, <<w>>)
SmReadBlock(c)        == SmCall("BLOCK_DATA", TRUE, c, <<>>)

\* The wrappers cut a block to what SMBus allows.
SmCut(values) == SubSeq(values, 1, IF Len(values) > SmBlockMax THEN SmBlockMax ELSE Len(values))
SmWriteBlock(c, values)    == SmCall("BLOCK_DATA", FALSE, c, SmCut(values))
SmReadI2cBlock(c, room)    == SmCall("I2C_BLOCK_DATA", TRUE, c, SmCut(room))
SmWriteI2cBlock(c, values) == SmCall("I2C_BLOCK_DATA", FALSE, c, SmCut(values))

\* What has no wrapper here.
SmQuick(rd)                  == SmCall("QUICK", rd, 0, <<>>)
SmBlockProcessCall(c, block) == SmCall("BLOCK_PROC_CALL", FALSE, c, block)
SmWriteUncut(size, c, block) == SmCall(size, FALSE, c, block)

SmWords  == {b + 256 * d : b \in SmBytes, d \in SmBytes}
SmBlocks == UNION {[1 .. n -> SmBytes] : n \in 0 .. SmBlockMax + 1}

SmCalls ==
  {SmReadByte} \cup {SmQuick(rd) : rd \in BOOLEAN} \cup {SmWriteByte(v) : v \in SmBytes}
    \cup (UNION {{SmReadByteData(c), SmReadWordData(c), SmReadBlock(c)} : c \in SmBytes})
    \cup {SmWriteByteData(c, v) : c \in SmBytes, v \in SmBytes}
    \cup (UNION {{SmWriteWordData(c, w), SmProcessCall(c, w)} : c \in SmBytes, w \in SmWords})
    \cup (UNION {{SmWriteBlock(c, b), SmReadI2cBlock(c, b), SmWriteI2cBlock(c, b),
                  SmBlockProcessCall(c, b), SmWriteUncut("BLOCK_DATA", c, b),
                  SmWriteUncut("I2C_BLOCK_DATA", c, b)} : c \in SmBytes, b \in SmBlocks})

-----------------------------------------------------------------------------
(* i2c_smbus_xfer_emulated.                                                *)

SmCounts(call) == call.size \in {"BLOCK_DATA", "BLOCK_PROC_CALL"}
SmBlock(call)  == SmCounts(call) \/ call.size = "I2C_BLOCK_DATA"
SmTurns(call)  == call.size \in {"PROC_CALL", "BLOCK_PROC_CALL"}
SmReads(call)  == call.rd \/ SmTurns(call)

\* Too long a block to write.
SmInvalid(call) == SmBlock(call) /\ ~ call.rd /\ Len(call.data) > SmBlockMax

SmPayload(call) ==
  CASE call.size \in {"QUICK", "BYTE"}           -> <<>>
    [] call.size = "BYTE_DATA"                   -> call.data
    [] call.size \in {"WORD_DATA", "PROC_CALL"}  ->
           <<call.data[1] % 256, call.data[1] \div 256>>
    [] SmCounts(call)                            -> <<Len(call.data)>> \o call.data
    [] OTHER                                     -> call.data

SmWrite(bytes) == [rd |-> FALSE, buf |-> bytes, len |-> Len(bytes), counted |-> FALSE]
SmRead(n)      == [rd |-> TRUE, buf |-> <<>>, len |-> n, counted |-> FALSE]
SmReadCounted  == [SmRead(1) EXCEPT !.counted = TRUE]

SmAnswer(call) ==
  CASE call.size \in {"BYTE", "BYTE_DATA"}      -> SmRead(1)
    [] call.size \in {"WORD_DATA", "PROC_CALL"} -> SmRead(2)
    [] SmCounts(call)                           -> SmReadCounted
    [] OTHER                                    -> SmRead(Len(call.data))

SmPlain(call) == call.size \notin {"QUICK", "BYTE"} /\ ~ SmTurns(call)

SmMessages(call) ==
  CASE call.size = "QUICK" -> <<IF call.rd THEN SmRead(0) ELSE SmWrite(<<>>)>>
    [] call.size = "BYTE"  -> <<IF call.rd THEN SmAnswer(call) ELSE SmWrite(<<call.command>>)>>
    [] SmTurns(call)       -> <<SmWrite(<<call.command>> \o SmPayload(call)), SmAnswer(call)>>
    [] SmPlain(call) /\ call.rd -> <<SmWrite(<<call.command>>), SmAnswer(call)>>
    [] OTHER               -> <<SmWrite(<<call.command>> \o SmPayload(call))>>

SmChecked(call) == call.pec /\ call.size \notin {"QUICK", "I2C_BLOCK_DATA"}

SmWithPec(msgs) ==
  LET last == msgs[Len(msgs)] IN
  IF last.rd
    THEN [msgs EXCEPT ![Len(msgs)].len = @ + 1]
    ELSE <<SmWrite(Append(last.buf, SmMsgPec(0, last)))>>

SmInit ==
  /\ sm_pc = "idle" /\ sm_call = <<>> /\ sm_msgs = <<>> /\ sm_status = 0
  /\ sm_ret = 0 /\ sm_data = <<>> /\ sm_took = <<>> /\ sm_gave = <<>> /\ sm_damaged = FALSE

SmXfer ==
  /\ sm_pc = "idle"
  /\ \E call \in SmCalls, pec \in BOOLEAN :
       LET c    == [size |-> call.size, rd |-> call.rd, command |-> call.command,
                    data |-> call.data, pec |-> pec]
           msgs == SmMessages(c)
       IN  /\ sm_call' = c
           /\ IF SmInvalid(c)
                THEN sm_pc' = "done" /\ sm_ret' = -22 /\ UNCHANGED sm_msgs
                ELSE /\ sm_pc' = "transfer" /\ UNCHANGED sm_ret
                     /\ sm_msgs' = IF SmChecked(c) THEN SmWithPec(msgs) ELSE msgs
  /\ UNCHANGED <<sm_status, sm_data, sm_took, sm_gave, sm_damaged>>

SmLast == sm_msgs[Len(sm_msgs)]

\* i2c_smbus_check_pec: the last byte is hidden.
SmPartial == IF Len(sm_msgs) = 2 THEN SmMsgPec(0, sm_msgs[1]) ELSE 0
\* Mutant: it is not.
SmHidden_not == SmLast
SmHidden  == [SmLast EXCEPT !.buf = SubSeq(@, 1, SmLast.len - 1)]
SmBadPec  ==
  SmChecked(sm_call) /\ SmLast.rd /\ SmLast.buf[SmLast.len] # SmMsgPec(SmPartial, SmHidden)

SmTakeApart(bytes) ==
  CASE sm_call.size \in {"BYTE", "BYTE_DATA"}      -> <<bytes[1]>>
    [] sm_call.size \in {"WORD_DATA", "PROC_CALL"} -> <<bytes[1] + bytes[2] * 256>>
    [] SmCounts(sm_call)                           -> SubSeq(bytes, 2, bytes[1] + 1)
    [] OTHER                                       -> SubSeq(bytes, 1, Len(sm_call.data))

SmFinish ==
  /\ sm_pc = "transferred" /\ sm_pc' = "done"
  /\ sm_ret' = CASE sm_status < 0 -> sm_status
                 [] sm_status >= 0 /\ SmBadPec -> -74
                 [] OTHER -> 0
  /\ sm_data' = IF sm_ret' = 0 /\ SmReads(sm_call) /\ sm_call.size # "QUICK"
                  THEN SmTakeApart(SmLast.buf) ELSE sm_data
  /\ UNCHANGED <<sm_call, sm_msgs, sm_status, sm_took, sm_gave, sm_damaged>>

SmReturn ==
  /\ sm_pc = "done" /\ sm_pc' = "idle"
  /\ sm_call' = <<>> /\ sm_msgs' = <<>> /\ sm_status' = 0 /\ sm_ret' = 0 /\ sm_data' = <<>>
  /\ sm_took' = <<>> /\ sm_gave' = <<>> /\ sm_damaged' = FALSE

-----------------------------------------------------------------------------
(* External.  The checksum as the protocol defines it: the remainder of    *)
(* the bits, as a polynomial, times x^8 by x^8 + x^2 + x + 1.              *)

SmTimes == [p \in Byte |-> SmXor((2 * p) % 256, IF p < 128 THEN 0 ELSE 7)]
SmTimesX(p) == SmTimes[p]
SmPower ==
  LET x[i \in 0 .. 16 * SmBlockMax + 47] == IF i = 0 THEN 1 ELSE SmTimesX(x[i - 1])
  IN  x

\* Whether bit i of the bytes is set, the last byte's lowest one being 0.
SmBit(bytes, i) ==
  (bytes[Len(bytes) - i \div 8] \div <<1, 2, 4, 8, 16, 32, 64, 128>>[(i % 8) + 1]) % 2 = 1
SmRemainder(bytes) ==
  LET add[i \in 0 .. 8 * Len(bytes)] ==
        IF i = 0 THEN 0
        ELSE IF SmBit(bytes, i - 1) THEN SmXor(add[i - 1], SmPower[i + 7]) ELSE add[i - 1]
  IN  add[8 * Len(bytes)]

\* What the slave has seen when a message is over: its address and bytes.
SmSeen(m, bytes) == <<SmAddrByte(m)>> \o bytes

SmDamage(bytes, i, bits) == [bytes EXCEPT ![i] = SmXor(@, bits)]
SmDamaged(bytes, from) ==
  {bytes} \cup {SmDamage(bytes, i, bits) : i \in from .. Len(bytes), bits \in SmDamages}

\* The slave's answers to a message that reads: the count, then as many.
SmAnswers(m) ==
  IF m.counted THEN UNION {{<<n>> \o b : b \in [1 .. n -> SmBytes]} : n \in 0 .. SmBlockMax}
  ELSE [1 .. m.len - (IF SmChecked(sm_call) THEN 1 ELSE 0) -> SmBytes]

\* Any error of the bus driver.
SmFails ==
  /\ sm_pc = "transfer" /\ sm_pc' = "transferred" /\ sm_status' = -5
  /\ UNCHANGED <<sm_call, sm_msgs, sm_ret, sm_data, sm_took, sm_gave, sm_damaged>>

\* A slave that checks the PEC of a write refuses it.
SmWritten ==
  /\ sm_pc = "transfer" /\ ~ SmLast.rd /\ sm_pc' = "transferred"
  /\ \E got \in SmDamaged(SmLast.buf, 1) :
       LET wrong == SmChecked(sm_call) /\ SmRemainder(SmSeen(SmLast, got)) # 0 IN
       /\ sm_status' = IF wrong THEN -121 ELSE 1
       /\ sm_took' = IF SmChecked(sm_call) THEN SubSeq(got, 1, Len(got) - 1) ELSE got
       /\ sm_damaged' = (got # SmLast.buf)
  /\ UNCHANGED <<sm_call, sm_msgs, sm_ret, sm_data, sm_gave>>

\* The count itself is not damaged: the bus driver could not tell the end.
SmAnswered ==
  /\ sm_pc = "transfer" /\ SmLast.rd /\ sm_pc' = "transferred"
  /\ \E took \in IF Len(sm_msgs) = 2 THEN SmDamaged(sm_msgs[1].buf, 1) ELSE {<<>>} :
     \E answer \in SmAnswers(SmLast) :
       LET seen  == (IF Len(sm_msgs) = 2 THEN SmSeen(sm_msgs[1], took) ELSE <<>>)
                      \o SmSeen(SmLast, answer)
           sends == IF SmChecked(sm_call) THEN Append(answer, SmRemainder(seen)) ELSE answer
           lost  == Len(sm_msgs) = 2 /\ took # sm_msgs[1].buf
       IN  \E got \in IF lost THEN {sends} ELSE SmDamaged(sends, IF SmLast.counted THEN 2 ELSE 1) :
             /\ sm_took' = took /\ sm_gave' = answer
             /\ sm_msgs' = [sm_msgs EXCEPT ![Len(sm_msgs)].buf = got,
                                           ![Len(sm_msgs)].len = Len(got)]
             /\ sm_damaged' = (lost \/ got # sends)
  /\ sm_status' = Len(sm_msgs)
  /\ UNCHANGED <<sm_call, sm_ret, sm_data>>

\* i2c_transfer executes fewer messages than it was given, the drivers' way to
\* report a timeout.  A buffer that was to be filled holds what the stack held,
\* such as an earlier answer with its checksum; its length is the one asked
\* for when the slave's count has not come.
SmStopsShort ==
  /\ sm_pc = "transfer" /\ sm_pc' = "transferred"
  /\ sm_status' \in 0 .. Len(sm_msgs) - 1
  /\ \E n \in 0 .. Len(sm_msgs[1].buf) :
       /\ sm_status' = 1 => n = Len(sm_msgs[1].buf)
       /\ sm_took' = SubSeq(sm_msgs[1].buf, 1, n)
  /\ IF ~ SmLast.rd THEN UNCHANGED sm_msgs
     ELSE \E stale \in SmAnswers(SmLast), right \in BOOLEAN :
            LET sum == IF right THEN SmMsgPec(SmPartial, [SmLast EXCEPT !.buf = stale]) ELSE 0
                buf == IF SmChecked(sm_call) THEN Append(stale, sum) ELSE stale
            IN  \E n \in {SmLast.len, Len(buf)} :
                  sm_msgs' = [sm_msgs EXCEPT ![Len(sm_msgs)].buf = buf, ![Len(sm_msgs)].len = n]
  /\ UNCHANGED <<sm_call, sm_ret, sm_data, sm_gave, sm_damaged>>

SmNext == SmXfer \/ SmFails \/ SmStopsShort \/ SmWritten \/ SmAnswered \/ SmFinish \/ SmReturn
SmSpec == SmInit /\ [][SmNext]_smVars

-----------------------------------------------------------------------------
(* Properties.                                                             *)

\* What the slave is to get.
SmMeant ==
  CASE sm_call.size = "QUICK" \/ (sm_call.size = "BYTE" /\ sm_call.rd) -> <<>>
    [] sm_call.rd /\ sm_call.size \notin {"QUICK", "BYTE"} -> <<sm_call.command>>
    [] OTHER -> <<sm_call.command>> \o SmPayload(sm_call)

SmDone ==
  /\ sm_took = SmMeant
  /\ SmReads(sm_call) /\ sm_call.size # "QUICK" =>
       SmPayload([sm_call EXCEPT !.data = sm_data,
                                 !.size = IF @ = "BYTE" THEN "BYTE_DATA" ELSE @]) = sm_gave

\* The bus driver executed fewer messages than it was given, and no error.
SmShort == sm_status \in 0 .. Len(sm_msgs) - 1

(* What is reported as done was done: the slave got the command and the    *)
(* data, the caller has the slave's answer without its count and checksum, *)
(* whatever byte was damaged when the checksum is used.  Not when          *)
(* i2c_transfer stopped short: see SmZeroOnSuccess.                        *)
SmFaithful ==
  sm_pc = "done" /\ sm_ret = 0 /\ ~ SmShort /\ (SmChecked(sm_call) \/ ~ sm_damaged) => SmDone

(* A checksum is never found wrong, by either, when all bytes came over    *)
(* well.                                                                   *)
SmNoFalseAlarm == sm_pc = "done" /\ ~ SmShort /\ ~ sm_damaged => sm_ret \notin {-74, -121}

(* The messages stay in msgbuf0 and msgbuf1, with count and checksum.      *)
SmInBuffers ==
  \A k \in DOMAIN sm_msgs :
    sm_msgs[k].len <= IF k = 1 THEN SmBlockMax + 3 ELSE SmBlockMax + 2

(* An operation does what it reports, and reports no error that was not.   *)
SmKept == SmFaithful /\ SmNoFalseAlarm /\ SmInBuffers

(* i2c_smbus_xfer "executes an SMBus protocol operation, and returns a     *)
(* negative errno code else zero on success": zero, with no byte damaged,  *)
(* means that the operation was executed.                                  *)
SmZeroOnSuccess == sm_pc = "done" /\ sm_ret = 0 /\ ~ sm_damaged => SmDone
=============================================================================
