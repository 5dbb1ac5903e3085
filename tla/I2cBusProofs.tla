---------------------------- MODULE I2cBusProofs ----------------------------
(***************************************************************************)
(* Theorems about the other bus drivers, OpenCores', Marvell's and the     *)
(* PXA's, and about all together.  Each has one inductive invariant, which *)
(* says for every place of process and handler what the controller is      *)
(* doing and how far the messages are on the bus.                          *)
(***************************************************************************)
EXTENDS I2cProofs, I2cBusses

-----------------------------------------------------------------------------
(***************************************************************************)
(* OpenCores'.                                                             *)
(***************************************************************************)
OcEvents ==
  {OcStop, OcRx(TRUE), OcRx(FALSE)} \cup {OcAddr(m) : m \in OcMessage}
    \cup UNION {{OcTx(k, p) : p \in Nat} : k \in Nat}

OcParts(a)   == [k \in DOMAIN a |-> OcPart(a, k)]
OcGoes(a)    == [k \in DOMAIN a |-> OcPlace(a, k)]
OcHead(a, k) == IF a[k].nostart /\ k > 1 THEN 0 ELSE 1

(* What a message asks for: its start, unless it continues another, and    *)
(* then its bytes.                                                         *)
LEMMA OcPartIs ==
  ASSUME NEW a \in Seq(OcMessage), NEW k \in 1 .. Len(a)
  PROVE  /\ OcPart(a, k) \in Seq(OcEvents)
         /\ a[k].len \in Nat /\ a[k].rd \in BOOLEAN /\ a[k].nostart \in BOOLEAN
         /\ Len(OcPart(a, k)) = OcHead(a, k) + a[k].len
         /\ OcHead(a, k) = 1 => OcPart(a, k)[1] = OcAddr(a[k])
         /\ \A i \in 1 .. a[k].len :
              OcPart(a, k)[OcHead(a, k) + i]
                = IF a[k].rd THEN OcRx(i # a[k].len) ELSE OcTx(k, i - 1)
<1>. DEFINE m == a[k]
            hd == IF m.nostart /\ k > 1 THEN <<>> ELSE <<OcAddr(m)>>
            bytes == [i \in 1 .. m.len |-> IF m.rd THEN OcRx(i # m.len) ELSE OcTx(k, i - 1)]
<1>1. m \in OcMessage /\ k \in Nat
  BY ElementOfSeq, LenProperties
<1>2. m.len \in Nat /\ m.rd \in BOOLEAN /\ m.nostart \in BOOLEAN
  BY <1>1 DEF OcMessage
<1>3. OcPart(a, k) = hd \o bytes
  BY DEF OcPart
<1>4. hd \in Seq(OcEvents) /\ Len(hd) = OcHead(a, k) /\ (OcHead(a, k) = 1 => hd[1] = OcAddr(m))
  <2>1. OcAddr(m) \in OcEvents
    BY <1>1 DEF OcEvents
  <2>2. CASE m.nostart /\ k > 1
    BY <2>2 DEF OcHead
  <2>3. CASE ~ (m.nostart /\ k > 1)
    BY <2>1, <2>3 DEF OcHead
  <2>. QED BY <2>2, <2>3
<1>5. bytes \in Seq(OcEvents) /\ Len(bytes) = m.len
  <2>1. \A i \in 1 .. m.len : (IF m.rd THEN OcRx(i # m.len) ELSE OcTx(k, i - 1)) \in OcEvents
    <3>. SUFFICES ASSUME NEW i \in 1 .. m.len
                  PROVE  OcRx(i # m.len) \in OcEvents /\ OcTx(k, i - 1) \in OcEvents
      OBVIOUS
    <3>1. OcRx(TRUE) \in OcEvents /\ OcRx(FALSE) \in OcEvents
      BY DEF OcEvents
    <3>2. OcRx(i # m.len) \in OcEvents
      <4>1. CASE i = m.len
        <5>1. (i # m.len) = FALSE
          BY <4>1
        <5>. QED BY <3>1, <5>1
      <4>2. CASE i # m.len
        <5>1. (i # m.len) = TRUE
          BY <4>2
        <5>. QED BY <3>1, <5>1
      <4>. QED BY <4>1, <4>2
    <3>3. OcTx(k, i - 1) \in OcEvents
      <4>1. PICK p \in Nat : p = i - 1
        BY <1>2
      <4>2. OcTx(k, p) \in UNION {{OcTx(l, q) : q \in Nat} : l \in Nat}
        BY <1>1
      <4>. QED BY <4>1, <4>2 DEF OcEvents
    <3>. QED BY <3>2, <3>3
  <2>2. bytes \in [1 .. m.len -> OcEvents]
    BY <2>1
  <2>. HIDE DEF bytes
  <2>. QED BY <1>2, <2>2
<1>6. \A i \in 1 .. m.len : bytes[i] = IF m.rd THEN OcRx(i # m.len) ELSE OcTx(k, i - 1)
  OBVIOUS
<1>7. OcHead(a, k) \in {0, 1}
  BY DEF OcHead
<1>. HIDE DEF m, hd, bytes
<1>8. /\ hd \o bytes \in Seq(OcEvents)
      /\ Len(hd \o bytes) = Len(hd) + Len(bytes)
      /\ \A i \in 1 .. Len(hd) + Len(bytes) : (hd \o bytes)[i] = IF i <= Len(hd) THEN hd[i] ELSE bytes[i - Len(hd)]
  BY <1>4, <1>5, ConcatProperties
<1>9. OcHead(a, k) = 1 => (hd \o bytes)[1] = OcAddr(m)
  BY <1>2, <1>4, <1>5, <1>7, <1>8
<1>10. ASSUME NEW i \in 1 .. m.len
       PROVE  (hd \o bytes)[OcHead(a, k) + i] = IF m.rd THEN OcRx(i # m.len) ELSE OcTx(k, i - 1)
  <2>. PICK j \in Nat : j = OcHead(a, k) + i
    BY <1>2, <1>7
  <2>1. j \in 1 .. Len(hd) + Len(bytes) /\ ~ (j <= Len(hd)) /\ j - Len(hd) = i
    BY <1>2, <1>4, <1>5, <1>7
  <2>. QED BY <1>6, <1>8, <2>1
<1>. QED BY <1>2, <1>3, <1>4, <1>5, <1>8, <1>9, <1>10 DEF m

(* Where the bytes of a read go.                                           *)
LEMMA OcPlaceIs ==
  ASSUME NEW a \in Seq(OcMessage), NEW k \in 1 .. Len(a)
  PROVE  /\ OcPlace(a, k) \in Seq(Nat \X Int)
         /\ Len(OcPlace(a, k)) = IF a[k].rd THEN a[k].len ELSE 0
         /\ \A i \in 1 .. Len(OcPlace(a, k)) : OcPlace(a, k)[i] = <<k, i - 1>>
<1>. DEFINE n == IF a[k].rd THEN a[k].len ELSE 0
<1>1. n \in Nat /\ k \in Nat
  BY OcPartIs, LenProperties
<1>2. OcPlace(a, k) = [i \in 1 .. n |-> <<k, i - 1>>]
  BY DEF OcPlace
<1>. HIDE DEF n
<1>3. OcPlace(a, k) \in [1 .. n -> Nat \X Int]
  BY <1>1, <1>2
<1>4. OcPlace(a, k) \in Seq(Nat \X Int) /\ Len(OcPlace(a, k)) = n
  BY <1>1, <1>3
<1>. QED BY <1>1, <1>2, <1>4 DEF n

(* The parts of an array are sequences of events, and of places.           *)
LEMMA OcSeqs ==
  ASSUME NEW a \in Seq(OcMessage)
  PROVE  /\ OcParts(a) \in Seq(Seq(OcEvents)) /\ Len(OcParts(a)) = Len(a)
         /\ OcGoes(a) \in Seq(Seq(Nat \X Int)) /\ Len(OcGoes(a)) = Len(a)
         /\ \A k \in 1 .. Len(a) : OcParts(a)[k] = OcPart(a, k) /\ OcGoes(a)[k] = OcPlace(a, k)
<1>1. DOMAIN a = 1 .. Len(a) /\ Len(a) \in Nat
  BY LenProperties
<1>2. OcParts(a) \in [1 .. Len(a) -> Seq(OcEvents)]
  BY <1>1, OcPartIs DEF OcParts
<1>3. OcGoes(a) \in [1 .. Len(a) -> Seq(Nat \X Int)]
  BY <1>1, OcPlaceIs DEF OcGoes
<1>4. OcParts(a) \in Seq(Seq(OcEvents)) /\ Len(OcParts(a)) = Len(a)
  BY <1>1, <1>2
<1>5. OcGoes(a) \in Seq(Seq(Nat \X Int)) /\ Len(OcGoes(a)) = Len(a)
  BY <1>1, <1>3
<1>. QED BY <1>1, <1>4, <1>5 DEF OcParts, OcGoes

-----------------------------------------------------------------------------
(* Where the bytes of message k have gone, when the handler is at place p. *)
OcStoredAt(a, k, p) == IF a[k].rd THEN SoFar(OcGoes(a), k, p) ELSE Flat(OcGoes(a), k - 1)

(* 1 when what the command asked for has been on the bus.                  *)
OcSeen == IF oc_cmd = "none" THEN 1 ELSE 0

OcAtStart ==
  oc_state = "START" =>
    /\ oc_pos = 0 /\ OcHead(oc_args, oc_msg) = 1
    /\ oc_cmd \in {"none", "start"} /\ oc_data = OcAddr(oc_args[oc_msg])
    /\ oc_irq # "lost" => oc_wire = SoFar(OcParts(oc_args), oc_msg, OcSeen)
    /\ oc_stored = OcStoredAt(oc_args, oc_msg, 0)

OcAtWrite ==
  oc_state = "WRITE" =>
    /\ ~ oc_args[oc_msg].rd /\ oc_pos \in 1 .. oc_args[oc_msg].len
    /\ oc_cmd \in {"none", "write"} /\ oc_data = OcTx(oc_msg, oc_pos - 1)
    /\ oc_irq # "lost" => oc_wire = SoFar(OcParts(oc_args), oc_msg, OcHead(oc_args, oc_msg) + oc_pos - 1 + OcSeen)
    /\ oc_stored = OcStoredAt(oc_args, oc_msg, oc_pos)

OcAtRead ==
  oc_state = "READ" =>
    /\ oc_args[oc_msg].rd /\ oc_pos \in 0 .. oc_args[oc_msg].len - 1 /\ oc_irq # "lost"
    /\ oc_cmd \in {"none", IF oc_pos = oc_args[oc_msg].len - 1 THEN "read nack" ELSE "read ack"}
    /\ oc_wire = SoFar(OcParts(oc_args), oc_msg, OcHead(oc_args, oc_msg) + oc_pos + OcSeen)
    /\ oc_stored = OcStoredAt(oc_args, oc_msg, oc_pos)

(* An empty message that continues another: the handler looks for its end  *)
(* behind it and never comes to one.                                       *)
OcRunaway ==
  /\ oc_args[oc_msg].len = 0
  /\ (oc_state = "READ" /\ oc_args[oc_msg].rd) \/ (oc_state = "WRITE" /\ ~ oc_args[oc_msg].rd /\ oc_pos > 0)

OcActive ==
  ~ OcOver =>
    /\ oc_msg \in 1 .. Len(oc_args) /\ oc_nmsgs = Len(oc_args) - oc_msg + 1 /\ oc_pos \in Nat
    /\ oc_cmd \in {"none", "start", "write", "read ack", "read nack"}
    /\ oc_cmd # "start" /\ oc_irq # "lost" => oc_ours
    /\ OcRunaway \/ (OcAtStart /\ OcAtWrite /\ OcAtRead)

(* The last stop is on its way or has been sent.                           *)
OcEnded ==
  /\ OcOver => oc_cmd \in {"stop", "none"} /\ (oc_cmd = "none" => ~ oc_ours)
  /\ oc_state = "DONE" =>
       /\ oc_wire = IF oc_cmd = "none" THEN Append(OcWhole, OcStop) ELSE OcWhole
       /\ oc_stored = OcPlaces

OcIdle == oc_cmd = "none" /\ oc_irq = "no" /\ ~ oc_ours

OcCalled ==
  /\ oc_pc = "idle" => OcIdle /\ OcOver /\ oc_stored = <<>>
  /\ oc_pc # "idle" => oc_args \in OcTransfers
  /\ oc_pc = "start" =>
       /\ OcIdle /\ oc_state = "START" /\ oc_msgs = oc_args /\ oc_msg = 1 /\ oc_pos = 0
       /\ oc_nmsgs = Len(oc_args) /\ oc_stored = <<>>
  /\ oc_pc = "wait" =>
       /\ oc_msgs = oc_args /\ OcActive /\ OcEnded
       /\ ~ OcOver => (oc_cmd = "none" <=> oc_irq # "no")
       /\ oc_cmd # "none" => oc_irq = "no"
  /\ oc_pc = "done" => OcIdle /\ OcOver /\ (oc_ret > 0 => OcEnded /\ oc_state = "DONE")

OcType ==
  /\ oc_pc \in {"idle", "start", "wait", "done"} /\ oc_ours \in BOOLEAN /\ oc_early \in BOOLEAN
  /\ oc_state \in {"START", "READ", "WRITE", "DONE", "ERROR"}
  /\ oc_irq \in {"no", "ack", "nack", "lost"}

OcInv == OcType /\ (oc_early \/ OcCalled)

(* What a call has for messages.                                           *)
LEMMA OcArgs ==
  ASSUME OcInv, ~ oc_early, oc_pc # "idle"
  PROVE  oc_args \in Seq(OcMessage) /\ Len(oc_args) \in Nat \ {0}
<1>1. oc_args \in Seq(OcMessage) /\ oc_args # <<>>
  BY OcAssumption DEF OcInv, OcCalled
<1>. QED BY <1>1, EmptySeq

(* Before the first call.                                                  *)
LEMMA OcInitInv == OcInit => OcInv
BY DEF OcInit, OcInv, OcType, OcCalled, OcIdle, OcOver

(* Only a call that waits is interrupted.                                  *)
LEMMA OcIrqWaits ==
  ASSUME OcInv, ~ oc_early, oc_irq # "no" \/ oc_cmd # "none"
  PROVE  /\ oc_pc = "wait" /\ oc_msgs = oc_args /\ OcActive /\ OcEnded
         /\ oc_cmd = "none" <=> oc_irq # "no"
<1>1. oc_pc = "wait"
  BY DEF OcInv, OcType, OcCalled, OcIdle
<1>. QED BY <1>1 DEF OcInv, OcCalled

(* Byte p of message k is asked for.                                       *)
LEMMA OcByteAt ==
  ASSUME NEW a \in Seq(OcMessage), oc_args' = a, oc_msgs = a, NEW k \in 1 .. Len(a),
         oc_msg' = k, NEW p \in 0 .. a[k].len - 1,
         OcByte(k, p, IF a[k].rd THEN "READ" ELSE "WRITE"),
         oc_wire' = SoFar(OcParts(a), k, OcHead(a, k) + p), oc_stored' = OcStoredAt(a, k, p)
  PROVE  /\ OcAtStart' /\ OcAtWrite' /\ OcAtRead' /\ ~ OcOver' /\ oc_pos' \in Nat
         /\ oc_cmd' \in {"write", "read ack", "read nack"} /\ oc_irq' = "no"
<1>0. a[k].len \in Nat /\ a[k].rd \in BOOLEAN /\ p \in Nat /\ OcHead(a, k) \in {0, 1}
  BY OcPartIs DEF OcHead
<1>1. CASE a[k].rd
  <2>1. /\ oc_state' = "READ" /\ oc_pos' = p /\ oc_irq' = "no"
        /\ oc_cmd' = IF p = a[k].len - 1 THEN "read nack" ELSE "read ack"
    BY <1>1 DEF OcByte, OcCommand
  <2>2. OcSeen' = 0
    BY <2>1 DEF OcSeen
  <2>3. OcAtRead'
    <3>1. p \in 0 .. a[k].len - 1 /\ OcHead(a, k) + p + 0 = OcHead(a, k) + p
      BY <1>0
    <3>2. OcSeen' = 0 /\ oc_irq' # "lost"
      BY <2>1, <2>2
    <3>3. oc_cmd' \in {"none", IF oc_pos' = a[k].len - 1 THEN "read nack" ELSE "read ack"}
      BY <2>1
    <3>. QED BY ONLY <1>1, <2>1, <3>1, <3>2, <3>3, oc_args' = a, oc_msg' = k,
                    oc_wire' = SoFar(OcParts(a), k, OcHead(a, k) + p), oc_stored' = OcStoredAt(a, k, p) DEF OcAtRead
  <2>. QED BY <1>0, <2>1, <2>3 DEF OcAtStart, OcAtWrite, OcOver
<1>2. CASE ~ a[k].rd
  <2>1. /\ oc_state' = "WRITE" /\ oc_pos' = p + 1 /\ oc_irq' = "no"
        /\ oc_cmd' = "write" /\ oc_data' = OcTx(k, p)
    BY <1>2 DEF OcByte, OcCommand
  <2>2. OcSeen' = 0
    BY <2>1 DEF OcSeen
  <2>3. PICK q \in Nat : q = p + 1
    BY <1>0
  <2>4. q \in 1 .. a[k].len /\ q - 1 = p /\ OcHead(a, k) + q - 1 + 0 = OcHead(a, k) + p
    BY <1>0, <2>3
  <2>5. OcStoredAt(a, k, q) = OcStoredAt(a, k, p)
    BY <1>2 DEF OcStoredAt
  <2>6. OcAtWrite'
    BY <1>2, <2>1, <2>2, <2>3, <2>4, <2>5 DEF OcAtWrite
  <2>. QED BY <1>0, <2>1, <2>6 DEF OcAtStart, OcAtRead, OcOver
<1>. QED BY <1>1, <1>2

(* The same when there is none.                                            *)
LEMMA OcByteBeyond ==
  ASSUME NEW a \in Seq(OcMessage), oc_args' = a, oc_msgs = a, NEW k \in 1 .. Len(a),
         oc_msg' = k, NEW p \in Nat, a[k].len = 0,
         OcByte(k, p, IF a[k].rd THEN "READ" ELSE "WRITE")
  PROVE  /\ OcRunaway' /\ ~ OcOver' /\ oc_pos' \in Nat
         /\ oc_cmd' \in {"write", "read ack", "read nack"} /\ oc_irq' = "no"
<1>0. a[k].rd \in BOOLEAN
  BY OcPartIs
<1>1. CASE a[k].rd
  BY <1>1 DEF OcByte, OcCommand, OcRunaway, OcOver
<1>2. CASE ~ a[k].rd
  BY <1>2 DEF OcByte, OcCommand, OcRunaway, OcOver
<1>. QED BY <1>0, <1>1, <1>2

(* The handler goes on: what the last command asked for has been on the    *)
(* bus, and a byte that was read is stored.                                *)
LEMMA OcGoesFacts ==
  ASSUME OcInv, ~ oc_early, OcGoesOn, OcStore
  PROVE  /\ oc_args \in Seq(OcMessage) /\ oc_msg \in 1 .. Len(oc_args)
         /\ oc_pc = "wait" /\ oc_msgs = oc_args /\ oc_cmd = "none" /\ oc_pos \in Nat
         /\ oc_ours
         /\ oc_nmsgs = Len(oc_args) - oc_msg + 1 /\ OcMoved \in Nat
         /\ oc_state # "START" => (oc_state = "READ" <=> oc_args[oc_msg].rd)
         /\ \/ OcRunaway /\ OcMoved # 0
            \/ /\ OcMoved \in 0 .. oc_args[oc_msg].len
               /\ oc_wire = SoFar(OcParts(oc_args), oc_msg, OcHead(oc_args, oc_msg) + OcMoved)
               /\ oc_stored' = OcStoredAt(oc_args, oc_msg, OcMoved)
<1>1. oc_irq \in {"ack", "nack"} /\ ~ OcOver /\ (oc_irq = "nack" => oc_state = "READ")
  BY DEF OcGoesOn
<1>2. /\ oc_pc = "wait" /\ oc_msgs = oc_args /\ OcActive /\ oc_cmd = "none"
  BY <1>1, OcIrqWaits
<1>3. oc_args \in Seq(OcMessage)
  BY <1>2, OcArgs
<1>4. /\ oc_msg \in 1 .. Len(oc_args) /\ oc_nmsgs = Len(oc_args) - oc_msg + 1 /\ oc_pos \in Nat /\ oc_ours
      /\ OcRunaway \/ (OcAtStart /\ OcAtWrite /\ OcAtRead)
  BY <1>1, <1>2 DEF OcActive
<1>. DEFINE k == oc_msg
            m == oc_args[k]
            P == OcParts(oc_args)
<1>5. m.len \in Nat /\ m.rd \in BOOLEAN /\ OcHead(oc_args, k) \in {0, 1}
  BY <1>3, <1>4, OcPartIs DEF OcHead
<1>6. OcMoved \in Nat /\ oc_state \in {"START", "READ", "WRITE"} /\ OcSeen = 1
  BY <1>1, <1>2, <1>4 DEF OcMoved, OcInv, OcType, OcOver, OcSeen
<1>7. ASSUME OcRunaway
      PROVE  OcMoved # 0 /\ oc_state # "START" /\ (oc_state = "READ" <=> m.rd)
  BY <1>4, <1>7 DEF OcRunaway, OcMoved
<1>8. ASSUME OcAtStart, OcAtWrite, OcAtRead
      PROVE  /\ oc_state # "START" => (oc_state = "READ" <=> m.rd)
             /\ OcMoved \in 0 .. m.len
             /\ oc_wire = SoFar(P, k, OcHead(oc_args, k) + OcMoved)
             /\ oc_stored' = OcStoredAt(oc_args, k, OcMoved)
  <2>1. CASE oc_state = "START"
    <3>1. OcMoved = 0 /\ oc_stored' = oc_stored /\ OcHead(oc_args, k) + 0 = 1
      BY <1>5, <1>8, <2>1 DEF OcMoved, OcStore, OcAtStart
    <3>. QED BY <1>1, <1>5, <1>6, <1>8, <2>1, <3>1 DEF OcAtStart
  <2>2. CASE oc_state = "WRITE"
    <3>1. OcMoved = oc_pos /\ oc_stored' = oc_stored /\ ~ m.rd /\ oc_pos \in 0 .. m.len
      BY <1>5, <1>8, <2>2 DEF OcMoved, OcStore, OcAtWrite
    <3>2. OcHead(oc_args, k) + oc_pos - 1 + 1 = OcHead(oc_args, k) + oc_pos
      BY <1>4, <1>5
    <3>. QED BY <1>1, <1>6, <1>8, <2>2, <3>1, <3>2 DEF OcAtWrite
  <2>3. CASE oc_state = "READ"
    <3>6. OcMoved = oc_pos + 1 /\ oc_stored' = Append(oc_stored, <<k, oc_pos>>)
      BY <2>3 DEF OcMoved, OcStore
    <3>7. m.rd /\ oc_pos \in 0 .. m.len - 1
      BY <1>8, <2>3 DEF OcAtRead
    <3>8. OcMoved \in 0 .. m.len
      BY <1>5, <3>6, <3>7
    <3>1. /\ OcMoved = oc_pos + 1 /\ oc_stored' = Append(oc_stored, <<k, oc_pos>>) /\ m.rd
          /\ oc_pos \in 0 .. m.len - 1 /\ OcMoved \in 0 .. m.len
      BY <3>6, <3>7, <3>8
    <3>2. OcHead(oc_args, k) + oc_pos + 1 = OcHead(oc_args, k) + OcMoved
      BY <1>4, <1>5, <3>1
    <3>3. oc_wire = SoFar(P, k, OcHead(oc_args, k) + OcMoved) /\ oc_stored = SoFar(OcGoes(oc_args), k, oc_pos)
      BY <1>6, <1>8, <2>3, <3>1, <3>2 DEF OcAtRead, OcStoredAt
    <3>4. Append(oc_stored, <<k, oc_pos>>) = SoFar(OcGoes(oc_args), k, OcMoved)
      <4>. DEFINE G == OcGoes(oc_args)
      <4>1. /\ G \in Seq(Seq(Nat \X Int)) /\ k \in 1 .. Len(G) /\ G[k] = OcPlace(oc_args, k)
        BY <1>3, <1>4, OcSeqs
      <4>2. Len(G[k]) = m.len /\ \A i \in 1 .. m.len : G[k][i] = <<k, i - 1>>
        BY <1>3, <1>4, <3>1, <4>1, OcPlaceIs
      <4>. PICK j \in Nat : j = OcMoved
        BY <1>6
      <4>3. j \in 1 .. Len(G[k]) /\ j - 1 = oc_pos
        BY <1>5, <3>1, <4>2
      <4>4. G[k][j] = <<k, j - 1>>
        BY <4>2, <4>3
      <4>. HIDE DEF G
      <4>5. Append(SoFar(G, k, j - 1), G[k][j]) = SoFar(G, k, j)
        BY <4>1, <4>3, SoFarOn
      <4>. QED BY <3>3, <4>3, <4>4, <4>5 DEF G
    <3>. QED BY <2>3, <3>1, <3>3, <3>4 DEF OcStoredAt
  <2>. QED BY <1>6, <2>1, <2>2, <2>3
<1>. QED BY <1>2, <1>3, <1>4, <1>6, <1>7, <1>8

(* A call that waits, seen from its parts.                                 *)
LEMMA OcWaits ==
  ASSUME oc_pc = "wait", ~ oc_early, OcType, oc_args \in OcTransfers, oc_msgs = oc_args,
         OcActive, OcEnded, ~ OcOver => (oc_cmd = "none" <=> oc_irq # "no"),
         oc_cmd # "none" => oc_irq = "no"
  PROVE  OcInv
BY DEF OcInv, OcCalled

(* A byte is asked for: the call waits on.                                 *)
LEMMA OcAsks ==
  ASSUME OcInv, ~ oc_early, oc_pc = "wait", UNCHANGED <<oc_msgs, oc_ours, oc_early, ocCaller>>,
         oc_ours, oc_msgs = oc_args,
         oc_state' \in {"START", "READ", "WRITE"}, oc_msg' \in 1 .. Len(oc_args), oc_pos' \in Nat,
         oc_nmsgs' = Len(oc_args) - oc_msg' + 1,
         oc_cmd' \in {"start", "write", "read ack", "read nack"}, oc_irq' = "no",
         OcRunaway' \/ (OcAtStart /\ OcAtWrite /\ OcAtRead)'
  PROVE  OcInv'
<1>1. oc_args \in OcTransfers /\ OcType
  BY DEF OcInv, OcCalled
<1>2. oc_args' = oc_args /\ oc_pc' = "wait" /\ oc_early' = oc_early /\ oc_msgs' = oc_args' /\ oc_ours' = oc_ours
  BY DEF ocCaller
<1>3. OcType' /\ ~ OcOver'
  BY <1>1, <1>2 DEF OcType, OcOver
<1>4. OcActive'
  <2>0. oc_ours = TRUE
    BY <1>1 DEF OcType
  <2>3. oc_ours' = TRUE
    BY <1>2, <2>0
  <2>1. oc_ours' /\ oc_cmd' \in {"none", "start", "write", "read ack", "read nack"}
    BY <2>3
  <2>2. oc_msg' \in 1 .. Len(oc_args') /\ oc_nmsgs' = Len(oc_args') - oc_msg' + 1
    BY <1>2
  <2>. QED BY <2>1, <2>2 DEF OcActive
<1>5. OcEnded'
  BY <1>3 DEF OcEnded, OcOver
<1>. QED BY <1>1, <1>2, <1>3, <1>4, <1>5 DEF OcInv, OcCalled

(* The handler gives the controller the next byte, or asks it for one.     *)
LEMMA OcBytesInv ==
  ASSUME OcInv, ~ oc_early, OcBytes
  PROVE  OcInv'
<1>. DEFINE a == oc_args
            k == oc_msg
            p == OcMoved
<1>1. /\ OcGoesOn /\ OcStore /\ p # oc_msgs[k].len
      /\ OcByte(k, p, IF oc_state = "READ" THEN "READ" ELSE OcDirection(k))
      /\ UNCHANGED <<oc_msgs, oc_msg, oc_nmsgs, oc_ours, oc_wire, oc_early, ocCaller>>
  BY DEF OcBytes
<1>2. /\ a \in Seq(OcMessage) /\ k \in 1 .. Len(a)
      /\ oc_pc = "wait" /\ oc_msgs = a /\ oc_cmd = "none" /\ oc_pos \in Nat /\ oc_ours
      /\ oc_nmsgs = Len(a) - k + 1 /\ p \in Nat
      /\ oc_state # "START" => (oc_state = "READ" <=> a[k].rd)
      /\ \/ OcRunaway /\ p # 0
         \/ /\ p \in 0 .. a[k].len
            /\ oc_wire = SoFar(OcParts(a), k, OcHead(a, k) + p)
            /\ oc_stored' = OcStoredAt(a, k, p)
  BY <1>1, OcGoesFacts
<1>3. a[k].len \in Nat /\ a[k].rd \in BOOLEAN /\ oc_state \in {"START", "READ", "WRITE"}
  BY <1>1, <1>2, OcPartIs DEF OcGoesOn, OcOver, OcInv, OcType
<1>4. OcByte(k, p, IF a[k].rd THEN "READ" ELSE "WRITE")
  <2>1. (IF oc_state = "READ" THEN "READ" ELSE OcDirection(k)) = IF a[k].rd THEN "READ" ELSE "WRITE"
    BY <1>2, <1>3 DEF OcDirection
  <2>. QED BY <1>1, <2>1
<1>5. oc_args' = a /\ oc_msg' = k /\ oc_wire' = oc_wire /\ oc_nmsgs' = oc_nmsgs
  BY <1>1 DEF ocCaller
<1>6. /\ OcRunaway' \/ (OcAtStart /\ OcAtWrite /\ OcAtRead)'
      /\ ~ OcOver' /\ oc_pos' \in Nat
      /\ oc_cmd' \in {"write", "read ack", "read nack"} /\ oc_irq' = "no"
  <2>1. CASE OcRunaway
    <3>1. a[k].len = 0
      BY <2>1 DEF OcRunaway
    <3>2. a \in Seq(OcMessage) /\ oc_args' = a /\ oc_msgs = a /\ k \in 1 .. Len(a) /\ oc_msg' = k /\ p \in Nat
      BY <1>2, <1>5
    <3>. HIDE DEF a, k, p
    <3>. QED BY ONLY <1>4, <3>1, <3>2, OcByteBeyond
  <2>2. CASE ~ OcRunaway
    <3>1. p \in 0 .. a[k].len - 1
      BY <1>1, <1>2, <1>3, <2>2
    <3>2. a \in Seq(OcMessage) /\ oc_args' = a /\ oc_msgs = a /\ k \in 1 .. Len(a) /\ oc_msg' = k
      BY <1>2, <1>5
    <3>3. oc_wire' = SoFar(OcParts(a), k, OcHead(a, k) + p) /\ oc_stored' = OcStoredAt(a, k, p)
      BY <1>2, <1>5, <2>2
    <3>. HIDE DEF a, k, p
    <3>. QED BY ONLY <1>4, <3>1, <3>2, <3>3, OcByteAt
  <2>. QED BY <2>1, <2>2
<1>7. oc_state' \in {"READ", "WRITE"}
  BY <1>3, <1>4 DEF OcByte
<1>. QED BY <1>1, <1>2, <1>5, <1>6, <1>7, OcAsks

(* A message is over: it has all been on the bus.                          *)
LEMMA OcEndFacts ==
  ASSUME OcInv, ~ oc_early, OcEndOfMsg
  PROVE  /\ oc_args \in Seq(OcMessage) /\ oc_msg \in 1 .. Len(oc_args)
         /\ oc_pc = "wait" /\ oc_msgs = oc_args /\ oc_cmd = "none" /\ oc_ours
         /\ oc_nmsgs = Len(oc_args) - oc_msg + 1
         /\ oc_wire = Flat(OcParts(oc_args), oc_msg) /\ oc_stored' = Flat(OcGoes(oc_args), oc_msg)
<1>. DEFINE a == oc_args
            k == oc_msg
            p == OcMoved
<1>1. OcGoesOn /\ OcStore /\ p = oc_msgs[k].len
  BY DEF OcEndOfMsg
<1>2. /\ a \in Seq(OcMessage) /\ k \in 1 .. Len(a)
      /\ oc_pc = "wait" /\ oc_msgs = a /\ oc_cmd = "none" /\ oc_pos \in Nat /\ oc_ours
      /\ oc_nmsgs = Len(a) - k + 1 /\ p \in Nat
      /\ \/ OcRunaway /\ p # 0
         \/ /\ p \in 0 .. a[k].len
            /\ oc_wire = SoFar(OcParts(a), k, OcHead(a, k) + p)
            /\ oc_stored' = OcStoredAt(a, k, p)
  BY <1>1, OcGoesFacts
<1>3. p = a[k].len /\ ~ (OcRunaway /\ p # 0)
  BY <1>1, <1>2 DEF OcRunaway
<1>4. oc_wire = SoFar(OcParts(a), k, OcHead(a, k) + p) /\ oc_stored' = OcStoredAt(a, k, p)
  BY <1>2, <1>3
<1>. HIDE DEF p
<1>5. /\ OcParts(a) \in Seq(Seq(OcEvents)) /\ k \in 1 .. Len(OcParts(a)) /\ OcParts(a)[k] = OcPart(a, k)
      /\ OcGoes(a) \in Seq(Seq(Nat \X Int)) /\ k \in 1 .. Len(OcGoes(a)) /\ OcGoes(a)[k] = OcPlace(a, k)
  BY <1>2, OcSeqs
<1>6. Len(OcPart(a, k)) = OcHead(a, k) + p /\ Len(OcPlace(a, k)) = (IF a[k].rd THEN p ELSE 0) /\ a[k].rd \in BOOLEAN
  BY <1>2, <1>3, OcPartIs, OcPlaceIs
<1>7. oc_wire = Flat(OcParts(a), k)
  BY <1>4, <1>5, <1>6, SoFarOver
<1>8. oc_stored' = Flat(OcGoes(a), k)
  <2>1. SoFar(OcGoes(a), k, Len(OcGoes(a)[k])) = Flat(OcGoes(a), k) /\ SoFar(OcGoes(a), k, 0) = Flat(OcGoes(a), k - 1)
    BY <1>5, SoFarOver, SoFarNone
  <2>. QED BY <1>4, <1>5, <1>6, <2>1 DEF OcStoredAt
<1>. QED BY <1>2, <1>7, <1>8

(* The next one is to begin.                                               *)
LEMMA OcNextFacts ==
  ASSUME NEW a \in Seq(OcMessage), NEW k \in 1 .. Len(a), k + 1 <= Len(a)
  PROVE  /\ k + 1 \in 1 .. Len(a)
         /\ SoFar(OcParts(a), k + 1, 0) = Flat(OcParts(a), k)
         /\ OcStoredAt(a, k + 1, 0) = Flat(OcGoes(a), k)
         /\ OcHead(a, k + 1) = IF a[k + 1].nostart THEN 0 ELSE 1
<1>1. PICK l \in 1 .. Len(a) : l = k + 1 /\ l - 1 = k /\ l > 1
  BY LenProperties
<1>2. /\ OcParts(a) \in Seq(Seq(OcEvents)) /\ l \in 1 .. Len(OcParts(a))
      /\ OcGoes(a) \in Seq(Seq(Nat \X Int)) /\ l \in 1 .. Len(OcGoes(a))
  BY OcSeqs
<1>3. SoFar(OcParts(a), l, 0) = Flat(OcParts(a), l - 1) /\ SoFar(OcGoes(a), l, 0) = Flat(OcGoes(a), l - 1)
  BY <1>2, SoFarNone
<1>4. OcStoredAt(a, l, 0) = Flat(OcGoes(a), l - 1)
  BY <1>3 DEF OcStoredAt
<1>. QED BY <1>1, <1>3, <1>4 DEF OcHead

(* The handler starts the next message.                                    *)
LEMMA OcNextStartInv ==
  ASSUME OcInv, ~ oc_early, OcNextStart
  PROVE  OcInv'
<1>. DEFINE a == oc_args
            k == oc_msg
<1>1. /\ OcEndOfMsg /\ oc_nmsgs > 1 /\ ~ oc_msgs[k + 1].nostart
      /\ oc_state' = "START" /\ oc_pos' = 0
      /\ oc_data' = OcAddr(oc_msgs[k + 1]) /\ oc_cmd' = "start" /\ oc_irq' = "no"
      /\ oc_msg' = k + 1 /\ oc_nmsgs' = oc_nmsgs - 1
      /\ UNCHANGED <<oc_msgs, oc_ours, oc_wire, oc_early, ocCaller>>
  BY DEF OcNextStart, OcCommand, OcEndOfMsg
<1>2. /\ a \in Seq(OcMessage) /\ k \in 1 .. Len(a)
      /\ oc_pc = "wait" /\ oc_msgs = a /\ oc_ours /\ oc_nmsgs = Len(a) - k + 1
      /\ oc_wire = Flat(OcParts(a), k) /\ oc_stored' = Flat(OcGoes(a), k)
  BY <1>1, OcEndFacts
<1>3. Len(a) \in Nat /\ k + 1 <= Len(a) /\ oc_nmsgs' = Len(a) - (k + 1) + 1
  BY <1>1, <1>2, LenProperties
<1>4. /\ k + 1 \in 1 .. Len(a)
      /\ SoFar(OcParts(a), k + 1, 0) = Flat(OcParts(a), k)
      /\ OcStoredAt(a, k + 1, 0) = Flat(OcGoes(a), k)
      /\ OcHead(a, k + 1) = IF a[k + 1].nostart THEN 0 ELSE 1
  BY <1>2, <1>3, OcNextFacts
<1>5. oc_args' = a /\ oc_wire' = oc_wire /\ OcSeen' = 0
  BY <1>1 DEF ocCaller, OcSeen
<1>6. OcAtStart' /\ OcAtWrite' /\ OcAtRead'
  <2>1. OcAtStart'
    BY <1>1, <1>2, <1>4, <1>5 DEF OcAtStart
  <2>. QED BY <1>1, <2>1 DEF OcAtWrite, OcAtRead
<1>. QED BY <1>1, <1>2, <1>3, <1>4, <1>5, <1>6, OcAsks

(* The handler goes on with the next message, without a start.             *)
LEMMA OcNextOnInv ==
  ASSUME OcInv, ~ oc_early, OcNextOn
  PROVE  OcInv'
<1>. DEFINE a == oc_args
<1>1. /\ OcEndOfMsg /\ oc_nmsgs > 1 /\ oc_msgs[oc_msg + 1].nostart
      /\ OcByte(oc_msg + 1, 0, OcDirection(oc_msg + 1))
      /\ oc_msg' = oc_msg + 1 /\ oc_nmsgs' = oc_nmsgs - 1
      /\ UNCHANGED <<oc_msgs, oc_ours, oc_wire, oc_early, ocCaller>>
  BY DEF OcNextOn, OcEndOfMsg
<1>2. /\ a \in Seq(OcMessage) /\ oc_msg \in 1 .. Len(a)
      /\ oc_pc = "wait" /\ oc_msgs = a /\ oc_ours /\ oc_nmsgs = Len(a) - oc_msg + 1
      /\ oc_wire = Flat(OcParts(a), oc_msg) /\ oc_stored' = Flat(OcGoes(a), oc_msg)
  BY <1>1, OcEndFacts
<1>3. Len(a) \in Nat /\ oc_msg + 1 <= Len(a) /\ oc_nmsgs' = Len(a) - (oc_msg + 1) + 1
  BY <1>1, <1>2, LenProperties
<1>4. /\ oc_msg + 1 \in 1 .. Len(a)
      /\ SoFar(OcParts(a), oc_msg + 1, 0) = Flat(OcParts(a), oc_msg)
      /\ OcStoredAt(a, oc_msg + 1, 0) = Flat(OcGoes(a), oc_msg)
      /\ OcHead(a, oc_msg + 1) = IF a[oc_msg + 1].nostart THEN 0 ELSE 1
  BY <1>2, <1>3, OcNextFacts
<1>5. PICK l \in 1 .. Len(a) : l = oc_msg + 1
  BY <1>4
<1>6. oc_args' = a /\ oc_wire' = oc_wire /\ oc_msg' = l /\ a[l].nostart /\ OcHead(a, l) = 0
  BY <1>1, <1>2, <1>4, <1>5 DEF ocCaller
<1>7. a[l].len \in Nat /\ a[l].rd \in BOOLEAN
  BY <1>2, OcPartIs
<1>8. OcByte(l, 0, IF a[l].rd THEN "READ" ELSE "WRITE")
  BY <1>1, <1>2, <1>5 DEF OcDirection
<1>9. /\ OcRunaway' \/ (OcAtStart /\ OcAtWrite /\ OcAtRead)'
      /\ ~ OcOver' /\ oc_pos' \in Nat
      /\ oc_cmd' \in {"write", "read ack", "read nack"} /\ oc_irq' = "no"
  <2>0. a \in Seq(OcMessage) /\ oc_args' = a /\ oc_msgs = a /\ l \in 1 .. Len(a) /\ oc_msg' = l /\ 0 \in Nat
    BY <1>2, <1>6
  <2>1. CASE a[l].len = 0
    <3>. HIDE DEF a
    <3>. QED BY ONLY <1>8, <2>0, <2>1, OcByteBeyond
  <2>2. CASE a[l].len # 0
    <3>1. 0 \in 0 .. a[l].len - 1
      BY <1>7, <2>2
    <3>2. oc_wire' = SoFar(OcParts(a), l, OcHead(a, l) + 0) /\ oc_stored' = OcStoredAt(a, l, 0)
      BY <1>2, <1>4, <1>5, <1>6
    <3>. HIDE DEF a
    <3>. QED BY ONLY <1>8, <2>0, <3>1, <3>2, OcByteAt
  <2>. QED BY <2>1, <2>2
<1>10. oc_state' \in {"READ", "WRITE"}
  BY <1>7, <1>8 DEF OcByte
<1>. QED BY <1>1, <1>2, <1>3, <1>4, <1>9, <1>10, OcAsks

(* The whole.                                                              *)
LEMMA OcAll ==
  ASSUME OcInv, ~ oc_early, oc_pc # "idle"
  PROVE  /\ OcWhole = Flat(OcParts(oc_args), Len(oc_args)) /\ OcPlaces = Flat(OcGoes(oc_args), Len(oc_args))
<1>1. oc_args \in Seq(OcMessage)
  BY OcArgs
<1>2. OcWhole = FlattenSeq(OcParts(oc_args)) /\ OcPlaces = FlattenSeq(OcGoes(oc_args))
  BY DEF OcWhole, OcPlaces, OcParts, OcGoes
<1>. QED BY <1>1, <1>2, OcSeqs, FlatWhole

(* The handler ends the transfer.                                          *)
LEMMA OcLastInv ==
  ASSUME OcInv, ~ oc_early, OcLast
  PROVE  OcInv'
<1>1. /\ OcEndOfMsg /\ oc_nmsgs <= 1 /\ oc_state' = "DONE" /\ oc_cmd' = "stop" /\ oc_irq' = "no"
      /\ UNCHANGED <<oc_msgs, oc_ours, oc_wire, oc_early, ocCaller>>
  BY DEF OcLast, OcCommand, OcEndOfMsg
<1>2. /\ oc_args \in Seq(OcMessage) /\ oc_msg \in 1 .. Len(oc_args)
      /\ oc_pc = "wait" /\ oc_msgs = oc_args /\ oc_nmsgs = Len(oc_args) - oc_msg + 1
      /\ oc_wire = Flat(OcParts(oc_args), oc_msg) /\ oc_stored' = Flat(OcGoes(oc_args), oc_msg)
  BY <1>1, OcEndFacts
<1>3. oc_msg = Len(oc_args)
  BY <1>1, <1>2, LenProperties
<1>4. oc_wire = OcWhole /\ oc_stored' = OcPlaces
  BY <1>2, <1>3, OcAll
<1>5. oc_args' = oc_args /\ oc_pc' = "wait" /\ OcWhole' = OcWhole /\ OcPlaces' = OcPlaces
  BY <1>1, <1>2 DEF ocCaller, OcWhole, OcPlaces
<1>6. OcType' /\ OcOver' /\ OcActive'
  BY <1>1, <1>5 DEF OcInv, OcType, OcOver, OcActive
<1>7. OcEnded'
  BY <1>1, <1>4, <1>5 DEF OcEnded
<1>. QED BY <1>1, <1>2, <1>5, <1>6, <1>7 DEF OcInv, OcCalled

(* Every run of the handler.                                               *)
LEMMA OcHandlerInv ==
  ASSUME OcInv, ~ oc_early, OcHandler
  PROVE  OcInv'
<1>1. CASE OcStopped
  <2>1. /\ oc_irq # "no" /\ OcOver /\ oc_irq' = "no"
        /\ UNCHANGED <<ocFields, oc_cmd, oc_data, oc_ours, ocRecord, ocCaller>>
    BY <1>1 DEF OcStopped
  <2>2. /\ oc_pc = "wait" /\ oc_msgs = oc_args /\ OcEnded /\ oc_args \in OcTransfers
    BY <2>1, OcIrqWaits DEF OcInv, OcCalled
  <2>3. OcOver' /\ OcType' /\ OcActive'
    BY <2>1 DEF OcInv, OcType, OcOver, OcActive, ocFields, ocCaller, ocRecord
  <2>4. OcEnded'
    BY <2>1, <2>2 DEF OcEnded, OcOver, ocFields, ocCaller, ocRecord, OcWhole, OcPlaces
  <2>. QED BY <2>1, <2>2, <2>3, <2>4 DEF OcInv, OcCalled, ocFields, ocCaller, ocRecord
<1>2. CASE OcFailed
  <2>1. /\ oc_irq # "no" /\ oc_irq' = "no" /\ oc_state' = "ERROR" /\ oc_cmd' = "stop"
        /\ UNCHANGED <<oc_msgs, oc_ours, ocRecord, ocCaller>>
    BY <1>2 DEF OcFailed, OcCommand
  <2>2. /\ oc_pc = "wait" /\ oc_msgs = oc_args /\ oc_args \in OcTransfers
    BY <2>1, OcIrqWaits DEF OcInv, OcCalled
  <2>3. OcOver' /\ OcType' /\ OcActive' /\ OcEnded'
    BY <2>1 DEF OcInv, OcType, OcOver, OcActive, OcEnded, ocCaller, ocRecord
  <2>. QED BY <2>1, <2>2, <2>3 DEF OcInv, OcCalled, ocCaller
<1>3. CASE OcBytes
  BY <1>3, OcBytesInv
<1>4. CASE OcNextStart
  BY <1>4, OcNextStartInv
<1>5. CASE OcNextOn
  BY <1>5, OcNextOnInv
<1>6. CASE OcLast
  BY <1>6, OcLastInv
<1>. QED BY <1>1, <1>2, <1>3, <1>4, <1>5, <1>6 DEF OcHandler

(* The controller has done what it was told to: what it saw is the next    *)
(* part of the transfer.                                                   *)
LEMMA OcWorked ==
  ASSUME OcInv, ~ oc_early, oc_cmd # "none", ~ OcOver, NEW irq, irq \in {"ack", "nack", "lost"},
         NEW seen, NEW ours \in BOOLEAN, OcFinishes(irq, seen, ours), irq # "lost" => ours,
         irq = "lost" \/ OcRunaway \/ (OcAtStart /\ OcAtWrite /\ OcAtRead)',
         irq = "lost" => OcRunaway \/ oc_state # "READ"
  PROVE  OcInv'
<1>1. /\ oc_irq' = irq /\ oc_cmd' = "none" /\ oc_ours' = ours
      /\ UNCHANGED <<oc_data, ocFields, oc_stored, oc_early, ocCaller>>
  BY DEF OcFinishes
<1>2. oc_pc = "wait" /\ oc_msgs = oc_args /\ OcActive /\ oc_args \in OcTransfers
  BY OcIrqWaits DEF OcInv, OcCalled
<1>3. OcType' /\ ~ OcOver'
  BY <1>1 DEF OcInv, OcType, OcOver, ocFields, ocCaller
<1>4. OcRunaway' \/ (OcAtStart /\ OcAtWrite /\ OcAtRead)'
  <2>1. CASE OcRunaway
    BY <1>1, <2>1 DEF OcRunaway, ocFields, ocCaller
  <2>2. CASE ~ OcRunaway /\ irq = "lost"
    <3>1. OcAtStart /\ OcAtWrite
      BY <1>2, <2>2 DEF OcActive
    <3>2. oc_state' # "READ" /\ oc_irq' = "lost"
      BY <1>1, <2>2 DEF ocFields
    <3>3. OcAtStart'
      BY <1>1, <3>1, <3>2 DEF OcAtStart, ocFields, ocCaller
    <3>4. OcAtWrite'
      BY <1>1, <3>1, <3>2 DEF OcAtWrite, ocFields, ocCaller
    <3>. QED BY <3>2, <3>3, <3>4 DEF OcAtRead
  <2>. QED BY <2>1, <2>2
<1>5. OcActive'
  <2>1. /\ oc_msg' \in 1 .. Len(oc_args') /\ oc_nmsgs' = Len(oc_args') - oc_msg' + 1 /\ oc_pos' \in Nat
    BY <1>1, <1>2 DEF OcActive, ocFields, ocCaller
  <2>. QED BY <1>1, <1>4, <2>1 DEF OcActive
<1>6. OcEnded'
  BY <1>3 DEF OcEnded, OcOver
<1>. QED BY <1>1, <1>2, <1>3, <1>5, <1>6 DEF OcInv, OcCalled, ocFields, ocCaller

(* Nothing, then the first of a part; then the next one of it.             *)
LEMMA OcOneMore ==
  ASSUME NEW a \in Seq(OcMessage), NEW k \in 1 .. Len(a), NEW j \in 1 .. OcHead(a, k) + a[k].len,
         NEW e, e = OcPart(a, k)[j], NEW i, i = j - 1
  PROVE  SoFar(OcParts(a), k, i) \o <<e>> = SoFar(OcParts(a), k, j)
<1>. DEFINE P == OcParts(a)
<1>1. P \in Seq(Seq(OcEvents)) /\ k \in 1 .. Len(P) /\ P[k] = OcPart(a, k)
  BY OcSeqs
<1>2. j \in 1 .. Len(P[k]) /\ P[k] \in Seq(OcEvents) /\ Len(P[k]) \in Nat
  BY <1>1, OcPartIs, LenProperties
<1>3. P[k][j] \in OcEvents /\ j - 1 \in 0 .. Len(P[k]) /\ e = P[k][j]
  BY <1>1, <1>2, ElementOfSeq
<1>. HIDE DEF P
<1>4. Append(SoFar(P, k, j - 1), P[k][j]) = SoFar(P, k, j)
  BY ONLY <1>1, <1>2, SoFarOn
<1>5. SoFar(P, k, j - 1) \in Seq(OcEvents)
  BY <1>1, <1>3, SoFarType
<1>6. PICK s \in Seq(OcEvents) : s = SoFar(P, k, i)
  BY <1>5
<1>7. Append(s, e) = s \o <<e>>
  BY <1>3, AppendIsConcat
<1>. QED BY <1>3, <1>4, <1>6, <1>7 DEF P

(* What the invariant says while a transfer is on.                         *)
LEMMA OcActiveParts ==
  ASSUME OcInv, ~ oc_early, oc_cmd # "none", ~ OcOver
  PROVE  /\ oc_args \in Seq(OcMessage) /\ oc_msg \in 1 .. Len(oc_args) /\ oc_pos \in Nat /\ oc_irq = "no"
         /\ OcRunaway \/ (OcAtStart /\ OcAtWrite /\ OcAtRead)
         /\ oc_args[oc_msg].len \in Nat /\ OcHead(oc_args, oc_msg) \in {0, 1}
         /\ OcSeen = 0
<1>1. oc_pc = "wait" /\ OcActive /\ oc_irq = "no"
  BY OcIrqWaits DEF OcInv, OcType
<1>2. oc_args \in Seq(OcMessage)
  BY <1>1, OcArgs
<1>3. oc_msg \in 1 .. Len(oc_args) /\ oc_pos \in Nat /\ (OcRunaway \/ (OcAtStart /\ OcAtWrite /\ OcAtRead))
  BY <1>1 DEF OcActive
<1>. QED BY <1>1, <1>2, <1>3, OcPartIs DEF OcSeen, OcHead

(* The controller has sent an address or a byte.                           *)
LEMMA OcSentInv ==
  ASSUME OcInv, ~ oc_early, OcSent
  PROVE  OcInv'
<1>. DEFINE a == oc_args
            k == oc_msg
<1>1. PICK irq \in {"ack", "nack"} : OcFinishes(irq, <<oc_data>>, TRUE)
  BY DEF OcSent
<1>2. oc_cmd \in {"start", "write"} /\ ~ OcOver
  <2>1. oc_cmd \in {"start", "write"}
    BY DEF OcSent
  <2>. QED BY <2>1, OcIrqWaits DEF OcEnded
<1>3. /\ a \in Seq(OcMessage) /\ k \in 1 .. Len(a) /\ oc_pos \in Nat /\ oc_irq = "no"
      /\ OcRunaway \/ (OcAtStart /\ OcAtWrite /\ OcAtRead)
      /\ a[k].len \in Nat /\ OcHead(a, k) \in {0, 1} /\ OcSeen = 0
  BY <1>2, OcActiveParts
<1>4. /\ oc_irq' = irq /\ oc_cmd' = "none" /\ oc_wire' = oc_wire \o <<oc_data>>
      /\ UNCHANGED <<oc_data, ocFields, oc_stored, oc_early, ocCaller>> /\ OcSeen' = 1
  BY <1>1 DEF OcFinishes, OcSeen
<1>5. ASSUME OcAtStart, OcAtWrite, OcAtRead
      PROVE  OcAtStart' /\ OcAtWrite' /\ OcAtRead'
  <2>0. UNCHANGED <<oc_state, oc_pos, oc_msg, oc_args, oc_data, oc_stored>> /\ oc_irq' # "lost"
    BY <1>1, <1>4 DEF ocFields, ocCaller
  <2>1. OcAtStart'
    <3>. SUFFICES ASSUME oc_state = "START" PROVE OcAtStart'
      BY <2>0 DEF OcAtStart
    <3>1. oc_wire = SoFar(OcParts(a), k, 0) /\ oc_data = OcAddr(a[k]) /\ OcHead(a, k) = 1
      BY <1>3, <1>5 DEF OcAtStart
    <3>2. oc_data = OcPart(a, k)[1]
      BY <1>3, <3>1, OcPartIs
    <3>3. SoFar(OcParts(a), k, 0) \o <<oc_data>> = SoFar(OcParts(a), k, 1)
      <4>1. 1 \in 1 .. OcHead(a, k) + a[k].len /\ 0 = 1 - 1
        BY <1>3, <3>1
      <4>. HIDE DEF a, k
      <4>. QED BY <1>3, <3>2, <4>1, OcOneMore
    <3>. QED BY <1>4, <1>5, <2>0, <3>1, <3>3 DEF OcAtStart
  <2>2. OcAtWrite'
    <3>. SUFFICES ASSUME oc_state = "WRITE" PROVE OcAtWrite'
      BY <2>0 DEF OcAtWrite
    <3>1. /\ ~ a[k].rd /\ oc_pos \in 1 .. a[k].len /\ oc_data = OcTx(k, oc_pos - 1)
          /\ oc_wire = SoFar(OcParts(a), k, OcHead(a, k) + oc_pos - 1 + 0)
      BY <1>3, <1>5 DEF OcAtWrite
    <3>2. PICK j \in Nat : j = OcHead(a, k) + oc_pos
      BY <1>3
    <3>3. OcPart(a, k)[j] = oc_data
      BY <1>3, <3>1, <3>2, OcPartIs
    <3>4. j \in 1 .. OcHead(a, k) + a[k].len /\ OcHead(a, k) + oc_pos - 1 + 0 = j - 1 /\ OcHead(a, k) + oc_pos - 1 + 1 = j
      BY <1>3, <3>1, <3>2
    <3>5. SoFar(OcParts(a), k, j - 1) \o <<oc_data>> = SoFar(OcParts(a), k, j)
      <4>. HIDE DEF a, k
      <4>. QED BY <1>3, <3>3, <3>4, OcOneMore
    <3>6. oc_wire' = SoFar(OcParts(a), k, OcHead(a, k) + oc_pos - 1 + OcSeen')
      BY <1>4, <3>1, <3>4, <3>5
    <3>. QED BY <1>4, <1>5, <2>0, <3>1, <3>6 DEF OcAtWrite
  <2>3. OcAtRead'
    <3>1. oc_state # "READ"
      BY <1>2, <1>5 DEF OcAtRead
    <3>. QED BY <2>0, <3>1 DEF OcAtRead
  <2>. QED BY <2>1, <2>2, <2>3
<1>6. OcRunaway \/ (OcAtStart /\ OcAtWrite /\ OcAtRead)'
  BY <1>3, <1>5
<1>7. irq # "lost" /\ oc_cmd # "none" /\ TRUE \in BOOLEAN /\ irq \in {"ack", "nack", "lost"}
  BY <1>2
<1>. QED BY <1>1, <1>2, <1>6, <1>7, OcWorked

(* The controller has a byte from the slave.                               *)
LEMMA OcReceivedInv ==
  ASSUME OcInv, ~ oc_early, OcReceived
  PROVE  OcInv'
<1>. DEFINE a == oc_args
            k == oc_msg
            irq == IF oc_cmd = "read ack" THEN "ack" ELSE "nack"
            seen == OcRx(oc_cmd = "read ack")
<1>1. oc_cmd \in {"read ack", "read nack"} /\ OcFinishes(irq, <<seen>>, TRUE)
  BY DEF OcReceived
<1>2. ~ OcOver
  BY <1>1, OcIrqWaits DEF OcEnded
<1>3. /\ a \in Seq(OcMessage) /\ k \in 1 .. Len(a) /\ oc_pos \in Nat /\ oc_irq = "no"
      /\ OcRunaway \/ (OcAtStart /\ OcAtWrite /\ OcAtRead)
      /\ a[k].len \in Nat /\ OcHead(a, k) \in {0, 1} /\ OcSeen = 0
  BY <1>1, <1>2, OcActiveParts
<1>4. /\ oc_irq' = irq /\ oc_cmd' = "none" /\ oc_wire' = oc_wire \o <<seen>>
      /\ UNCHANGED <<oc_data, ocFields, oc_stored, oc_early, ocCaller>> /\ OcSeen' = 1
  BY <1>1 DEF OcFinishes, OcSeen
<1>5. ASSUME OcAtStart, OcAtWrite, OcAtRead
      PROVE  OcAtStart' /\ OcAtWrite' /\ OcAtRead'
  <2>0. UNCHANGED <<oc_state, oc_pos, oc_msg, oc_args, oc_data, oc_stored>> /\ oc_irq' # "lost"
    BY <1>4 DEF ocFields, ocCaller
  <2>1. oc_state \notin {"START", "WRITE"}
    BY <1>1, <1>5 DEF OcAtStart, OcAtWrite
  <2>2. OcAtRead'
    <3>. SUFFICES ASSUME oc_state = "READ" PROVE OcAtRead'
      BY <2>0 DEF OcAtRead
    <3>1. /\ a[k].rd /\ oc_pos \in 0 .. a[k].len - 1
          /\ oc_cmd = IF oc_pos = a[k].len - 1 THEN "read nack" ELSE "read ack"
          /\ oc_wire = SoFar(OcParts(a), k, OcHead(a, k) + oc_pos + 0)
      BY <1>1, <1>3, <1>5 DEF OcAtRead
    <3>2. PICK j \in Nat : j = OcHead(a, k) + oc_pos + 1
      BY <1>3
    <3>0. a[k].rd /\ oc_pos \in 0 .. a[k].len - 1 /\ a[k].len \in Nat /\ OcHead(a, k) \in {0, 1} /\ oc_pos \in Nat
      BY <1>3, <3>1
    <3>7. PICK i \in 1 .. a[k].len : i = oc_pos + 1
      BY ONLY <3>0
    <3>3. OcPart(a, k)[j] = seen
      <4>1. OcPart(a, k)[OcHead(a, k) + i] = OcRx(i # a[k].len)
        BY <1>3, <3>0, OcPartIs
      <4>2. j = OcHead(a, k) + i
        BY <1>3, <3>2, <3>7
      <4>3. CASE i = a[k].len
        <5>1. oc_cmd = "read nack"
          <6>1. oc_pos = a[k].len - 1
            BY <3>0, <3>7, <4>3
          <6>. QED BY <3>1, <6>1
        <5>2. (oc_cmd = "read ack") = FALSE /\ (i # a[k].len) = FALSE
          BY <5>1, <4>3
        <5>. QED BY <4>1, <4>2, <5>2
      <4>4. CASE i # a[k].len
        <5>1. oc_cmd = "read ack"
          <6>1. oc_pos # a[k].len - 1
            BY <3>0, <3>7, <4>4
          <6>. QED BY <3>1, <6>1
        <5>2. (oc_cmd = "read ack") = TRUE /\ (i # a[k].len) = TRUE
          BY <5>1, <4>4
        <5>. QED BY <4>1, <4>2, <5>2
      <4>. QED BY <4>3, <4>4
    <3>4. j \in 1 .. OcHead(a, k) + a[k].len /\ OcHead(a, k) + oc_pos + 0 = j - 1 /\ OcHead(a, k) + oc_pos + 1 = j
      BY ONLY <3>0, <3>2
    <3>5. SoFar(OcParts(a), k, j - 1) \o <<seen>> = SoFar(OcParts(a), k, j)
      <4>. HIDE DEF a, k, seen
      <4>. QED BY <1>3, <3>3, <3>4, OcOneMore
    <3>6. oc_wire' = SoFar(OcParts(a), k, OcHead(a, k) + oc_pos + OcSeen')
      BY <1>4, <3>1, <3>4, <3>5
    <3>. QED BY <1>4, <1>5, <2>0, <3>1, <3>6 DEF OcAtRead
  <2>. QED BY <2>0, <2>1, <2>2 DEF OcAtStart, OcAtWrite
<1>6. OcRunaway \/ (OcAtStart /\ OcAtWrite /\ OcAtRead)'
  BY <1>3, <1>5
<1>7. irq # "lost" /\ oc_cmd # "none" /\ TRUE \in BOOLEAN /\ irq \in {"ack", "nack", "lost"}
  BY <1>1
<1>. HIDE DEF irq, seen
<1>. QED BY <1>1, <1>2, <1>6, <1>7, OcWorked

(* The controller's steps.                                                 *)
LEMMA OcControllerInv ==
  ASSUME OcInv, ~ oc_early, OcController
  PROVE  OcInv'
<1>1. CASE OcSentStop
  <2>1. /\ oc_cmd = "stop" /\ oc_irq' = "ack" /\ oc_cmd' = "none" /\ oc_ours' = FALSE
        /\ oc_wire' = oc_wire \o <<OcStop>>
        /\ UNCHANGED <<oc_data, ocFields, oc_stored, oc_early, ocCaller>>
    BY <1>1 DEF OcSentStop, OcFinishes
  <2>2. /\ oc_pc = "wait" /\ oc_msgs = oc_args /\ OcActive /\ OcEnded /\ oc_args \in OcTransfers
    BY <2>1, OcIrqWaits DEF OcInv, OcCalled
  <2>3. OcOver
    BY <2>1, <2>2 DEF OcActive
  <2>4. OcOver' /\ OcType' /\ OcActive'
    BY <2>1, <2>3 DEF OcInv, OcType, OcOver, OcActive, ocFields, ocCaller
  <2>5. oc_state = "DONE" => oc_wire' = Append(OcWhole, OcStop) /\ oc_stored = OcPlaces
    <3>. SUFFICES ASSUME oc_state = "DONE"
                  PROVE  oc_wire' = Append(OcWhole, OcStop) /\ oc_stored = OcPlaces
      OBVIOUS
    <3>1. oc_wire = OcWhole /\ oc_stored = OcPlaces
      BY <2>1, <2>2 DEF OcEnded
    <3>2. oc_args \in Seq(OcMessage) /\ OcWhole = Flat(OcParts(oc_args), Len(oc_args))
      BY <2>2, OcArgs, OcAll
    <3>3. OcWhole \in Seq(OcEvents) /\ OcStop \in OcEvents
      <4>1. OcParts(oc_args) \in Seq(Seq(OcEvents)) /\ Len(oc_args) \in 0 .. Len(OcParts(oc_args))
        BY <3>2, OcSeqs, LenProperties
      <4>. QED BY <3>2, <4>1, FlatType DEF OcEvents
    <3>4. Append(OcWhole, OcStop) = OcWhole \o <<OcStop>>
      BY <3>3, AppendIsConcat
    <3>. QED BY <2>1, <3>1, <3>4
  <2>6. OcWhole' = OcWhole /\ OcPlaces' = OcPlaces
    BY <2>1 DEF ocCaller, OcWhole, OcPlaces
  <2>7. OcEnded'
    <3>1. UNCHANGED <<oc_state, oc_stored>>
      BY <2>1 DEF ocFields
    <3>. QED BY <2>1, <2>5, <2>6, <3>1 DEF OcEnded
  <2>. QED BY <2>1, <2>2, <2>4, <2>7 DEF OcInv, OcCalled, ocFields, ocCaller
<1>2. CASE OcLost
  <2>1. oc_cmd \in {"start", "write"} /\ OcFinishes("lost", <<>>, FALSE)
    BY <1>2 DEF OcLost
  <2>2. ~ OcOver
    BY <2>1, OcIrqWaits DEF OcEnded
  <2>3. OcRunaway \/ oc_state # "READ"
    BY <2>1, <2>2, OcActiveParts DEF OcAtRead
  <2>4. oc_cmd # "none" /\ "lost" \in {"ack", "nack", "lost"} /\ FALSE \in BOOLEAN
    BY <2>1
  <2>. QED BY <2>1, <2>2, <2>3, <2>4, OcWorked
<1>. QED BY <1>1, <1>2, OcSentInv, OcReceivedInv DEF OcController

(* A call begins.                                                          *)
LEMMA OcXferInv ==
  ASSUME OcInv, ~ oc_early, OcXfer
  PROVE  OcInv'
<1>1. /\ oc_pc = "idle" /\ oc_args' \in OcTransfers /\ oc_msgs' = oc_args' /\ oc_msg' = 1 /\ oc_pos' = 0
      /\ oc_nmsgs' = Len(oc_args') /\ oc_state' = "START" /\ oc_pc' = "start"
      /\ UNCHANGED <<ocUnit, ocRecord>>
  BY DEF OcXfer
<1>2. OcIdle /\ oc_stored = <<>>
  BY <1>1 DEF OcInv, OcCalled
<1>3. OcIdle' /\ oc_stored' = <<>> /\ OcType'
  BY <1>1, <1>2 DEF OcInv, OcType, OcIdle, ocUnit, ocRecord
<1>. QED BY <1>1, <1>3 DEF OcInv, OcCalled

(* The process starts the first message.                                   *)
LEMMA OcStartInv ==
  ASSUME OcInv, ~ oc_early, OcStart
  PROVE  OcInv'
<1>. DEFINE a == oc_args
<1>1. /\ oc_pc = "start" /\ oc_data' = OcAddr(oc_msgs[1]) /\ oc_cmd' = "start" /\ oc_irq' = "no"
      /\ oc_wire' = <<>> /\ oc_pc' = "wait"
      /\ UNCHANGED <<ocFields, oc_ours, oc_stored, oc_early, oc_args, oc_ret, oc_xfers>>
  BY DEF OcStart, OcCommand
<1>2. /\ oc_state = "START" /\ oc_msgs = a /\ oc_msg = 1 /\ oc_pos = 0 /\ oc_nmsgs = Len(a)
      /\ oc_stored = <<>> /\ oc_args \in OcTransfers
  BY <1>1 DEF OcInv, OcCalled
<1>3. a \in Seq(OcMessage) /\ Len(a) \in Nat \ {0} /\ 1 \in 1 .. Len(a)
  BY <1>1, OcArgs
<1>4. SoFar(OcParts(a), 1, 0) = <<>> /\ OcStoredAt(a, 1, 0) = <<>> /\ OcHead(a, 1) = 1
  <2>1. /\ OcParts(a) \in Seq(Seq(OcEvents)) /\ 1 \in 1 .. Len(OcParts(a)) /\ 0 \in 0 .. Len(OcParts(a))
        /\ OcGoes(a) \in Seq(Seq(Nat \X Int)) /\ 1 \in 1 .. Len(OcGoes(a)) /\ 0 \in 0 .. Len(OcGoes(a))
    BY <1>3, OcSeqs
  <2>2. SoFar(OcParts(a), 1, 0) = Flat(OcParts(a), 1 - 1) /\ SoFar(OcGoes(a), 1, 0) = Flat(OcGoes(a), 1 - 1)
    BY <2>1, SoFarNone
  <2>3. Flat(OcParts(a), 1 - 1) = <<>> /\ Flat(OcGoes(a), 1 - 1) = <<>>
    BY <2>1, FlatType
  <2>. QED BY <2>2, <2>3 DEF OcStoredAt, OcHead
<1>5. OcSeen' = 0 /\ oc_args' = a /\ oc_msg' = 1 /\ oc_pos' = 0 /\ oc_state' = "START" /\ oc_stored' = <<>>
  BY <1>1, <1>2 DEF OcSeen, ocFields
<1>6. OcAtStart' /\ OcAtWrite' /\ OcAtRead'
  <2>1. OcAtStart'
    BY <1>1, <1>2, <1>4, <1>5 DEF OcAtStart
  <2>. QED BY <1>5, <2>1 DEF OcAtWrite, OcAtRead
<1>7. OcType' /\ ~ OcOver' /\ oc_msgs' = a /\ oc_nmsgs' = Len(a) - 1 + 1
  BY <1>1, <1>2, <1>3 DEF OcInv, OcType, OcOver, ocFields
<1>8. OcActive'
  BY <1>1, <1>3, <1>5, <1>6, <1>7 DEF OcActive
<1>9. OcEnded'
  BY <1>7 DEF OcEnded, OcOver
<1>. QED BY <1>1, <1>2, <1>5, <1>7, <1>8, <1>9 DEF OcInv, OcCalled

(* The process's steps.                                                    *)
LEMMA OcProcessInv ==
  ASSUME OcInv, ~ oc_early, OcProcess
  PROVE  OcInv'
<1>1. CASE OcWaited
  <2>1. /\ oc_pc = "wait" /\ OcOver /\ oc_ret' = (IF oc_state = "DONE" THEN Len(oc_args) ELSE -5)
        /\ oc_early' = (oc_early \/ oc_cmd # "none" \/ oc_irq # "no") /\ oc_pc' = "done"
        /\ UNCHANGED <<ocFields, ocUnit, oc_wire, oc_stored, oc_args, oc_xfers>>
    BY <1>1 DEF OcWaited
  <2>2. OcType'
    BY <2>1 DEF OcInv, OcType, ocFields, ocUnit
  <2>3. ASSUME ~ oc_early' PROVE OcCalled'
    <3>1. OcEnded /\ oc_args \in OcTransfers
      BY <2>1 DEF OcInv, OcCalled
    <3>2. OcIdle
      BY <2>1, <2>3, <3>1 DEF OcIdle, OcEnded, OcInv, OcType
    <3>3. OcEnded' /\ OcIdle' /\ OcOver' /\ (oc_ret' > 0 => oc_state' = "DONE")
      <4>1. OcEnded'
        BY <2>1, <3>1 DEF OcEnded, OcOver, OcWhole, OcPlaces, ocFields, ocUnit
      <4>. QED BY <2>1, <3>2, <4>1 DEF OcIdle, OcOver, ocFields, ocUnit
    <3>. QED BY <2>1, <3>1, <3>3 DEF OcCalled
  <2>. QED BY <2>2, <2>3 DEF OcInv
<1>2. CASE OcTimedOut
  BY <1>2 DEF OcTimedOut, OcInv, OcType, ocFields, ocUnit
<1>3. CASE OcReturn
  <2>1. /\ oc_pc = "done" /\ oc_pc' = "idle" /\ oc_stored' = <<>>
        /\ UNCHANGED <<ocFields, ocUnit, oc_wire, oc_early, oc_xfers>>
    BY <1>3 DEF OcReturn
  <2>2. OcIdle /\ OcOver
    BY <2>1 DEF OcInv, OcCalled
  <2>. QED BY <2>1, <2>2 DEF OcInv, OcType, OcCalled, OcIdle, OcOver, ocFields, ocUnit
<1>. QED BY <1>1, <1>2, <1>3, OcStartInv DEF OcProcess

(* Every step.                                                             *)
LEMMA OcStep ==
  ASSUME OcInv, [OcNext]_ocVars
  PROVE  OcInv'
<1>1. CASE ~ oc_early
  <2>1. CASE UNCHANGED ocVars
    <3>1. UNCHANGED <<ocFields, ocUnit, ocRecord, ocCaller>>
      BY <2>1 DEF ocVars
    <3>. QED BY <1>1, <3>1 DEF OcInv, OcType, OcCalled, OcIdle, OcOver, OcActive, OcEnded, OcRunaway,
               OcAtStart, OcAtWrite, OcAtRead, OcSeen, OcWhole, OcPlaces, ocFields, ocUnit, ocRecord, ocCaller
  <2>. QED BY <1>1, <2>1, OcHandlerInv, OcControllerInv, OcXferInv, OcProcessInv DEF OcNext
<1>2. CASE oc_early
  <2>1. OcType /\ oc_early
    BY <1>2 DEF OcInv
  <2>2. oc_early'
    BY <2>1 DEF OcNext, OcHandler, OcStopped, OcFailed, OcBytes, OcNextStart, OcNextOn, OcLast, OcEndOfMsg,
       OcController, OcSent, OcReceived, OcSentStop, OcLost, OcFinishes, OcXfer, OcProcess, OcStart,
       OcWaited, OcTimedOut, OcReturn, ocVars, ocRecord
  <2>3. OcType'
    BY <2>1, <2>2 DEF OcType, OcNext, OcHandler, OcStopped, OcFailed, OcBytes, OcNextStart, OcNextOn, OcLast, OcEndOfMsg,
       OcByte, OcDirection, OcCommand, OcController, OcSent, OcReceived, OcSentStop, OcLost, OcFinishes, OcXfer, OcProcess, OcStart,
       OcWaited, OcTimedOut, OcReturn, ocVars, ocRecord, ocFields, ocUnit, ocCaller
  <2>. QED BY <2>2, <2>3 DEF OcInv
<1>. QED BY <1>1, <1>2

(* The invariant implies the property.                                     *)
LEMMA OcInvKept == OcInv => OcKept
<1>. SUFFICES ASSUME OcInv, ~ oc_early
              PROVE  OcFaithful /\ OcSomebodyWorks /\ OcQuiet
  BY DEF OcKept
<1>1. OcFaithful
  BY DEF OcFaithful, OcInv, OcCalled, OcIdle, OcEnded
<1>2. OcSomebodyWorks
  <2>. SUFFICES ASSUME oc_pc = "wait", ~ OcOver, oc_irq = "no", oc_cmd # "start"
                PROVE  oc_cmd # "none" /\ oc_ours
    BY DEF OcSomebodyWorks
  <2>. QED BY DEF OcInv, OcCalled, OcActive
<1>3. OcQuiet
  BY DEF OcQuiet, OcInv, OcCalled, OcIdle
<1>. QED BY <1>1, <1>2, <1>3

(* OpenCores': a call that reports success has put its messages on the bus *)
(* and every byte it read in its place; while a call waits somebody works, *)
(* and nothing goes on when it has returned: for any transfers and losses, *)
(* as long as the process is not woken before it has begun to wait.        *)
THEOREM OpenCoresServed == OcSpec => []OcKept
<1>1. OcInit => OcInv
  BY OcInitInv
<1>2. OcInv /\ [OcNext]_ocVars => OcInv'
  BY OcStep
<1>. QED BY <1>1, <1>2, OcInvKept, PTL DEF OcSpec

-----------------------------------------------------------------------------
(***************************************************************************)
(* Marvell's.                                                              *)
(***************************************************************************)
MvParts(a) == [k \in DOMAIN a |-> MvExpected(a[k])]
MvDir(m)   == m.rd # m.rev
MvHead(m)  == IF m.ten THEN 3 ELSE 2

MvAllPlain == \A k \in DOMAIN mv_args : MvPlain(mv_args[k])

(* The messages before the i-th have been on the bus, and j events of it.  *)
MvBus(j) == mv_rc = 0 /\ MvAllPlain => mv_wire = SoFar(MvParts(mv_args), mv_i, j)
MvBusNext(j) == mv_rc' = 0 /\ MvAllPlain' => mv_wire' = SoFar(MvParts(mv_args'), mv_i', j)
MvDone(k) == mv_rc = 0 /\ MvAllPlain => mv_wire = Flat(MvParts(mv_args), k)

MvQuiet == ~ mv_inten /\ mv_job = <<>> /\ mv_status = "" /\ ~ mv_ours

(* What the controller has been told, how far it is and what is left.      *)
MvOnStart ==
  /\ mv_job = MvStart /\ mv_posn = 0 /\ mv_left = MvMsg.len
  /\ mv_status \in {"", "start"} /\ (mv_ours <=> mv_status = "start") /\ mv_ack
  /\ MvBus(IF mv_status = "" THEN 0 ELSE 1)

MvOnAddr ==
  /\ mv_job = MvAddr(MvMsg) /\ mv_posn = 0 /\ mv_left = MvMsg.len /\ mv_ack
  /\ mv_status \in {"", "lost"} \cup (IF MvDir(MvMsg) THEN {"rd addr ack", "rd addr no ack"}
                                                      ELSE {"wr addr ack", "wr addr no ack"})
  /\ mv_status # "lost" => mv_ours
  /\ mv_status = "" => MvBus(1)
  /\ mv_status \in {"rd addr ack", "wr addr ack"} => MvBus(2)

MvOnAddr2 ==
  /\ mv_job = MvAddr2 /\ mv_posn = 0 /\ mv_left = MvMsg.len /\ mv_ack /\ MvMsg.ten
  /\ mv_status \in {"", "lost", "addr2 no ack", IF MvDir(MvMsg) THEN "rd addr2 ack" ELSE "wr addr2 ack"}
  /\ mv_status # "lost" => mv_ours
  /\ mv_status = "" => MvBus(2)
  /\ mv_status \in {"rd addr2 ack", "wr addr2 ack"} => MvBus(3)

MvOnTx ==
  /\ mv_job = MvTx(mv_posn - 1) /\ mv_posn \in 1 .. MvMsg.len /\ mv_left = MvMsg.len - mv_posn
  /\ ~ MvDir(MvMsg)
  /\ mv_status \in {"", "lost", "wr ack", "wr no ack"}
  /\ mv_status # "lost" => mv_ours
  /\ mv_status = "" => MvBus(MvHead(MvMsg) + mv_posn - 1)
  /\ mv_status = "wr ack" => MvBus(MvHead(MvMsg) + mv_posn)

MvOnRx ==
  /\ mv_job = MvRx /\ mv_posn \in 0 .. MvMsg.len - 1 /\ mv_left = MvMsg.len - mv_posn
  /\ MvDir(MvMsg)
  /\ IF mv_ack THEN mv_left # 1 ELSE mv_left = 1 \/ mv_aborting
  /\ mv_status \in {"", "lost", IF mv_ack THEN "rd data ack" ELSE "rd data no ack"}
  /\ mv_status # "lost" => mv_ours
  /\ mv_status = "" => MvBus(MvHead(MvMsg) + mv_posn)
  /\ mv_status \in {"rd data ack", "rd data no ack"} => MvBus(MvHead(MvMsg) + mv_posn + 1)

(* A message that is to go on without a start: nothing happens.            *)
MvStuck == mv_job \in {MvTx(0), MvRx} /\ mv_status = "" /\ ~ mv_ours

MvBusy ==
  /\ mv_inten /\ ~ mv_idle
  /\ IF MvMsg.nostart THEN MvStuck
     ELSE MvOnStart \/ MvOnAddr \/ MvOnAddr2 \/ MvOnTx \/ MvOnRx

MvCalled ==
  /\ mv_pc \in {"idle", "execute", "executed", "done"} => MvQuiet
  /\ mv_pc = "idle" => mv_wire = <<>> /\ mv_stored = <<>> /\ mv_i = 0
  /\ mv_pc # "idle" => mv_args \in MvTransfers /\ mv_i \in 1 .. Len(mv_args)
  /\ mv_pc = "execute" => (MvAllPlain => mv_wire = Flat(MvParts(mv_args), mv_i - 1))
  /\ mv_pc \in {"wait", "late", "abort", "locked", "reset"} /\ ~ mv_block => MvQuiet /\ MvDone(mv_i)
  /\ mv_pc \in {"wait", "late", "abort", "locked"} /\ mv_block => MvBusy
  /\ mv_pc = "reset" => mv_idle
  /\ mv_pc \in {"abort", "locked", "reset"} \/ mv_aborting => mv_rc # 0
  /\ mv_pc = "executed" => MvDone(mv_i)
  /\ mv_pc = "done" => MvDone(mv_i) /\ (mv_rc = 0 => mv_i = Len(mv_args))

(* The buffers.                                                            *)
MvStoredOf(k) ==
  /\ mv_stored[k][1] \in 1 .. mv_i /\ mv_stored[k][2] \in 0 .. mv_args[mv_stored[k][1]].len - 1
  /\ k > 1 /\ mv_stored[k][1] = mv_stored[k - 1][1] => mv_stored[k][2] = mv_stored[k - 1][2] + 1

MvBuffer ==
  /\ mv_stored \in Seq(Nat \X Nat) /\ \A k \in 1 .. Len(mv_stored) : MvStoredOf(k)
  /\ mv_stored # <<>> /\ mv_stored[Len(mv_stored)][1] = mv_i
       => mv_pc # "execute" /\ mv_stored[Len(mv_stored)][2] = mv_posn - 1 /\ MvDir(MvMsg)
  /\ mv_i # 0 /\ (MvMsg.nostart => MvMsg.len # 0) /\ mv_pc # "execute" => mv_posn <= MvMsg.len

MvType ==
  /\ mv_pc \in {"idle", "execute", "wait", "late", "abort", "locked", "reset", "executed", "done"}
  /\ mv_block \in BOOLEAN /\ mv_idle \in BOOLEAN /\ mv_aborting \in BOOLEAN /\ mv_ack \in BOOLEAN
  /\ mv_inten \in BOOLEAN /\ mv_ours \in BOOLEAN
  /\ mv_rc \in {0, ENODEV, EIO, ETIMEDOUT} /\ mv_posn \in Nat

MvInv == MvType /\ MvCalled /\ MvBuffer

-----------------------------------------------------------------------------
MvEvents ==
  {MvStart, MvStop, MvByte(MvAddr2, TRUE), MvByte(MvRx, TRUE), MvByte(MvRx, FALSE)}
    \cup {MvByte(MvAddr(m), TRUE) : m \in MvMessage} \cup {MvByte(MvTx(p), TRUE) : p \in Nat}

(* The fields of a message.                                                *)
LEMMA MvMessageIs ==
  ASSUME NEW m \in MvMessage
  PROVE  /\ m.len \in Nat /\ m.len < MvWord /\ MvWord \in Nat \ {0}
         /\ m.rd \in BOOLEAN /\ m.ten \in BOOLEAN /\ m.rev \in BOOLEAN /\ m.nostart \in BOOLEAN
         /\ MvHead(m) \in {2, 3}
BY MvAssumption DEF MvMessage, MvHead

(* A sequence of two.                                                      *)
LEMMA MvTwo ==
  ASSUME NEW E, NEW x \in E, NEW y \in E
  PROVE  <<x, y>> \in Seq(E) /\ Len(<<x, y>>) = 2 /\ <<x, y>>[1] = x /\ <<x, y>>[2] = y
OBVIOUS

(* Of one, and of none.                                                    *)
LEMMA MvOne ==
  ASSUME NEW E, NEW x \in E
  PROVE  <<x>> \in Seq(E) /\ Len(<<x>>) = 1 /\ <<x>>[1] = x /\ <<>> \in Seq(E) /\ Len(<<>>) = 0
OBVIOUS

(* What a plain message asks for: a start, its address in one byte or two, *)
(* its bytes and the stop.                                                 *)
LEMMA MvExpectedIs ==
  ASSUME NEW m \in MvMessage
  PROVE  /\ MvExpected(m) \in Seq(MvEvents)
         /\ Len(MvExpected(m)) = MvHead(m) + m.len + 1
         /\ MvExpected(m)[1] = MvStart /\ MvExpected(m)[2] = MvByte(MvAddr(m), TRUE)
         /\ m.ten => MvExpected(m)[3] = MvByte(MvAddr2, TRUE)
         /\ \A p \in 1 .. m.len :
              MvExpected(m)[MvHead(m) + p]
                = IF m.rd THEN MvByte(MvRx, p # m.len) ELSE MvByte(MvTx(p - 1), TRUE)
         /\ MvExpected(m)[MvHead(m) + m.len + 1] = MvStop
<1>. DEFINE A == <<MvStart, MvByte(MvAddr(m), TRUE)>>
            B == IF m.ten THEN <<MvByte(MvAddr2, TRUE)>> ELSE <<>>
            F(p) == IF m.rd THEN MvByte(MvRx, p # m.len) ELSE MvByte(MvTx(p - 1), TRUE)
            C == [p \in 1 .. m.len |-> F(p)]
            D == <<MvStop>>
            h == MvHead(m)
            n == m.len
<1>1. n \in Nat /\ h \in {2, 3} /\ m.ten \in BOOLEAN /\ m.rd \in BOOLEAN
  BY MvMessageIs
<1>2. MvExpected(m) = ((A \o B) \o C) \o D
  BY DEF MvExpected
<1>3. /\ MvStart \in MvEvents /\ MvStop \in MvEvents /\ MvByte(MvAddr2, TRUE) \in MvEvents
      /\ MvByte(MvAddr(m), TRUE) \in MvEvents
  BY DEF MvEvents
<1>4. A \in Seq(MvEvents) /\ Len(A) = 2 /\ A[1] = MvStart /\ A[2] = MvByte(MvAddr(m), TRUE)
  BY <1>3, MvTwo
<1>5. B \in Seq(MvEvents) /\ Len(B) = h - 2 /\ (m.ten => B[1] = MvByte(MvAddr2, TRUE))
  <2>1. CASE m.ten
    <3>2. h = 3
      BY <2>1 DEF MvHead
    <3>3. B = <<MvByte(MvAddr2, TRUE)>>
      BY <2>1
    <3>1. h - 2 = 1
      BY <3>2
    <3>4. B \in Seq(MvEvents) /\ Len(B) = 1 /\ B[1] = MvByte(MvAddr2, TRUE)
      BY <1>3, <3>3, MvOne
    <3>. HIDE DEF B
    <3>. QED BY <3>1, <3>4
  <2>2. CASE ~ m.ten
    <3>1. h - 2 = 0 /\ B = <<>>
      BY <2>2 DEF MvHead
    <3>. QED BY <1>3, <2>2, <3>1, MvOne
  <2>. QED BY <2>1, <2>2
<1>6. C \in Seq(MvEvents) /\ Len(C) = n /\ \A p \in 1 .. n : C[p] = F(p)
  <2>1. ASSUME NEW p \in 1 .. n PROVE F(p) \in MvEvents
    <3>1. MvByte(MvRx, TRUE) \in MvEvents /\ MvByte(MvRx, FALSE) \in MvEvents
      BY DEF MvEvents
    <3>2. MvByte(MvRx, p # n) \in MvEvents
      <4>1. CASE p = n
        <5>1. (p # n) = FALSE
          BY <4>1
        <5>. QED BY <3>1, <5>1
      <4>2. CASE p # n
        <5>1. (p # n) = TRUE
          BY <4>2
        <5>. QED BY <3>1, <5>1
      <4>. QED BY <4>1, <4>2
    <3>3. MvByte(MvTx(p - 1), TRUE) \in MvEvents
      <4>1. PICK q \in Nat : q = p - 1
        BY <1>1
      <4>. QED BY <4>1 DEF MvEvents
    <3>. QED BY <3>2, <3>3
  <2>. HIDE DEF F
  <2>2. C \in [1 .. n -> MvEvents]
    BY <2>1
  <2>. QED BY <1>1, <2>2
<1>7. D \in Seq(MvEvents) /\ Len(D) = 1 /\ D[1] = MvStop
  BY <1>3, MvOne
<1>. HIDE DEF A, B, C, D, F, h, n
<1>. DEFINE H == A \o B
<1>8. /\ H \in Seq(MvEvents) /\ Len(H) = 2 + (h - 2)
      /\ \A i \in 1 .. h : H[i] = IF i <= 2 THEN A[i] ELSE B[i - 2]
  <2>1. /\ H \in Seq(MvEvents) /\ Len(H) = Len(A) + Len(B)
        /\ \A i \in 1 .. Len(A) + Len(B) : H[i] = IF i <= Len(A) THEN A[i] ELSE B[i - Len(A)]
    BY <1>4, <1>5, ConcatProperties
  <2>2. Len(A) + Len(B) = h
    BY <1>1, <1>4, <1>5
  <2>. QED BY <1>4, <1>5, <2>1, <2>2
<1>9. Len(H) = h /\ H[1] = MvStart /\ H[2] = MvByte(MvAddr(m), TRUE)
  <2>. HIDE DEF H
  <2>1. 1 \in 1 .. h /\ 2 \in 1 .. h /\ 2 + (h - 2) = h
    BY <1>1
  <2>2. H[1] = A[1] /\ H[2] = A[2]
    BY <1>8, <2>1
  <2>3. Len(H) = h
    BY <1>8, <2>1
  <2>. QED BY <1>4, <2>2, <2>3
<1>10. m.ten => H[3] = MvByte(MvAddr2, TRUE)
  <2>. SUFFICES ASSUME m.ten PROVE H[3] = MvByte(MvAddr2, TRUE)
    OBVIOUS
  <2>1. h = 3
    BY DEF h, MvHead
  <2>. HIDE DEF H
  <2>2. 3 \in 1 .. h /\ ~ (3 <= 2) /\ 3 - 2 = 1
    BY <2>1
  <2>3. H[3] = B[1]
    BY <1>8, <2>2
  <2>. QED BY <1>5, <2>3
<1>. HIDE DEF H
<1>. DEFINE G == H \o C
<1>11. /\ G \in Seq(MvEvents) /\ Len(G) = h + n
       /\ \A i \in 1 .. h + n : G[i] = IF i <= h THEN H[i] ELSE C[i - h]
  BY <1>6, <1>8, <1>9, ConcatProperties
<1>. HIDE DEF G
<1>12. /\ G \o D \in Seq(MvEvents) /\ Len(G \o D) = h + n + 1
       /\ \A i \in 1 .. h + n + 1 : (G \o D)[i] = IF i <= h + n THEN G[i] ELSE D[i - (h + n)]
  <2>1. /\ G \o D \in Seq(MvEvents) /\ Len(G \o D) = Len(G) + Len(D)
        /\ \A i \in 1 .. Len(G) + Len(D) : (G \o D)[i] = IF i <= Len(G) THEN G[i] ELSE D[i - Len(G)]
    BY <1>7, <1>11, ConcatProperties
  <2>. QED BY <1>7, <1>11, <2>1
<1>. DEFINE X == G \o D
<1>13. MvExpected(m) = X
  BY <1>2 DEF G, H
<1>. HIDE DEF X
<1>14. \A i \in 1 .. h + n + 1 : X[i] = IF i <= h + n THEN (IF i <= h THEN H[i] ELSE C[i - h]) ELSE D[i - (h + n)]
  BY <1>1, <1>11, <1>12 DEF X
<1>15. X[1] = H[1] /\ X[2] = H[2] /\ (m.ten => X[3] = H[3])
  <2>1. m.ten => h = 3
    BY DEF h, MvHead
  <2>. QED BY <1>1, <1>14, <2>1
<1>16. X[h + n + 1] = MvStop
  <2>1. PICK i \in 1 .. h + n + 1 : i = h + n + 1 /\ ~ (i <= h + n) /\ i - (h + n) = 1
    BY <1>1
  <2>. QED BY <1>7, <1>14, <2>1
<1>17. \A p \in 1 .. n : X[h + p] = F(p)
  <2>. SUFFICES ASSUME NEW p \in 1 .. n PROVE X[h + p] = F(p)
    OBVIOUS
  <2>1. PICK i \in 1 .. h + n + 1 : i = h + p /\ i <= h + n /\ ~ (i <= h) /\ i - h = p
    BY <1>1
  <2>. QED BY <1>6, <1>14, <2>1
<1>. QED BY <1>9, <1>10, <1>12, <1>13, <1>15, <1>16, <1>17 DEF X, F, h, n

(* The parts of an array are sequences of events.                          *)
LEMMA MvSeqs ==
  ASSUME NEW a \in Seq(MvMessage)
  PROVE  /\ MvParts(a) \in Seq(Seq(MvEvents)) /\ Len(MvParts(a)) = Len(a)
         /\ \A k \in 1 .. Len(a) : MvParts(a)[k] = MvExpected(a[k]) /\ a[k] \in MvMessage
<1>1. DOMAIN a = 1 .. Len(a) /\ Len(a) \in Nat /\ \A k \in 1 .. Len(a) : a[k] \in MvMessage
  BY LenProperties, ElementOfSeq
<1>2. MvParts(a) \in [1 .. Len(a) -> Seq(MvEvents)]
  BY <1>1, MvExpectedIs DEF MvParts
<1>3. MvParts(a) \in Seq(Seq(MvEvents)) /\ Len(MvParts(a)) = Len(a)
  BY <1>1, <1>2
<1>. QED BY <1>1, <1>3 DEF MvParts

(* One event more of message k.                                            *)
LEMMA MvOneMore ==
  ASSUME NEW a \in Seq(MvMessage), NEW k \in 1 .. Len(a), NEW j \in 1 .. Len(MvExpected(a[k])),
         NEW i, i = j - 1, NEW e, e = MvExpected(a[k])[j]
  PROVE  Append(SoFar(MvParts(a), k, i), e) = SoFar(MvParts(a), k, j)
<1>. DEFINE P == MvParts(a)
<1>1. P \in Seq(Seq(MvEvents)) /\ k \in 1 .. Len(P) /\ P[k] = MvExpected(a[k])
  BY MvSeqs
<1>2. j \in 1 .. Len(P[k])
  BY <1>1
<1>. HIDE DEF P
<1>3. Append(SoFar(P, k, j - 1), P[k][j]) = SoFar(P, k, j)
  BY ONLY <1>1, <1>2, SoFarOn
<1>. QED BY <1>1, <1>3 DEF P

(* The end of a message.                                                   *)
LEMMA MvEnds ==
  ASSUME NEW a \in Seq(MvMessage), NEW k \in 1 .. Len(a)
  PROVE  /\ SoFar(MvParts(a), k, Len(MvExpected(a[k]))) = Flat(MvParts(a), k)
         /\ SoFar(MvParts(a), k, 0) = Flat(MvParts(a), k - 1)
<1>. DEFINE P == MvParts(a)
<1>1. P \in Seq(Seq(MvEvents)) /\ k \in 1 .. Len(P) /\ P[k] = MvExpected(a[k])
  BY MvSeqs
<1>. HIDE DEF P
<1>2. SoFar(P, k, Len(P[k])) = Flat(P, k) /\ SoFar(P, k, 0) = Flat(P, k - 1)
  BY ONLY <1>1, SoFarOver, SoFarNone
<1>. QED BY <1>1, <1>2 DEF P

(* What the controller is told differs in kind.                            *)
LEMMA MvKinds ==
  /\ MvStart[1] = "start" /\ MvAddr2[1] = "addr2" /\ MvRx[1] = "rx" /\ MvStart # <<>> /\ MvAddr2 # <<>> /\ MvRx # <<>>
  /\ \A m : MvAddr(m)[1] = "addr" /\ MvAddr(m) # <<>> /\ MvAddr(m)[2] = MvDir(m)
  /\ \A p : MvTx(p)[1] = "tx" /\ MvTx(p) # <<>> /\ MvTx(p)[2] = p
BY DEF MvStart, MvAddr2, MvRx, MvAddr, MvTx, MvDir

(* What a call has for messages.                                           *)
LEMMA MvArgs ==
  ASSUME MvInv, mv_pc # "idle"
  PROVE  /\ mv_args \in Seq(MvMessage) /\ mv_i \in 1 .. Len(mv_args) /\ MvMsg = mv_args[mv_i]
         /\ MvMsg \in MvMessage /\ MvMsg.len \in Nat /\ MvMsg.len < MvWord /\ MvMsg.rd \in BOOLEAN
         /\ MvMsg.rev \in BOOLEAN /\ MvMsg.ten \in BOOLEAN
         /\ MvMsg.nostart \in BOOLEAN /\ MvHead(MvMsg) \in {2, 3}
         /\ MvDir(MvMsg) \in BOOLEAN
         /\ MvAllPlain => ~ MvMsg.rev /\ (MvDir(MvMsg) <=> MvMsg.rd)
<1>1. mv_args \in Seq(MvMessage) /\ mv_i \in 1 .. Len(mv_args)
  BY MvAssumption DEF MvInv, MvCalled
<1>2. MvMsg \in MvMessage /\ MvMsg = mv_args[mv_i]
  BY <1>1, ElementOfSeq DEF MvMsg
<1>3. MvAllPlain => ~ MvMsg.rev
  BY <1>1, <1>2 DEF MvAllPlain, MvPlain
<1>4. MvMsg.rd \in BOOLEAN /\ MvMsg.rev \in BOOLEAN
  BY <1>2, MvMessageIs
<1>5. MvDir(MvMsg) \in BOOLEAN /\ (~ MvMsg.rev => (MvDir(MvMsg) <=> MvMsg.rd))
  <2>1. CASE MvMsg.rev = FALSE
    BY <1>4, <2>1 DEF MvDir
  <2>2. CASE MvMsg.rev = TRUE
    BY <1>4, <2>2 DEF MvDir
  <2>. QED BY <1>4, <2>1, <2>2
<1>. QED BY <1>1, <1>2, <1>3, <1>5, MvMessageIs

(* Before the first call.                                                  *)
LEMMA MvInitInv == MvInit => MvInv
<1>. SUFFICES ASSUME MvInit PROVE MvInv
  OBVIOUS
<1>1. MvType
  BY DEF MvInit, MvType
<1>2. MvCalled
  BY DEF MvInit, MvCalled, MvQuiet
<1>3. MvBuffer
  <2>1. mv_stored = <<>> /\ mv_i = 0
    BY DEF MvInit
  <2>2. mv_stored \in Seq(Nat \X Nat) /\ Len(mv_stored) = 0
    BY <2>1, EmptySeq
  <2>. QED BY <2>1, <2>2 DEF MvBuffer
<1>. QED BY <1>1, <1>2, <1>3 DEF MvInv

-----------------------------------------------------------------------------
(* The controller.                                                         *)
MvWaits == {"wait", "late", "abort", "locked"}

(* Whatever has been told, there is a call whose message is being done.    *)
LEMMA MvToldBusy ==
  ASSUME MvInv, mv_job # <<>> \/ mv_status # "" \/ mv_inten \/ mv_ours
  PROVE  mv_block /\ mv_pc \in MvWaits \cup {"reset"} /\ (mv_pc # "reset" => MvBusy)
BY DEF MvInv, MvType, MvCalled, MvQuiet, MvWaits

(* What has to be shown of a step while a message is on.                   *)
LEMMA MvBusyStays ==
  ASSUME MvInv, mv_job # <<>>, MvWorld, mv_ours' \in BOOLEAN, mv_pc # "reset" => MvBusy'
  PROVE  MvInv'
<1>1. mv_block /\ mv_pc \in MvWaits \cup {"reset"} /\ (mv_pc # "reset" => MvBusy)
  BY MvToldBusy
<1>2. UNCHANGED <<mv_idle, mv_aborting, mv_left, mv_posn, mv_block, mv_rc, mv_ack, mv_inten, mv_stored,
                  mv_pc, mv_args, mv_i, mv_xfers>>
  BY DEF MvWorld, mvData, mvCaller
<1>3. MvType' /\ MvBuffer'
  <2>1. MvType' /\ mv_args' = mv_args /\ mv_i' = mv_i /\ mv_stored' = mv_stored
    BY <1>2 DEF MvInv, MvType
  <2>. QED BY <1>2, <2>1 DEF MvInv, MvBuffer, MvStoredOf, MvMsg
<1>. QED BY <1>1, <1>2, <1>3 DEF MvInv, MvCalled, MvWaits

(* What has been on the bus grows by what the message has next.            *)
LEMMA MvBusMore ==
  ASSUME MvInv, mv_pc # "idle", NEW j \in Nat, NEW l \in Nat, l = j + 1, l <= Len(MvExpected(MvMsg)), MvBus(j),
         UNCHANGED <<mv_rc, mv_args, mv_i>>, NEW e, mv_wire' = Append(mv_wire, e),
         mv_rc = 0 /\ MvAllPlain => e = MvExpected(MvMsg)[l]
  PROVE  MvBus(l)'
<1>. SUFFICES ASSUME mv_rc' = 0, MvAllPlain'
              PROVE  mv_wire' = SoFar(MvParts(mv_args)', mv_i', l)
  BY DEF MvBus
<1>1. mv_rc = 0 /\ MvAllPlain /\ MvParts(mv_args)' = MvParts(mv_args) /\ mv_i' = mv_i
  BY DEF MvAllPlain
<1>2. mv_wire = SoFar(MvParts(mv_args), mv_i, j) /\ e = MvExpected(MvMsg)[l]
  BY <1>1 DEF MvBus
<1>3. mv_args \in Seq(MvMessage) /\ mv_i \in 1 .. Len(mv_args) /\ MvMsg = mv_args[mv_i]
  BY MvArgs
<1>4. l \in 1 .. Len(MvExpected(mv_args[mv_i])) /\ j = l - 1 /\ e = MvExpected(mv_args[mv_i])[l]
  BY <1>2, <1>3
<1>5. Append(SoFar(MvParts(mv_args), mv_i, j), e) = SoFar(MvParts(mv_args), mv_i, l)
  BY ONLY <1>3, <1>4, MvOneMore
<1>. QED BY <1>1, <1>2, <1>5

(* The controller gets the bus.                                            *)
LEMMA MvGetsBusInv ==
  ASSUME MvInv, MvGetsBus
  PROVE  MvInv'
<1>1. /\ mv_job = MvStart /\ mv_status = "" /\ mv_ours' = TRUE /\ mv_status' = "start"
      /\ mv_wire' = Append(mv_wire, MvStart) /\ mv_job' = mv_job /\ MvWorld
  BY DEF MvGetsBus, MvWorks
<1>2. mv_job # <<>>
  BY <1>1, MvKinds
<1>3. ASSUME mv_pc # "reset" PROVE MvBusy'
  <2>1. MvBusy /\ mv_pc # "idle"
    BY <1>2, <1>3, MvToldBusy DEF MvWaits
  <2>2. ~ MvMsg.nostart /\ MvOnStart /\ mv_inten /\ ~ mv_idle
    BY <1>1, <2>1, MvKinds DEF MvBusy, MvStuck, MvOnAddr, MvOnAddr2, MvOnTx, MvOnRx
  <2>3. UNCHANGED <<mv_idle, mv_inten, mv_posn, mv_left, mv_ack, mv_rc, mv_args, mv_i>>
    BY <1>1 DEF MvWorld, mvData, mvCaller
  <2>4. MvBus(1)'
    <3>1. MvMsg \in MvMessage /\ Len(MvExpected(MvMsg)) = MvHead(MvMsg) + MvMsg.len + 1 /\ MvExpected(MvMsg)[1] = MvStart
          /\ MvMsg.len \in Nat /\ MvHead(MvMsg) \in {2, 3}
      BY <2>1, MvArgs, MvExpectedIs
    <3>4. MvBus(0)
      BY <1>1, <2>2 DEF MvOnStart
    <3>2. MvBus(0) /\ 0 \in Nat /\ 1 \in Nat /\ 1 = 0 + 1 /\ 1 <= Len(MvExpected(MvMsg))
      BY <3>1, <3>4
    <3>3. UNCHANGED <<mv_rc, mv_args, mv_i>>
      BY <2>3
    <3>. QED BY <1>1, <2>1, <3>1, <3>2, <3>3, MvBusMore
  <2>5. MvMsg' = MvMsg
    BY <2>3 DEF MvMsg
  <2>6. MvOnStart'
    BY <1>1, <2>2, <2>3, <2>4, <2>5 DEF MvOnStart
  <2>. QED BY <2>2, <2>3, <2>5, <2>6 DEF MvBusy
<1>. QED BY <1>1, <1>2, <1>3, MvBusyStays

(* It loses the bus.                                                       *)
LEMMA MvLostInv ==
  ASSUME MvInv, MvLost
  PROVE  MvInv'
<1>1. /\ mv_job # <<>> /\ mv_status = "" /\ mv_ours /\ mv_ours' = FALSE /\ mv_status' = "lost"
      /\ UNCHANGED <<mv_job, mv_wire>> /\ MvWorld
  BY DEF MvLost
<1>2. ASSUME mv_pc # "reset" PROVE MvBusy'
  <2>1. MvBusy
    BY <1>1, <1>2, MvToldBusy
  <2>2. ~ MvMsg.nostart /\ (MvOnAddr \/ MvOnAddr2 \/ MvOnTx \/ MvOnRx) /\ mv_inten /\ ~ mv_idle
    BY <1>1, <2>1 DEF MvBusy, MvStuck, MvOnStart
  <2>3. UNCHANGED <<mv_idle, mv_aborting, mv_inten, mv_posn, mv_left, mv_ack, mv_rc, mv_args, mv_i>>
    BY <1>1 DEF MvWorld, mvData, mvCaller
  <2>4. MvMsg' = MvMsg
    BY <2>3 DEF MvMsg
  <2>5. MvOnAddr => MvOnAddr'
    BY <1>1, <2>3, <2>4 DEF MvOnAddr
  <2>6. MvOnAddr2 => MvOnAddr2'
    BY <1>1, <2>3, <2>4 DEF MvOnAddr2
  <2>7. MvOnTx => MvOnTx'
    BY <1>1, <2>3, <2>4 DEF MvOnTx
  <2>8. MvOnRx => MvOnRx'
    BY <1>1, <2>3, <2>4 DEF MvOnRx
  <2>. QED BY <2>2, <2>3, <2>4, <2>5, <2>6, <2>7, <2>8 DEF MvBusy
<1>. QED BY <1>1, <1>2, MvBusyStays

(* A byte has gone over the bus.                                           *)
MvMovedTo(job, ack, status) ==
  /\ mv_pc \in MvWaits \cup {"reset"} /\ mv_block
  /\ mv_pc # "reset" =>
       /\ ~ MvMsg.nostart /\ mv_inten /\ ~ mv_idle /\ mv_pc # "idle"
       /\ MvOnAddr \/ MvOnAddr2 \/ MvOnTx \/ MvOnRx
  /\ mv_job = job /\ mv_status = "" /\ mv_ours /\ mv_status' = status
  /\ mv_wire' = Append(mv_wire, MvByte(job, ack)) /\ mv_job' = job /\ mv_ours'
  /\ UNCHANGED <<mv_idle, mv_aborting, mv_inten, mv_posn, mv_left, mv_ack, mv_rc, mv_args, mv_i>>
  /\ MvMsg' = MvMsg /\ MvWorld /\ mv_ours' \in BOOLEAN /\ mv_job # <<>>

(* Where the invariant is once the controller has done what it was told    *)
(* to.                                                                     *)
LEMMA MvMoved ==
  ASSUME MvInv, NEW job, NEW ack \in BOOLEAN, NEW status, MvMoves(job, ack, status), job # <<>>
  PROVE  MvMovedTo(job, ack, status)
<1>1. /\ mv_job = job /\ mv_status = "" /\ mv_ours /\ mv_status' = status
      /\ mv_wire' = Append(mv_wire, MvByte(job, ack)) /\ UNCHANGED <<mv_job, mv_ours>> /\ MvWorld
  BY DEF MvMoves, MvWorks
<1>2. mv_pc \in MvWaits \cup {"reset"} /\ mv_block /\ (mv_pc # "reset" => MvBusy /\ mv_pc # "idle")
  BY <1>1, MvToldBusy DEF MvWaits
<1>3. MvBusy => ~ MvMsg.nostart /\ (MvOnAddr \/ MvOnAddr2 \/ MvOnTx \/ MvOnRx) /\ mv_inten /\ ~ mv_idle
  BY <1>1 DEF MvBusy, MvStuck, MvOnStart
<1>4. UNCHANGED <<mv_idle, mv_aborting, mv_inten, mv_posn, mv_left, mv_ack, mv_rc, mv_args, mv_i>>
  BY <1>1 DEF MvWorld, mvData, mvCaller
<1>5. MvMsg' = MvMsg
  BY <1>4 DEF MvMsg
<1>6. mv_ours \in BOOLEAN
  BY DEF MvInv, MvType
<1>7. mv_job # <<>>
  BY <1>1
<1>8. mv_pc # "reset" => /\ ~ MvMsg.nostart /\ mv_inten /\ ~ mv_idle /\ mv_pc # "idle"
                         /\ MvOnAddr \/ MvOnAddr2 \/ MvOnTx \/ MvOnRx
  BY <1>2, <1>3
<1>9. mv_job' = job /\ mv_ours' /\ mv_ours' \in BOOLEAN
  BY <1>1, <1>6
<1>. QED BY <1>1, <1>2, <1>4, <1>5, <1>7, <1>8, <1>9 DEF MvMovedTo

(* The address is out.                                                     *)
LEMMA MvSentAddr ==
  ASSUME MvInv, NEW dir \in BOOLEAN, NEW ack \in BOOLEAN,
         NEW status, MvMoves(<<"addr", dir>>, ack, status),
         status = IF dir THEN (IF ack THEN "rd addr ack" ELSE "rd addr no ack")
                         ELSE (IF ack THEN "wr addr ack" ELSE "wr addr no ack")
  PROVE  MvInv'
<1>. DEFINE job == <<"addr", dir>>
<1>0. job # <<>> /\ job[1] = "addr" /\ job[2] = dir
  OBVIOUS
<1>. HIDE DEF job
<1>0a. MvMoves(job, ack, status)
  BY DEF job
<1>1. /\ mv_pc \in MvWaits \cup {"reset"} /\ mv_block
      /\ mv_pc # "reset" =>
           /\ ~ MvMsg.nostart /\ mv_inten /\ ~ mv_idle /\ mv_pc # "idle"
           /\ MvOnAddr \/ MvOnAddr2 \/ MvOnTx \/ MvOnRx
      /\ mv_job = job /\ mv_status = "" /\ mv_ours /\ mv_status' = status
      /\ mv_wire' = Append(mv_wire, MvByte(job, ack)) /\ mv_job' = job /\ mv_ours'
      /\ UNCHANGED <<mv_idle, mv_aborting, mv_inten, mv_posn, mv_left, mv_ack, mv_rc, mv_args, mv_i>>
      /\ MvMsg' = MvMsg /\ MvWorld /\ mv_ours' \in BOOLEAN
  BY <1>0, <1>0a, MvMoved DEF MvMovedTo
<1>2. ASSUME mv_pc # "reset" PROVE MvBusy'
  <2>1. MvOnAddr /\ dir = MvDir(MvMsg) /\ job = MvAddr(MvMsg)
    BY <1>0, <1>1, <1>2, MvKinds DEF MvOnAddr, MvOnAddr2, MvOnTx, MvOnRx
  <2>2. ASSUME ack = TRUE PROVE MvBus(2)'
    <3>1. MvMsg \in MvMessage /\ Len(MvExpected(MvMsg)) = MvHead(MvMsg) + MvMsg.len + 1
          /\ MvExpected(MvMsg)[2] = MvByte(MvAddr(MvMsg), TRUE)
          /\ MvMsg.len \in Nat /\ MvHead(MvMsg) \in {2, 3}
      BY <1>1, <1>2, MvArgs, MvExpectedIs
    <3>5. MvBus(1)
      BY <1>1, <2>1 DEF MvOnAddr
    <3>6. 2 <= Len(MvExpected(MvMsg))
      <4>1. MvMsg.len \in Nat /\ MvHead(MvMsg) \in {2, 3} /\ Len(MvExpected(MvMsg)) = MvHead(MvMsg) + MvMsg.len + 1
        BY <3>1
      <4>. QED BY ONLY <4>1
    <3>2. MvBus(1) /\ 1 \in Nat /\ 2 \in Nat /\ 2 = 1 + 1 /\ 2 <= Len(MvExpected(MvMsg))
      BY ONLY <3>5, <3>6
    <3>3. UNCHANGED <<mv_rc, mv_args, mv_i>> /\ mv_pc # "idle"
      BY <1>1, <1>2
    <3>4. mv_wire' = Append(mv_wire, MvByte(MvAddr(MvMsg), TRUE))
      BY <1>1, <2>1, <2>2
    <3>. QED BY <3>1, <3>2, <3>3, <3>4, MvBusMore
  <2>3. CASE MvDir(MvMsg)
    <3>1. status = IF ack THEN "rd addr ack" ELSE "rd addr no ack"
      BY <2>1, <2>3
    <3>2. MvOnAddr'
      BY <1>1, <2>1, <2>2, <2>3, <3>1 DEF MvOnAddr
    <3>. QED BY <1>1, <1>2, <3>2 DEF MvBusy
  <2>4. CASE ~ MvDir(MvMsg)
    <3>1. status = IF ack THEN "wr addr ack" ELSE "wr addr no ack"
      BY <2>1, <2>4
    <3>2. MvOnAddr'
      BY <1>1, <2>1, <2>2, <2>4, <3>1 DEF MvOnAddr
    <3>. QED BY <1>1, <1>2, <3>2 DEF MvBusy
  <2>. QED BY <2>3, <2>4
<1>3. mv_job # <<>>
  BY <1>0, <1>1
<1>. QED BY <1>1, <1>2, <1>3, MvBusyStays

(* Its second byte is.                                                     *)
LEMMA MvSentAddr2 ==
  ASSUME MvInv, NEW ack \in BOOLEAN, NEW status, MvMoves(MvAddr2, ack, status),
         status = IF ~ ack THEN "addr2 no ack" ELSE IF MvMsg.rd # MvMsg.rev THEN "rd addr2 ack" ELSE "wr addr2 ack"
  PROVE  MvInv'
<1>1. MvMovedTo(MvAddr2, ack, status)
  BY MvMoved, MvKinds
<1>2. ASSUME mv_pc # "reset" PROVE MvBusy'
  <2>1. MvOnAddr2
    BY <1>1, <1>2, MvKinds DEF MvMovedTo, MvOnAddr, MvOnAddr2, MvOnTx, MvOnRx
  <2>0. UNCHANGED <<mv_rc, mv_args, mv_i>> /\ mv_pc # "idle"
    BY <1>1, <1>2 DEF MvMovedTo
  <2>2. ASSUME ack = TRUE PROVE MvBus(3)'
    <3>1. MvMsg \in MvMessage /\ Len(MvExpected(MvMsg)) = MvHead(MvMsg) + MvMsg.len + 1
          /\ MvExpected(MvMsg)[3] = MvByte(MvAddr2, TRUE) /\ MvMsg.len \in Nat /\ MvHead(MvMsg) = 3
      BY <2>0, <2>1, MvArgs, MvExpectedIs DEF MvOnAddr2, MvHead
    <3>2. 3 <= Len(MvExpected(MvMsg))
      <4>1. MvMsg.len \in Nat /\ MvHead(MvMsg) = 3 /\ Len(MvExpected(MvMsg)) = MvHead(MvMsg) + MvMsg.len + 1
        BY <3>1
      <4>. QED BY ONLY <4>1
    <3>5. MvBus(2)
      BY <1>1, <2>1 DEF MvMovedTo, MvOnAddr2
    <3>3. MvBus(2) /\ 2 \in Nat /\ 3 \in Nat /\ 3 = 2 + 1
      BY ONLY <3>5
    <3>4. mv_wire' = Append(mv_wire, MvByte(MvAddr2, TRUE))
      BY <1>1, <2>2 DEF MvMovedTo
    <3>. QED BY <2>0, <3>1, <3>2, <3>3, <3>4, MvBusMore
  <2>3. CASE MvDir(MvMsg)
    <3>0. MvMsg.rd # MvMsg.rev
      BY <2>3 DEF MvDir
    <3>1. status = IF ack THEN "rd addr2 ack" ELSE "addr2 no ack"
      <4>1. CASE ack = TRUE
        BY <3>0, <4>1, Zenon
      <4>2. CASE ~ ack
        BY <4>2
      <4>. QED BY <4>1, <4>2
    <3>2. MvOnAddr2'
      BY <1>1, <2>1, <2>2, <2>3, <3>1 DEF MvMovedTo, MvOnAddr2
    <3>. QED BY <1>1, <1>2, <3>2 DEF MvBusy, MvMovedTo
  <2>4. CASE ~ MvDir(MvMsg)
    <3>1. status = IF ack THEN "wr addr2 ack" ELSE "addr2 no ack"
      BY <2>4 DEF MvDir
    <3>2. MvOnAddr2'
      BY <1>1, <2>1, <2>2, <2>4, <3>1 DEF MvMovedTo, MvOnAddr2
    <3>. QED BY <1>1, <1>2, <3>2 DEF MvBusy, MvMovedTo
  <2>. QED BY <2>3, <2>4
<1>. QED BY <1>1, <1>2, MvBusyStays DEF MvMovedTo

(* The bytes' places in what is expected.                                  *)
LEMMA MvByteIs ==
  ASSUME MvInv, mv_pc # "idle", MvAllPlain, NEW p \in 1 .. MvMsg.len, NEW l, l = MvHead(MvMsg) + p
  PROVE  /\ ~ MvDir(MvMsg) => MvExpected(MvMsg)[l] = MvByte(MvTx(p - 1), TRUE)
         /\ MvDir(MvMsg) => MvExpected(MvMsg)[l] = MvByte(MvRx, p # MvMsg.len)
BY MvArgs, MvExpectedIs

(* A byte is inside the message.                                           *)
LEMMA MvPlaceIs ==
  ASSUME MvInv, mv_pc # "idle", NEW p \in 0 .. MvMsg.len + 1
  PROVE  /\ MvHead(MvMsg) + p \in Nat /\ MvHead(MvMsg) + p <= Len(MvExpected(MvMsg))
         /\ Len(MvExpected(MvMsg)) = MvHead(MvMsg) + MvMsg.len + 1
<1>1. MvMsg.len \in Nat /\ MvHead(MvMsg) \in {2, 3} /\ Len(MvExpected(MvMsg)) = MvHead(MvMsg) + MvMsg.len + 1
  BY MvArgs, MvExpectedIs
<1>2. p \in 0 .. MvMsg.len + 1
  OBVIOUS
<1>. QED BY ONLY <1>1, <1>2

(* A byte is out.                                                          *)
LEMMA MvSentTx ==
  ASSUME MvInv, NEW p, NEW ack \in BOOLEAN,
         MvMoves(MvTx(p), ack, IF ack THEN "wr ack" ELSE "wr no ack")
  PROVE  MvInv'
<1>. DEFINE status == IF ack THEN "wr ack" ELSE "wr no ack"
<1>1. MvMovedTo(MvTx(p), ack, status)
  BY MvMoved, MvKinds
<1>2. ASSUME mv_pc # "reset" PROVE MvBusy'
  <2>1. MvOnTx /\ p = mv_posn - 1
    <3>1. MvOnTx
      BY <1>1, <1>2, MvKinds DEF MvMovedTo, MvOnAddr, MvOnAddr2, MvOnTx, MvOnRx
    <3>2. MvTx(p) = MvTx(mv_posn - 1)
      BY <1>1, <3>1 DEF MvMovedTo, MvOnTx
    <3>. QED BY <3>1, <3>2 DEF MvTx
  <2>0. UNCHANGED <<mv_rc, mv_args, mv_i>> /\ mv_pc # "idle"
    BY <1>1, <1>2 DEF MvMovedTo
  <2>2. ASSUME ack = TRUE PROVE MvBus(MvHead(MvMsg) + mv_posn)'
    <3>1. mv_posn \in 1 .. MvMsg.len /\ ~ MvDir(MvMsg) /\ MvBus(MvHead(MvMsg) + mv_posn - 1)
      BY <1>1, <2>1 DEF MvMovedTo, MvOnTx
    <3>0. MvMsg.len \in Nat /\ MvHead(MvMsg) \in {2, 3}
      BY <2>0, MvArgs
    <3>9. mv_posn \in 1 .. MvMsg.len
      BY <3>1
    <3>2. MvMsg.len \in Nat /\ MvHead(MvMsg) \in {2, 3} /\ mv_posn \in 0 .. MvMsg.len + 1
      BY ONLY <3>0, <3>9
    <3>3. PICK l \in Nat : l = MvHead(MvMsg) + mv_posn /\ l <= Len(MvExpected(MvMsg))
      BY <2>0, <3>2, MvPlaceIs
    <3>4. PICK j \in Nat : j = MvHead(MvMsg) + mv_posn - 1 /\ l = j + 1
      BY ONLY <3>0, <3>9, <3>3
    <3>5. MvAllPlain => MvByte(MvTx(p), TRUE) = MvExpected(MvMsg)[l]
      BY <2>0, <2>1, <3>1, <3>3, MvByteIs
    <3>6. mv_wire' = Append(mv_wire, MvByte(MvTx(p), TRUE)) /\ MvBus(j)
      BY <1>1, <2>2, <3>1, <3>4 DEF MvMovedTo
    <3>7. MvBus(l)'
      BY <2>0, <3>3, <3>4, <3>5, <3>6, MvBusMore
    <3>8. (MvHead(MvMsg) + mv_posn)' = l
      BY <1>1, <3>3 DEF MvMovedTo
    <3>. QED BY <3>7, <3>8 DEF MvBus
  <2>3. MvOnTx'
    BY <1>1, <2>1, <2>2 DEF MvMovedTo, MvOnTx
  <2>. QED BY <1>1, <1>2, <2>3 DEF MvBusy, MvMovedTo
<1>. QED BY <1>1, <1>2, MvBusyStays DEF MvMovedTo

(* A byte has come in.                                                     *)
LEMMA MvReceivedInv ==
  ASSUME MvInv, MvReceived
  PROVE  MvInv'
<1>. DEFINE status == IF mv_ack THEN "rd data ack" ELSE "rd data no ack"
<1>0. mv_ack \in BOOLEAN /\ MvMoves(MvRx, mv_ack, status)
  BY DEF MvReceived, MvInv, MvType
<1>1. MvMovedTo(MvRx, mv_ack, status)
  <2>. HIDE DEF status
  <2>. QED BY <1>0, MvMoved, MvKinds
<1>2. ASSUME mv_pc # "reset" PROVE MvBusy'
  <2>1. MvOnRx
    BY <1>1, <1>2, MvKinds DEF MvMovedTo, MvOnAddr, MvOnAddr2, MvOnTx, MvOnRx
  <2>0. UNCHANGED <<mv_rc, mv_args, mv_i>> /\ mv_pc # "idle"
    BY <1>1, <1>2 DEF MvMovedTo
  <2>2. MvBus(MvHead(MvMsg) + mv_posn + 1)'
    <3>1. mv_posn \in 0 .. MvMsg.len - 1 /\ MvDir(MvMsg) /\ MvBus(MvHead(MvMsg) + mv_posn)
      BY <1>1, <2>1 DEF MvMovedTo, MvOnRx
    <3>0. MvMsg.len \in Nat /\ MvHead(MvMsg) \in {2, 3}
      BY <2>0, MvArgs
    <3>2. PICK p \in 1 .. MvMsg.len : p = mv_posn + 1 /\ p \in 0 .. MvMsg.len + 1
      BY ONLY <3>1, <3>0
    <3>3. PICK l \in Nat : l = MvHead(MvMsg) + p /\ l <= Len(MvExpected(MvMsg))
      BY <2>0, <3>2, MvPlaceIs
    <3>4. PICK j \in Nat : j = MvHead(MvMsg) + mv_posn /\ l = j + 1
      BY <3>0, <3>1, <3>2, <3>3
    <3>5. mv_rc = 0 /\ MvAllPlain => MvByte(MvRx, mv_ack) = MvExpected(MvMsg)[l]
      <4>. SUFFICES ASSUME mv_rc = 0, MvAllPlain PROVE MvByte(MvRx, mv_ack) = MvExpected(MvMsg)[l]
        OBVIOUS
      <4>1. MvExpected(MvMsg)[l] = MvByte(MvRx, p # MvMsg.len)
        BY <2>0, <3>1, <3>3, MvByteIs
      <4>2. mv_left = MvMsg.len - mv_posn /\ (mv_ack <=> mv_left # 1)
        BY <2>1 DEF MvOnRx, MvInv, MvCalled
      <4>3. mv_ack <=> p # MvMsg.len
        <5>1. mv_left # 1 <=> p # MvMsg.len
          <6>1. mv_left = MvMsg.len - mv_posn
            BY <4>2
          <6>. QED BY ONLY <6>1, <3>0, <3>1, <3>2
        <5>. QED BY <4>2, <5>1
      <4>4. CASE mv_ack = TRUE
        <5>1. (p # MvMsg.len) = TRUE
          BY <4>3, <4>4
        <5>. QED BY <4>1, <4>4, <5>1
      <4>5. CASE mv_ack = FALSE
        <5>1. (p # MvMsg.len) = FALSE
          BY <4>3, <4>5
        <5>. QED BY <4>1, <4>5, <5>1
      <4>. QED BY <1>0, <4>4, <4>5
    <3>6. mv_wire' = Append(mv_wire, MvByte(MvRx, mv_ack)) /\ MvBus(j)
      BY <1>1, <3>1, <3>4 DEF MvMovedTo
    <3>7. MvBus(l)'
      BY <2>0, <3>3, <3>4, <3>5, <3>6, MvBusMore
    <3>8. (MvHead(MvMsg) + mv_posn + 1)' = l
      BY <1>1, <3>0, <3>1, <3>3, <3>4 DEF MvMovedTo
    <3>. QED BY <3>7, <3>8 DEF MvBus
  <2>3. MvOnRx'
    BY <1>0, <1>1, <2>1, <2>2 DEF MvMovedTo, MvOnRx
  <2>. QED BY <1>1, <1>2, <2>3 DEF MvBusy, MvMovedTo
<1>. QED BY <1>1, <1>2, MvBusyStays DEF MvMovedTo

(* The controller's steps.                                                 *)
LEMMA MvControllerInv ==
  ASSUME MvInv, MvController
  PROVE  MvInv'
<1>1. CASE MvSent
  <2>1. PICK ack \in BOOLEAN :
          \/ MvMoves(<<"addr", FALSE>>, ack, IF ack THEN "wr addr ack" ELSE "wr addr no ack")
          \/ MvMoves(<<"addr", TRUE>>, ack, IF ack THEN "rd addr ack" ELSE "rd addr no ack")
          \/ MvMoves(MvAddr2, ack, IF ~ ack THEN "addr2 no ack" ELSE IF MvMsg.rd # MvMsg.rev THEN "rd addr2 ack" ELSE "wr addr2 ack")
          \/ \E p \in 0 .. mv_posn : MvMoves(MvTx(p), ack, IF ack THEN "wr ack" ELSE "wr no ack")
    BY <1>1 DEF MvSent
  <2>2. CASE MvMoves(<<"addr", FALSE>>, ack, IF ack THEN "wr addr ack" ELSE "wr addr no ack")
    BY <2>2, MvSentAddr
  <2>3. CASE MvMoves(<<"addr", TRUE>>, ack, IF ack THEN "rd addr ack" ELSE "rd addr no ack")
    BY <2>3, MvSentAddr
  <2>4. CASE MvMoves(MvAddr2, ack, IF ~ ack THEN "addr2 no ack" ELSE IF MvMsg.rd # MvMsg.rev THEN "rd addr2 ack" ELSE "wr addr2 ack")
    BY <2>4, MvSentAddr2
  <2>5. CASE \E p \in 0 .. mv_posn : MvMoves(MvTx(p), ack, IF ack THEN "wr ack" ELSE "wr no ack")
    BY <2>5, MvSentTx
  <2>. QED BY <2>1, <2>2, <2>3, <2>4, <2>5
<1>. QED BY <1>1, MvGetsBusInv, MvReceivedInv, MvLostInv DEF MvController

-----------------------------------------------------------------------------
(* The handler.                                                            *)

(* It has an interrupt of a message that it is doing.                      *)
MvSaidBusy(statuses) ==
  /\ mv_block /\ mv_pc \in MvWaits /\ mv_pc # "idle" /\ ~ mv_idle /\ mv_inten
  /\ mv_status \in statuses /\ mv_status # "" /\ ~ MvMsg.nostart
  /\ MvOnStart \/ MvOnAddr \/ MvOnAddr2 \/ MvOnTx \/ MvOnRx

(* An interrupt comes only while a message is on.                          *)
LEMMA MvSaysBusy ==
  ASSUME MvInv, NEW statuses, MvSays(statuses)
  PROVE  MvSaidBusy(statuses)
<1>1. mv_status # "" /\ mv_inten /\ ~ mv_idle /\ mv_status \in statuses
  BY DEF MvSays, MvIntr
<1>2. mv_block /\ mv_pc \in MvWaits /\ MvBusy
  BY <1>1, MvToldBusy DEF MvInv, MvCalled
<1>. QED BY <1>1, <1>2 DEF MvBusy, MvStuck, MvWaits, MvSaidBusy

(* What the controller reports is what it has been told to do.             *)
LEMMA MvStatuses ==
  /\ MvOnStart => mv_status \in {"", "start"}
  /\ MvOnAddr => mv_status \in {"", "lost", "rd addr ack", "rd addr no ack", "wr addr ack", "wr addr no ack"}
  /\ MvOnAddr2 => mv_status \in {"", "lost", "addr2 no ack", "rd addr2 ack", "wr addr2 ack"}
  /\ MvOnTx => mv_status \in {"", "lost", "wr ack", "wr no ack"}
  /\ MvOnRx => mv_status \in {"", "lost", "rd data ack", "rd data no ack"}
<1>1. MvOnStart => mv_status \in {"", "start"}
  BY DEF MvOnStart
<1>2. MvOnAddr => mv_status \in {"", "lost", "rd addr ack", "rd addr no ack", "wr addr ack", "wr addr no ack"}
  BY DEF MvOnAddr
<1>3. MvOnAddr2 => mv_status \in {"", "lost", "addr2 no ack", "rd addr2 ack", "wr addr2 ack"}
  BY DEF MvOnAddr2
<1>4. MvOnTx => mv_status \in {"", "lost", "wr ack", "wr no ack"}
  BY DEF MvOnTx
<1>5. MvOnRx => mv_status \in {"", "lost", "rd data ack", "rd data no ack"}
  BY DEF MvOnRx
<1>. QED BY <1>1, <1>2, <1>3, <1>4, <1>5

(* The handler tells the controller the next thing to do.                  *)
LEMMA MvGoInv ==
  ASSUME MvInv, mv_pc \in MvWaits, mv_block, mv_inten, ~ mv_idle, ~ MvMsg.nostart,
         NEW job, MvGoOn(job), mv_posn' \in Nat, mv_ack' \in BOOLEAN, MvBuffer',
         (MvOnAddr \/ MvOnAddr2 \/ MvOnTx \/ MvOnRx)'
  PROVE  MvInv'
<1>1. UNCHANGED <<mv_inten, mv_ours, mv_wire, mv_idle, mv_aborting, mv_block, mv_rc, mv_pc, mv_args, mv_i>>
  BY DEF MvGoOn, mvCaller
<1>2. MvMsg' = MvMsg
  BY <1>1 DEF MvMsg
<1>3. MvType'
  BY <1>1 DEF MvInv, MvType
<1>4. MvBusy'
  BY <1>1, <1>2 DEF MvBusy
<1>. QED BY <1>1, <1>3, <1>4 DEF MvInv, MvCalled, MvWaits

(* The handler ends the message.                                           *)
LEMMA MvEndInv ==
  ASSUME MvInv, mv_pc \in MvWaits \cup {"reset"}, NEW rc \in {0, ENODEV, EIO, ETIMEDOUT}, NEW seen,
         MvEnd(rc, seen), mv_rc # 0 => rc # 0,
         mv_posn' \in Nat, mv_ack' \in BOOLEAN, MvBuffer', MvDone(mv_i)'
  PROVE  MvInv'
<1>1. /\ mv_idle' = TRUE /\ mv_rc' = rc /\ MvQuiet' /\ mv_block' = FALSE
      /\ UNCHANGED <<mv_aborting, mv_pc, mv_args, mv_i>>
      /\ mv_inten' \in BOOLEAN /\ mv_ours' \in BOOLEAN
  BY DEF MvEnd, MvQuiet, mvCaller
<1>2. MvType'
  BY <1>1 DEF MvInv, MvType
<1>. QED BY <1>1, <1>2 DEF MvInv, MvCalled, MvWaits

(* Nothing is stored.                                                      *)
LEMMA MvBufferStays ==
  ASSUME MvInv, mv_pc \in MvWaits \cup {"reset"}, UNCHANGED <<mv_posn, mv_stored, mvCaller>>
  PROVE  MvBuffer' /\ mv_posn' \in Nat
<1>1. UNCHANGED <<mv_posn, mv_stored, mv_pc, mv_args, mv_i>> /\ mv_posn \in Nat
  BY DEF mvCaller, MvInv, MvType
<1>. QED BY <1>1 DEF MvInv, MvBuffer, MvStoredOf, MvMsg

(* The start is out, or the first byte of a long address: the address goes *)
(* on.                                                                     *)
LEMMA MvGoesOn ==
  ASSUME MvInv, MvStarted \/ MvSecond
  PROVE  MvInv'
<1>1. CASE MvStarted
  <2>1. /\ MvSays({"start"}) /\ MvGoOn(MvAddr(MvMsg)) /\ UNCHANGED <<mv_left, mv_posn, mv_ack, mv_stored>>
    BY <1>1 DEF MvStarted
  <2>2. /\ mv_block /\ mv_pc \in MvWaits /\ ~ mv_idle /\ mv_inten /\ mv_status = "start" /\ ~ MvMsg.nostart
        /\ MvOnStart
    <3>1. MvSaidBusy({"start"})
      BY <2>1, MvSaysBusy, Zenon
    <3>. QED BY <3>1, MvStatuses DEF MvSaidBusy
  <2>3. /\ mv_job' = MvAddr(MvMsg) /\ mv_status' = ""
        /\ UNCHANGED <<mv_ours, mv_wire, mv_rc, mv_args, mv_i, mvCaller>>
    BY <2>1 DEF MvGoOn, mvCaller
  <2>4. MvMsg' = MvMsg /\ MvBus(1)'
    BY <2>2, <2>3 DEF MvMsg, MvOnStart, MvBus, MvAllPlain
  <2>5. MvOnAddr'
    BY <2>1, <2>2, <2>3, <2>4 DEF MvOnStart, MvOnAddr
  <2>6. MvBuffer' /\ mv_posn' \in Nat /\ mv_ack' \in BOOLEAN
    BY <2>1, <2>2, <2>3, MvBufferStays DEF MvInv, MvType
  <2>. QED BY <2>1, <2>2, <2>5, <2>6, MvGoInv
<1>2. CASE MvSecond
  <2>1. /\ MvSays({"wr addr ack", "rd addr ack"}) /\ MvMsg.ten /\ MvGoOn(MvAddr2)
        /\ UNCHANGED <<mv_left, mv_posn, mv_ack, mv_stored>>
    BY <1>2 DEF MvSecond
  <2>2. /\ mv_block /\ mv_pc \in MvWaits /\ ~ mv_idle /\ mv_inten /\ ~ MvMsg.nostart
        /\ mv_status \in {"wr addr ack", "rd addr ack"} /\ MvOnAddr
    <3>1. MvSaidBusy({"wr addr ack", "rd addr ack"})
      BY <2>1, MvSaysBusy, Zenon
    <3>. QED BY <3>1, MvStatuses DEF MvSaidBusy
  <2>3. /\ mv_job' = MvAddr2 /\ mv_status' = ""
        /\ UNCHANGED <<mv_ours, mv_wire, mv_rc, mv_args, mv_i, mvCaller>>
    BY <2>1 DEF MvGoOn, mvCaller
  <2>4. MvMsg' = MvMsg /\ MvBus(2)'
    BY <2>2, <2>3 DEF MvMsg, MvOnAddr, MvBus, MvAllPlain
  <2>5. MvOnAddr2'
    BY <2>1, <2>2, <2>3, <2>4 DEF MvOnAddr, MvOnAddr2
  <2>6. MvBuffer' /\ mv_posn' \in Nat /\ mv_ack' \in BOOLEAN
    BY <2>1, <2>2, <2>3, MvBufferStays DEF MvInv, MvType
  <2>. QED BY <2>1, <2>2, <2>5, <2>6, MvGoInv
<1>. QED BY <1>1, <1>2

(* Before a byte: the address, or a byte, has been acknowledged.           *)
LEMMA MvMayWriteFacts ==
  ASSUME MvInv, MvMayWrite
  PROVE  /\ mv_block /\ mv_pc \in MvWaits /\ mv_pc # "idle" /\ ~ mv_idle /\ mv_inten /\ ~ MvMsg.nostart
         /\ ~ MvDir(MvMsg) /\ mv_posn \in 0 .. MvMsg.len /\ mv_left = MvMsg.len - mv_posn /\ mv_ours
         /\ MvBus(MvHead(MvMsg) + mv_posn)
<1>1. CASE MvSays({"wr addr ack"}) /\ ~ MvMsg.ten
  <2>1. /\ mv_block /\ mv_pc \in MvWaits /\ mv_pc # "idle" /\ ~ mv_idle /\ mv_inten /\ ~ MvMsg.nostart
        /\ MvOnAddr /\ mv_status = "wr addr ack"
    <3>1. MvSaidBusy({"wr addr ack"})
      BY <1>1, MvSaysBusy, Zenon
    <3>. QED BY <3>1, MvStatuses DEF MvSaidBusy
  <2>2. /\ ~ MvDir(MvMsg) /\ mv_posn = 0 /\ mv_left = MvMsg.len /\ mv_ours /\ MvBus(2)
    BY <2>1 DEF MvOnAddr
  <2>3. MvHead(MvMsg) + mv_posn = 2 /\ MvMsg.len - mv_posn = MvMsg.len /\ mv_posn \in 0 .. MvMsg.len
    <3>1. MvHead(MvMsg) = 2 /\ MvMsg.len \in Nat
      BY <1>1, <2>1, MvArgs DEF MvHead
    <3>2. mv_posn = 0
      BY <2>2
    <3>. QED BY ONLY <3>1, <3>2
  <2>. QED BY <2>1, <2>2, <2>3
<1>2. CASE MvSays({"wr addr2 ack", "wr ack"})
  <2>1. /\ mv_block /\ mv_pc \in MvWaits /\ mv_pc # "idle" /\ ~ mv_idle /\ mv_inten /\ ~ MvMsg.nostart
        /\ (MvOnAddr2 /\ mv_status = "wr addr2 ack") \/ (MvOnTx /\ mv_status = "wr ack")
    <3>1. MvSaidBusy({"wr addr2 ack", "wr ack"})
      BY <1>2, MvSaysBusy, Zenon
    <3>. QED BY <3>1, MvStatuses DEF MvSaidBusy
  <2>2. CASE MvOnAddr2 /\ mv_status = "wr addr2 ack"
    <3>1. /\ ~ MvDir(MvMsg) /\ mv_posn = 0 /\ mv_left = MvMsg.len /\ mv_ours /\ MvBus(3) /\ MvMsg.ten
      BY <2>2 DEF MvOnAddr2
    <3>2. MvHead(MvMsg) + mv_posn = 3 /\ MvMsg.len - mv_posn = MvMsg.len /\ mv_posn \in 0 .. MvMsg.len
      <4>1. MvHead(MvMsg) = 3 /\ MvMsg.len \in Nat
        BY <2>1, <3>1, MvArgs DEF MvHead
      <4>2. mv_posn = 0
        BY <3>1
      <4>. QED BY ONLY <4>1, <4>2
    <3>. QED BY <2>1, <3>1, <3>2
  <2>3. CASE MvOnTx /\ mv_status = "wr ack"
    <3>1. /\ ~ MvDir(MvMsg) /\ mv_posn \in 1 .. MvMsg.len /\ mv_left = MvMsg.len - mv_posn /\ mv_ours
          /\ MvBus(MvHead(MvMsg) + mv_posn)
      BY <2>3 DEF MvOnTx
    <3>2. mv_posn \in 0 .. MvMsg.len
      <4>1. mv_posn \in 1 .. MvMsg.len /\ MvMsg.len \in Nat
        BY <2>1, <3>1, MvArgs
      <4>. QED BY ONLY <4>1
    <3>. QED BY <2>1, <3>1, <3>2
  <2>. QED BY <2>1, <2>2, <2>3
<1>. QED BY <1>1, <1>2 DEF MvMayWrite

(* When the handler may read a byte, or ask for one.                       *)
LEMMA MvMayReadFacts ==
  ASSUME MvInv, MvMayRead
  PROVE  /\ mv_block /\ mv_pc \in MvWaits /\ mv_pc # "idle" /\ ~ mv_idle /\ mv_inten /\ ~ MvMsg.nostart
         /\ MvDir(MvMsg) /\ mv_posn = 0 /\ mv_left = MvMsg.len /\ mv_ours /\ mv_ack
         /\ MvBus(MvHead(MvMsg) + mv_posn)
<1>1. CASE MvSays({"rd addr ack"}) /\ ~ MvMsg.ten
  <2>1. /\ mv_block /\ mv_pc \in MvWaits /\ mv_pc # "idle" /\ ~ mv_idle /\ mv_inten /\ ~ MvMsg.nostart
        /\ MvOnAddr /\ mv_status = "rd addr ack"
    <3>1. MvSaidBusy({"rd addr ack"})
      BY <1>1, MvSaysBusy, Zenon
    <3>. QED BY <3>1, MvStatuses DEF MvSaidBusy
  <2>2. /\ MvDir(MvMsg) /\ mv_posn = 0 /\ mv_left = MvMsg.len /\ mv_ours /\ mv_ack /\ MvBus(2)
    BY <2>1 DEF MvOnAddr
  <2>3. MvHead(MvMsg) + mv_posn = 2
    <3>1. MvHead(MvMsg) = 2
      BY <1>1 DEF MvHead
    <3>2. mv_posn = 0
      BY <2>2
    <3>. QED BY ONLY <3>1, <3>2
  <2>. QED BY <2>1, <2>2, <2>3
<1>2. CASE MvSays({"rd addr2 ack"})
  <2>1. /\ mv_block /\ mv_pc \in MvWaits /\ mv_pc # "idle" /\ ~ mv_idle /\ mv_inten /\ ~ MvMsg.nostart
        /\ MvOnAddr2 /\ mv_status = "rd addr2 ack"
    <3>1. MvSaidBusy({"rd addr2 ack"})
      BY <1>2, MvSaysBusy, Zenon
    <3>. QED BY <3>1, MvStatuses DEF MvSaidBusy
  <2>2. /\ MvDir(MvMsg) /\ mv_posn = 0 /\ mv_left = MvMsg.len /\ mv_ours /\ mv_ack /\ MvBus(3) /\ MvMsg.ten
    BY <2>1 DEF MvOnAddr2
  <2>3. MvHead(MvMsg) + mv_posn = 3
    <3>1. MvHead(MvMsg) = 3
      BY <2>2 DEF MvHead
    <3>2. mv_posn = 0
      BY <2>2
    <3>. QED BY ONLY <3>1, <3>2
  <2>. QED BY <2>1, <2>2, <2>3
<1>. QED BY <1>1, <1>2 DEF MvMayRead

(* One byte less is left.                                                  *)
LEMMA MvLessIs ==
  ASSUME NEW n \in Nat, n # 0, n < MvWord
  PROVE  MvLess(n) = n - 1
<1>1. n + MvWord - 1 = (n - 1) + MvWord /\ n - 1 \in 0 .. MvWord - 1 /\ MvWord \in Nat \ {0}
  BY MvAssumption
<1>2. ((n - 1) + MvWord) % MvWord = n - 1
  BY <1>1
<1>. QED BY <1>1, <1>2 DEF MvLess

(* The handler writes a byte.                                              *)
LEMMA MvWriteInv ==
  ASSUME MvInv, MvWrite
  PROVE  MvInv'
<1>1. /\ MvMayWrite /\ mv_left # 0 /\ MvGoOn(MvTx(mv_posn))
      /\ mv_left' = MvLess(mv_left) /\ mv_posn' = mv_posn + 1 /\ UNCHANGED <<mv_ack, mv_stored>>
  BY DEF MvWrite
<1>2. /\ mv_block /\ mv_pc \in MvWaits /\ mv_pc # "idle" /\ ~ mv_idle /\ mv_inten /\ ~ MvMsg.nostart
      /\ ~ MvDir(MvMsg) /\ mv_posn \in 0 .. MvMsg.len /\ mv_left = MvMsg.len - mv_posn /\ mv_ours
      /\ MvBus(MvHead(MvMsg) + mv_posn)
  BY <1>1, MvMayWriteFacts
<1>3. MvMsg.len \in Nat /\ MvMsg.len < MvWord /\ MvHead(MvMsg) \in {2, 3}
  BY <1>2, MvArgs
<1>4. mv_left \in Nat /\ mv_left < MvWord /\ mv_left # 0
  BY <1>1, <1>2, <1>3, MvAssumption
<1>5. mv_left' = mv_left - 1
  BY <1>1, <1>4, MvLessIs
<1>6. mv_posn' \in 1 .. MvMsg.len /\ mv_left' = MvMsg.len - mv_posn' /\ mv_posn' - 1 = mv_posn
      /\ MvHead(MvMsg) + mv_posn' - 1 = MvHead(MvMsg) + mv_posn
  <2>1. mv_posn \in 0 .. MvMsg.len /\ mv_left = MvMsg.len - mv_posn /\ mv_posn' = mv_posn + 1
    BY <1>1, <1>2
  <2>. QED BY ONLY <1>3, <1>4, <1>5, <2>1
<1>7. /\ mv_job' = MvTx(mv_posn) /\ mv_status' = ""
      /\ UNCHANGED <<mv_ours, mv_wire, mv_rc, mv_pc, mv_args, mv_i>> /\ MvMsg' = MvMsg
  BY <1>1 DEF MvGoOn, mvCaller, MvMsg
<1>12. PICK j \in Nat : j = MvHead(MvMsg) + mv_posn /\ j = MvHead(MvMsg) + mv_posn' - 1
  <2>1. mv_posn \in 0 .. MvMsg.len /\ mv_posn' - 1 = mv_posn
    BY <1>2, <1>6
  <2>. QED BY ONLY <1>3, <1>6, <2>1
<1>8. MvBus(j)'
  <2>1. MvParts(mv_args)' = MvParts(mv_args) /\ MvAllPlain' = MvAllPlain
    BY <1>7 DEF MvAllPlain
  <2>2. MvBus(j)
    BY <1>2, <1>12
  <2>. QED BY <1>7, <2>1, <2>2 DEF MvBus
<1>9. MvOnTx'
  <2>1. (MvHead(MvMsg) + mv_posn - 1)' = j
    BY <1>7, <1>12
  <2>2. MvBus(MvHead(MvMsg) + mv_posn - 1)'
    BY <1>8, <2>1 DEF MvBus
  <2>. QED BY <1>2, <1>6, <1>7, <2>2 DEF MvOnTx
<1>10. MvBuffer'
  <2>1. MvBuffer /\ UNCHANGED <<mv_stored, mv_args, mv_i, mv_pc>>
    BY <1>1, <1>7 DEF MvInv
  <2>2. ~ (mv_stored # <<>> /\ mv_stored[Len(mv_stored)][1] = mv_i)
    BY <1>2, <2>1 DEF MvBuffer
  <2>3. mv_posn' <= MvMsg'.len
    <3>1. mv_posn' <= MvMsg.len
      BY ONLY <1>3, <1>6
    <3>. QED BY <1>7, <3>1
  <2>4. mv_stored' \in Seq(Nat \X Nat) /\ \A k \in 1 .. Len(mv_stored') : MvStoredOf(k)'
    BY <2>1 DEF MvBuffer, MvStoredOf
  <2>. QED BY <2>1, <2>2, <2>3, <2>4 DEF MvBuffer
<1>11. mv_posn' \in Nat /\ mv_ack' \in BOOLEAN
  BY <1>1, <1>2, <1>3 DEF MvInv, MvType
<1>. QED BY <1>1, <1>2, <1>9, <1>10, <1>11, MvGoInv

(* A message that is over has all been on the bus.                         *)
LEMMA MvWholeMessage ==
  ASSUME MvInv, mv_pc # "idle", mv_rc = 0 => MvBus(MvHead(MvMsg) + MvMsg.len),
         mv_wire' = Append(mv_wire, MvStop), UNCHANGED <<mv_rc, mv_args, mv_i>>
  PROVE  MvDone(mv_i)'
<1>. SUFFICES ASSUME mv_rc' = 0, MvAllPlain'
              PROVE  mv_wire' = Flat(MvParts(mv_args)', mv_i')
  BY DEF MvDone
<1>1. mv_rc = 0 /\ MvAllPlain /\ MvParts(mv_args)' = MvParts(mv_args) /\ mv_i' = mv_i
  BY DEF MvAllPlain
<1>2. /\ mv_args \in Seq(MvMessage) /\ mv_i \in 1 .. Len(mv_args) /\ MvMsg = mv_args[mv_i]
      /\ MvMsg \in MvMessage /\ MvMsg.len \in Nat /\ MvHead(MvMsg) \in {2, 3}
  BY MvArgs
<1>3. PICK j \in Nat : j = MvHead(MvMsg) + MvMsg.len
  BY <1>2
<1>4. PICK l \in Nat : l = j + 1 /\ l = Len(MvExpected(MvMsg)) /\ MvExpected(MvMsg)[l] = MvStop
  <2>1. Len(MvExpected(MvMsg)) = j + 1 /\ MvExpected(MvMsg)[j + 1] = MvStop
    BY <1>2, <1>3, MvExpectedIs
  <2>2. PICK l \in Nat : l = j + 1
    BY <1>3
  <2>. QED BY <2>1, <2>2
<1>5. MvBus(j)
  BY <1>1, <1>3
<1>6. l <= Len(MvExpected(MvMsg))
  BY ONLY <1>4
<1>7. MvBus(l)'
  BY <1>3, <1>4, <1>5, <1>6, MvBusMore
<1>8. mv_wire' = SoFar(MvParts(mv_args), mv_i, l)
  BY <1>1, <1>7 DEF MvBus
<1>9. SoFar(MvParts(mv_args), mv_i, l) = Flat(MvParts(mv_args), mv_i)
  BY <1>2, <1>4, MvEnds
<1>. QED BY <1>1, <1>8, <1>9

(* The interrupt's end of a message that nothing was wrong with.           *)
LEMMA MvEndsWell ==
  ASSUME MvInv, mv_pc \in MvWaits, mv_pc # "idle", MvEnd(mv_rc, MvStop),
         mv_rc = 0 => MvBus(MvHead(MvMsg) + MvMsg.len),
         mv_posn' \in Nat, mv_ack' \in BOOLEAN, MvBuffer'
  PROVE  MvInv'
<1>1. mv_wire' = Append(mv_wire, MvStop) /\ UNCHANGED <<mv_rc, mv_args, mv_i>>
  BY DEF MvEnd, mvCaller
<1>2. MvDone(mv_i)'
  BY <1>1, MvWholeMessage
<1>3. mv_rc \in {0, ENODEV, EIO, ETIMEDOUT}
  BY DEF MvInv, MvType
<1>. QED BY <1>2, <1>3, MvEndInv

(* All bytes are written.                                                  *)
LEMMA MvWrittenInv ==
  ASSUME MvInv, MvWritten
  PROVE  MvInv'
<1>1. /\ MvMayWrite /\ (mv_left = 0 \/ mv_aborting) /\ MvEnd(mv_rc, MvStop)
      /\ UNCHANGED <<mv_left, mv_posn, mv_ack, mv_stored>>
  BY DEF MvWritten
<1>2. /\ mv_pc \in MvWaits /\ mv_pc # "idle"
      /\ mv_posn \in 0 .. MvMsg.len /\ mv_left = MvMsg.len - mv_posn /\ MvBus(MvHead(MvMsg) + mv_posn)
  BY <1>1, MvMayWriteFacts
<1>3. ASSUME mv_rc = 0 PROVE MvBus(MvHead(MvMsg) + MvMsg.len)
  <2>1. mv_left = 0
    BY <1>1, <1>3 DEF MvInv, MvCalled
  <2>2. MvMsg.len \in Nat
    BY <1>2, MvArgs
  <2>3. mv_posn = MvMsg.len
    <3>1. mv_posn \in 0 .. MvMsg.len /\ mv_left = MvMsg.len - mv_posn
      BY <1>2
    <3>. QED BY ONLY <2>1, <2>2, <3>1
  <2>. QED BY <1>2, <2>3
<1>4. MvBuffer' /\ mv_posn' \in Nat /\ mv_ack' \in BOOLEAN
  <2>1. UNCHANGED mvCaller
    BY <1>1 DEF MvEnd
  <2>. QED BY <1>1, <1>2, <2>1, MvBufferStays DEF MvInv, MvType
<1>. QED BY <1>1, <1>2, <1>3, <1>4, MvEndsWell

(* There is nothing to read.                                               *)
LEMMA MvReadNoneInv ==
  ASSUME MvInv, MvReadNone
  PROVE  MvInv'
<1>1. /\ MvMayRead /\ mv_left = 0 /\ MvEnd(mv_rc, MvStop)
      /\ UNCHANGED <<mv_left, mv_posn, mv_ack, mv_stored>>
  BY DEF MvReadNone
<1>2. mv_pc \in MvWaits /\ mv_pc # "idle" /\ MvBus(MvHead(MvMsg) + MvMsg.len)
  <2>1. /\ mv_pc \in MvWaits /\ mv_pc # "idle" /\ mv_posn = 0 /\ mv_left = MvMsg.len
        /\ MvBus(MvHead(MvMsg) + mv_posn)
    BY <1>1, MvMayReadFacts
  <2>2. mv_posn = MvMsg.len
    BY <1>1, <2>1
  <2>. QED BY <2>1, <2>2
<1>4. MvBuffer' /\ mv_posn' \in Nat /\ mv_ack' \in BOOLEAN
  <2>1. UNCHANGED mvCaller
    BY <1>1 DEF MvEnd
  <2>. QED BY <1>1, <1>2, <2>1, MvBufferStays DEF MvInv, MvType
<1>. QED BY <1>1, <1>2, <1>4, MvEndsWell

(* The handler asks for the first byte.                                    *)
LEMMA MvReadFirstInv ==
  ASSUME MvInv, MvReadFirst
  PROVE  MvInv'
<1>1. /\ MvMayRead /\ mv_left # 0 /\ MvGoOn(MvRx) /\ mv_ack' = MvAckNext(mv_left)
      /\ UNCHANGED <<mv_left, mv_posn, mv_stored>>
  BY DEF MvReadFirst
<1>2. /\ mv_block /\ mv_pc \in MvWaits /\ mv_pc # "idle" /\ ~ mv_idle /\ mv_inten /\ ~ MvMsg.nostart
      /\ MvDir(MvMsg) /\ mv_posn = 0 /\ mv_left = MvMsg.len /\ mv_ours /\ mv_ack
      /\ MvBus(MvHead(MvMsg) + mv_posn)
  BY <1>1, MvMayReadFacts
<1>3. MvMsg.len \in Nat
  BY <1>2, MvArgs
<1>4. mv_posn \in 0 .. MvMsg.len - 1 /\ mv_left = MvMsg.len - mv_posn
  <2>1. mv_posn = 0 /\ mv_left = MvMsg.len /\ mv_left # 0
    BY <1>1, <1>2
  <2>. QED BY ONLY <1>3, <2>1
<1>5. /\ mv_job' = MvRx /\ mv_status' = "" /\ MvMsg' = MvMsg
      /\ UNCHANGED <<mv_ours, mv_wire, mv_rc, mv_aborting, mv_pc, mv_args, mv_i, mvCaller>>
  BY <1>1 DEF MvGoOn, mvCaller, MvMsg
<1>6. MvBus(MvHead(MvMsg) + mv_posn)'
  BY <1>1, <1>2, <1>5 DEF MvBus, MvAllPlain
<1>7. mv_ack' \in BOOLEAN /\ (IF mv_ack' THEN mv_left' # 1 ELSE mv_left' = 1 \/ mv_aborting')
  BY <1>1, <1>2, <1>5 DEF MvAckNext, MvInv, MvType
<1>8. MvOnRx'
  BY <1>1, <1>2, <1>4, <1>5, <1>6, <1>7 DEF MvOnRx
<1>9. MvBuffer' /\ mv_posn' \in Nat
  BY <1>1, <1>2, <1>5, MvBufferStays
<1>. QED BY <1>1, <1>2, <1>7, <1>8, <1>9, MvGoInv

(* A byte is stored, in its place.                                         *)
LEMMA MvStoreBuffer ==
  ASSUME MvInv, mv_pc \in MvWaits, MvDir(MvMsg), mv_posn \in 0 .. MvMsg.len - 1, MvStore, UNCHANGED mvCaller
  PROVE  MvBuffer' /\ mv_posn' \in Nat
<1>. DEFINE n == Len(mv_stored)
            e == <<mv_i, mv_posn>>
<1>0. mv_pc # "idle" /\ mv_pc # "execute" /\ UNCHANGED <<mv_pc, mv_args, mv_i>> /\ MvMsg' = MvMsg
  BY DEF MvWaits, mvCaller, MvMsg
<1>1. mv_stored' = Append(mv_stored, e) /\ mv_posn' = mv_posn + 1 /\ mv_posn \in Nat
  BY DEF MvStore, MvInv, MvType
<1>2. MvMsg = mv_args[mv_i] /\ mv_i \in Nat \ {0} /\ MvMsg.len \in Nat
  BY <1>0, MvArgs, LenProperties
<1>3. mv_stored \in Seq(Nat \X Nat) /\ n \in Nat
  BY LenProperties DEF MvInv, MvBuffer
<1>4. e \in Nat \X Nat /\ e[1] = mv_i /\ e[2] = mv_posn
  BY <1>1, <1>2
<1>. HIDE DEF e
<1>5. /\ mv_stored' \in Seq(Nat \X Nat) /\ Len(mv_stored') = n + 1 /\ mv_stored'[n + 1] = e
      /\ \A k \in 1 .. n : mv_stored'[k] = mv_stored[k]
  BY <1>1, <1>3, <1>4, AppendProperties
<1>6. ASSUME NEW k \in 1 .. Len(mv_stored') PROVE MvStoredOf(k)'
  <2>1. CASE k \in 1 .. n
    <3>1. MvStoredOf(k)
      BY <2>1 DEF MvInv, MvBuffer
    <3>2. k > 1 => k - 1 \in 1 .. n
      BY <1>3, <2>1
    <3>3. mv_stored'[k] = mv_stored[k] /\ (k > 1 => mv_stored'[k - 1] = mv_stored[k - 1])
      BY <1>5, <2>1, <3>2
    <3>. QED BY <1>0, <3>1, <3>3 DEF MvStoredOf
  <2>2. CASE k = n + 1
    <3>1. mv_stored'[k] = e
      BY <1>5, <2>2
    <3>2. mv_stored'[k][1] \in 1 .. mv_i' /\ mv_stored'[k][2] \in 0 .. mv_args'[mv_stored'[k][1]].len - 1
      BY <1>0, <1>2, <1>4, <3>1
    <3>3. ASSUME k > 1, mv_stored'[k][1] = mv_stored'[k - 1][1]
          PROVE  mv_stored'[k][2] = mv_stored'[k - 1][2] + 1
      <4>1. n \in 1 .. n /\ k - 1 = n
        BY <1>3, <2>2, <3>3
      <4>2. mv_stored'[k - 1] = mv_stored[n] /\ mv_stored # <<>>
        BY <1>3, <1>5, <4>1, EmptySeq
      <4>3. mv_stored[n][1] = mv_i
        BY <1>4, <3>1, <3>3, <4>2
      <4>4. mv_stored[n][2] = mv_posn - 1
        BY <4>2, <4>3 DEF MvInv, MvBuffer
      <4>. QED BY <1>1, <1>4, <3>1, <4>2, <4>4
    <3>. QED BY <3>2, <3>3 DEF MvStoredOf
  <2>. QED BY <1>3, <1>5, <2>1, <2>2
<1>7. mv_stored'[Len(mv_stored')][2] = mv_posn' - 1
  BY <1>1, <1>4, <1>5
<1>8. mv_posn' <= MvMsg'.len /\ mv_posn' \in Nat
  BY <1>0, <1>1, <1>2
<1>. QED BY <1>0, <1>5, <1>6, <1>7, <1>8 DEF MvBuffer

(* It takes a byte, and asks for the next or ends.                         *)
LEMMA MvReadInv ==
  ASSUME MvInv, MvRead \/ MvReadLast
  PROVE  MvInv'
<1>1. CASE MvRead
  <2>1. /\ MvSays({"rd data ack"}) /\ MvGoOn(MvRx) /\ MvStore
        /\ mv_left' = MvLess(mv_left) /\ mv_ack' = MvAckNext(MvLess(mv_left))
    BY <1>1 DEF MvRead
  <2>2. /\ mv_block /\ mv_pc \in MvWaits /\ mv_pc # "idle" /\ ~ mv_idle /\ mv_inten /\ ~ MvMsg.nostart
        /\ MvOnRx /\ mv_status = "rd data ack"
    <3>1. MvSaidBusy({"rd data ack"})
      BY <2>1, MvSaysBusy, Zenon
    <3>. QED BY <3>1, MvStatuses DEF MvSaidBusy
  <2>3. /\ mv_posn \in 0 .. MvMsg.len - 1 /\ mv_left = MvMsg.len - mv_posn /\ MvDir(MvMsg) /\ mv_ack
        /\ mv_left # 1 /\ mv_ours /\ MvBus(MvHead(MvMsg) + mv_posn + 1)
    BY <2>2 DEF MvOnRx
  <2>4. MvMsg.len \in Nat /\ MvMsg.len < MvWord /\ MvHead(MvMsg) \in {2, 3}
    BY <2>2, MvArgs
  <2>5. mv_left \in Nat /\ mv_left < MvWord /\ mv_left # 0 /\ mv_left >= 2
    <3>1. mv_posn \in 0 .. MvMsg.len - 1 /\ mv_left = MvMsg.len - mv_posn /\ mv_left # 1 /\ MvWord \in Nat
      BY <2>3, MvAssumption
    <3>. QED BY ONLY <2>4, <3>1
  <2>6. mv_left' = mv_left - 1 /\ mv_posn' = mv_posn + 1
    BY <2>1, <2>5, MvLessIs DEF MvStore
  <2>7. /\ mv_posn' \in 0 .. MvMsg.len - 1 /\ mv_left' = MvMsg.len - mv_posn'
        /\ MvHead(MvMsg) + mv_posn' = MvHead(MvMsg) + mv_posn + 1
    <3>1. mv_posn \in 0 .. MvMsg.len - 1 /\ mv_left = MvMsg.len - mv_posn /\ mv_left >= 2
      BY <2>3, <2>5
    <3>. QED BY ONLY <2>4, <2>6, <3>1
  <2>8. /\ mv_job' = MvRx /\ mv_status' = "" /\ MvMsg' = MvMsg
        /\ UNCHANGED <<mv_ours, mv_wire, mv_rc, mv_aborting, mv_pc, mv_args, mv_i, mvCaller>>
    BY <2>1 DEF MvGoOn, mvCaller, MvMsg
  <2>9. MvBus(MvHead(MvMsg) + mv_posn)'
    <3>1. MvBus(MvHead(MvMsg) + mv_posn')
      BY <2>3, <2>7
    <3>. QED BY <2>8, <3>1 DEF MvBus, MvAllPlain
  <2>10. mv_ack' \in BOOLEAN /\ (IF mv_ack' THEN mv_left' # 1 ELSE mv_left' = 1 \/ mv_aborting')
    BY <2>1, <2>3, <2>8 DEF MvAckNext, MvInv, MvType
  <2>11. MvOnRx'
    BY <2>3, <2>7, <2>8, <2>9, <2>10 DEF MvOnRx
  <2>12. MvBuffer' /\ mv_posn' \in Nat
    BY <2>1, <2>2, <2>3, <2>8, MvStoreBuffer
  <2>. QED BY <2>1, <2>2, <2>10, <2>11, <2>12, MvGoInv
<1>2. CASE MvReadLast
  <2>1. MvSays({"rd data no ack"}) /\ MvEnd(mv_rc, MvStop) /\ MvStore /\ UNCHANGED <<mv_left, mv_ack>>
    BY <1>2 DEF MvReadLast
  <2>2. mv_pc \in MvWaits /\ mv_pc # "idle" /\ MvOnRx /\ mv_status = "rd data no ack"
    <3>1. MvSaidBusy({"rd data no ack"})
      BY <2>1, MvSaysBusy, Zenon
    <3>. QED BY <3>1, MvStatuses DEF MvSaidBusy
  <2>3. /\ mv_posn \in 0 .. MvMsg.len - 1 /\ mv_left = MvMsg.len - mv_posn /\ MvDir(MvMsg)
        /\ mv_left = 1 \/ mv_aborting
        /\ MvBus(MvHead(MvMsg) + mv_posn + 1)
    BY <2>2 DEF MvOnRx
  <2>4. ASSUME mv_rc = 0 PROVE MvBus(MvHead(MvMsg) + MvMsg.len)
    <3>1. mv_left = 1
      BY <2>3, <2>4 DEF MvInv, MvCalled
    <3>2. mv_posn \in 0 .. MvMsg.len - 1 /\ mv_left = MvMsg.len - mv_posn /\ MvMsg.len \in Nat /\ MvHead(MvMsg) \in {2, 3}
      BY <2>2, <2>3, MvArgs
    <3>3. MvHead(MvMsg) + mv_posn + 1 = MvHead(MvMsg) + MvMsg.len
      BY ONLY <3>1, <3>2
    <3>. QED BY <2>3, <3>3
  <2>5. MvBuffer' /\ mv_posn' \in Nat /\ mv_ack' \in BOOLEAN
    <3>1. UNCHANGED mvCaller
      BY <2>1 DEF MvEnd
    <3>. QED BY <2>1, <2>2, <2>3, <3>1, MvStoreBuffer DEF MvInv, MvType
  <2>. QED BY <2>1, <2>2, <2>4, <2>5, MvEndsWell
<1>. QED BY <1>1, <1>2

(* Every run of the handler.                                               *)
LEMMA MvHandlerInv ==
  ASSUME MvInv, MvHandler
  PROVE  MvInv'
<1>1. ASSUME NEW rc \in {ENODEV, EIO}, NEW seen, mv_pc \in MvWaits, MvEnd(rc, seen),
             UNCHANGED <<mv_left, mv_posn, mv_ack, mv_stored>>
      PROVE  MvInv'
  <2>0. rc # 0
    BY <1>1 DEF ENODEV, EIO
  <2>1. UNCHANGED mvCaller /\ mv_rc' = rc /\ rc # 0
    BY <1>1, <2>0 DEF MvEnd
  <2>2. MvBuffer' /\ mv_posn' \in Nat /\ mv_ack' \in BOOLEAN /\ MvDone(mv_i)'
    BY <1>1, <2>1, MvBufferStays DEF MvInv, MvType, MvDone
  <2>. QED BY <1>1, <2>1, <2>2, MvEndInv
<1>2. CASE MvRemnant
  <2>1. /\ mv_inten /\ mv_idle /\ MvEnd(mv_rc, MvStop) /\ UNCHANGED <<mv_left, mv_posn, mv_ack, mv_stored>>
    BY <1>2 DEF MvRemnant, MvIntr
  <2>2. mv_pc = "reset" /\ mv_rc # 0
    BY <2>1, MvToldBusy DEF MvBusy, MvInv, MvCalled
  <2>3. UNCHANGED mvCaller /\ mv_rc' = mv_rc /\ mv_rc \in {0, ENODEV, EIO, ETIMEDOUT}
    BY <2>1 DEF MvEnd, MvInv, MvType
  <2>4. MvBuffer' /\ mv_posn' \in Nat /\ mv_ack' \in BOOLEAN /\ MvDone(mv_i)'
    BY <2>1, <2>2, <2>3, MvBufferStays DEF MvInv, MvType, MvDone
  <2>. QED BY <2>1, <2>2, <2>3, <2>4, MvEndInv
<1>3. CASE MvRefused
  <2>1. /\ MvSays({"wr addr no ack", "wr no ack", "rd addr no ack"}) /\ MvEnd(ENODEV, MvStop)
        /\ UNCHANGED <<mv_left, mv_posn, mv_ack, mv_stored>>
    BY <1>3 DEF MvRefused
  <2>2. MvSaidBusy({"wr addr no ack", "wr no ack", "rd addr no ack"})
    BY <2>1, MvSaysBusy, Zenon
  <2>. QED BY <1>1, <2>1, <2>2 DEF MvSaidBusy
<1>4. CASE MvError
  <2>1. /\ MvSays({"lost", "addr2 no ack"}) /\ MvEnd(EIO, MvReset)
        /\ UNCHANGED <<mv_left, mv_posn, mv_ack, mv_stored>>
    BY <1>4 DEF MvError
  <2>2. MvSaidBusy({"lost", "addr2 no ack"})
    BY <2>1, MvSaysBusy, Zenon
  <2>. QED BY <1>1, <2>1, <2>2 DEF MvSaidBusy
<1>. QED BY <1>2, <1>3, <1>4, MvGoesOn, MvWriteInv, MvWrittenInv, MvReadFirstInv, MvReadNoneInv, MvReadInv
         DEF MvHandler

-----------------------------------------------------------------------------
(* The process.                                                            *)
LEMMA MvExecuteInv ==
  ASSUME MvInv, MvExecute
  PROVE  MvInv'
<1>1. /\ mv_pc = "execute" /\ mv_aborting' = FALSE /\ mv_rc' = 0 /\ mv_ack' = TRUE
      /\ mv_idle' = FALSE /\ mv_block' = TRUE /\ mv_inten' = TRUE /\ mv_status' = ""
      /\ IF MvMsg.nostart /\ ~ MvMsg.rd
           THEN mv_job' = MvTx(0) /\ mv_posn' = 1
           ELSE /\ mv_job' = IF MvMsg.nostart THEN MvRx ELSE MvStart
                /\ mv_posn' = 0 /\ mv_left' = MvMsg.len
      /\ mv_pc' = "wait"
      /\ UNCHANGED <<mv_ours, mvRecord, mv_args, mv_i, mv_xfers>>
  BY DEF MvExecute
<1>2. /\ mv_args \in Seq(MvMessage) /\ mv_i \in 1 .. Len(mv_args) /\ MvMsg = mv_args[mv_i]
      /\ MvMsg.len \in Nat /\ MvMsg.nostart \in BOOLEAN /\ MvMsg.rd \in BOOLEAN
  BY <1>1, MvArgs
<1>3. /\ ~ mv_ours /\ (MvAllPlain => mv_wire = Flat(MvParts(mv_args), mv_i - 1))
      /\ mv_args \in MvTransfers
  BY <1>1 DEF MvInv, MvCalled, MvQuiet
<1>4. /\ MvMsg' = MvMsg /\ UNCHANGED <<mv_wire, mv_stored, mv_args, mv_i>> /\ ~ mv_ours'
      /\ (MvAllPlain)' = MvAllPlain
  BY <1>1, <1>3 DEF mvRecord, MvMsg, MvAllPlain
<1>5. mv_posn' \in {0, 1} /\ (mv_posn' = 1 => MvMsg.nostart)
  <2>1. CASE MvMsg.nostart /\ ~ MvMsg.rd
    <3>1. mv_posn' = 1
      BY <1>1, <2>1
    <3>. QED BY <2>1, <3>1
  <2>2. CASE ~ (MvMsg.nostart /\ ~ MvMsg.rd)
    <3>1. mv_posn' = 0
      BY <1>1, <2>2
    <3>. QED BY <3>1
  <2>. QED BY <2>1, <2>2
<1>6. MvType'
  <2>1. mv_posn' \in Nat
    BY <1>5
  <2>2. mv_ours \in BOOLEAN /\ mv_ours' = mv_ours
    BY <1>1 DEF MvInv, MvType
  <2>3. /\ mv_pc' = "wait" /\ mv_block' \in BOOLEAN /\ mv_idle' \in BOOLEAN /\ mv_aborting' \in BOOLEAN
        /\ mv_ack' \in BOOLEAN /\ mv_inten' \in BOOLEAN /\ mv_rc' = 0
    BY <1>1
  <2>. QED BY <2>1, <2>2, <2>3 DEF MvType
<1>7. MvBusy'
  <2>1. CASE MvMsg.nostart
    BY <1>1, <1>4, <2>1 DEF MvBusy, MvStuck
  <2>2. CASE ~ MvMsg.nostart
    <3>1. mv_job' = MvStart /\ mv_posn' = 0 /\ mv_left' = MvMsg.len
      BY <1>1, <2>2
    <3>2. SoFar(MvParts(mv_args), mv_i, 0) = Flat(MvParts(mv_args), mv_i - 1)
      BY <1>2, MvEnds
    <3>3. MvBus(0)'
      BY <1>3, <1>4, <3>2 DEF MvBus
    <3>4. MvOnStart'
      BY <1>1, <1>4, <3>1, <3>3 DEF MvOnStart
    <3>. QED BY <1>1, <1>4, <2>2, <3>4 DEF MvBusy
  <2>. QED BY <2>1, <2>2
<1>8. MvBuffer'
  <2>1. MvBuffer /\ ~ (mv_stored # <<>> /\ mv_stored[Len(mv_stored)][1] = mv_i)
    BY <1>1 DEF MvInv, MvBuffer
  <2>2. (MvMsg.nostart => MvMsg.len # 0) => mv_posn' <= MvMsg.len
    BY <1>2, <1>5
  <2>3. mv_stored' \in Seq(Nat \X Nat) /\ \A k \in 1 .. Len(mv_stored') : MvStoredOf(k)'
    BY <1>4, <2>1 DEF MvBuffer, MvStoredOf
  <2>. QED BY <1>4, <2>1, <2>2, <2>3 DEF MvBuffer
<1>9. MvCalled'
  <2>1. mv_pc' = "wait" /\ mv_block' /\ mv_args' \in MvTransfers /\ mv_i' \in 1 .. Len(mv_args') /\ ~ mv_aborting'
    BY <1>1, <1>2, <1>3, <1>4
  <2>. QED BY <1>7, <2>1 DEF MvCalled
<1>. QED BY <1>6, <1>8, <1>9 DEF MvInv

(* The controller's work goes on.                                          *)
LEMMA MvBusyKeeps ==
  ASSUME MvInv, MvBusy, mv_aborting => mv_aborting', mv_rc' = mv_rc \/ mv_rc' # 0,
         UNCHANGED <<mv_job, mv_posn, mv_left, mv_ack, mv_status, mv_ours, mv_inten, mv_idle, mv_wire,
                     mv_args, mv_i>>
  PROVE  MvBusy'
<1>1. /\ mv_job' = mv_job /\ mv_posn' = mv_posn /\ mv_left' = mv_left /\ (mv_ack' <=> mv_ack) /\ mv_status' = mv_status
      /\ (mv_ours' <=> mv_ours) /\ (mv_inten' <=> mv_inten) /\ (mv_idle' <=> mv_idle) /\ mv_wire' = mv_wire /\ mv_args' = mv_args
      /\ mv_i' = mv_i /\ MvMsg' = MvMsg /\ (mv_aborting => mv_aborting')
  BY DEF MvMsg, MvInv, MvType
<1>2. ASSUME NEW j PROVE MvBus(j) => MvBusNext(j)
  BY <1>1 DEF MvBus, MvBusNext, MvAllPlain
<1>3. MvOnStart => MvOnStart'
  <2>1. MvBus(IF mv_status = "" THEN 0 ELSE 1) => MvBus(IF mv_status = "" THEN 0 ELSE 1)'
    BY <1>1, <1>2 DEF MvBus, MvBusNext
  <2>2. MvOnStart => MvOnStart'
    BY <1>1, <2>1 DEF MvOnStart, MvBus
  <2>. QED BY <2>2
<1>4. MvOnAddr => MvOnAddr'
  <2>1. MvBus(1) => MvBus(1)'
    BY <1>1, <1>2 DEF MvBus, MvBusNext
  <2>2. MvBus(2) => MvBus(2)'
    BY <1>1, <1>2 DEF MvBus, MvBusNext
  <2>3. MvOnAddr => MvOnAddr'
    BY <1>1, <2>1, <2>2 DEF MvOnAddr, MvBus
  <2>. QED BY <2>3
<1>5. MvOnAddr2 => MvOnAddr2'
  <2>1. MvBus(2) => MvBus(2)'
    BY <1>1, <1>2 DEF MvBus, MvBusNext
  <2>2. MvBus(3) => MvBus(3)'
    BY <1>1, <1>2 DEF MvBus, MvBusNext
  <2>3. MvOnAddr2 => MvOnAddr2'
    BY <1>1, <2>1, <2>2 DEF MvOnAddr2, MvBus
  <2>. QED BY <2>3
<1>6. MvOnTx => MvOnTx'
  <2>1. MvBus(MvHead(MvMsg) + mv_posn - 1) => MvBus(MvHead(MvMsg) + mv_posn - 1)'
    BY <1>1, <1>2 DEF MvBus, MvBusNext
  <2>2. MvBus(MvHead(MvMsg) + mv_posn) => MvBus(MvHead(MvMsg) + mv_posn)'
    BY <1>1, <1>2 DEF MvBus, MvBusNext
  <2>3. MvOnTx => MvOnTx'
    BY <1>1, <2>1, <2>2 DEF MvOnTx, MvBus
  <2>. QED BY <2>3
<1>7. MvOnRx => MvOnRx'
  <2>1. MvBus(MvHead(MvMsg) + mv_posn) => MvBus(MvHead(MvMsg) + mv_posn)'
    BY <1>1, <1>2 DEF MvBus, MvBusNext
  <2>2. MvBus(MvHead(MvMsg) + mv_posn + 1) => MvBus(MvHead(MvMsg) + mv_posn + 1)'
    BY <1>1, <1>2 DEF MvBus, MvBusNext
  <2>3. MvOnRx => MvOnRx'
    BY <1>1, <2>1, <2>2 DEF MvOnRx, MvBus
  <2>. QED BY <2>3
<1>8. MvMsg'.nostart = MvMsg.nostart /\ (MvStuck => MvStuck') /\ mv_inten' /\ ~ mv_idle'
  <2>1. mv_inten /\ ~ mv_idle
    BY DEF MvBusy
  <2>2. MvStuck => MvStuck'
    BY <1>1 DEF MvStuck
  <2>. QED BY <1>1, <2>1, <2>2
<1>9. CASE MvMsg.nostart
  BY <1>8, <1>9 DEF MvBusy
<1>10. CASE ~ MvMsg.nostart
  <2>1. MvOnStart \/ MvOnAddr \/ MvOnAddr2 \/ MvOnTx \/ MvOnRx
    BY <1>10 DEF MvBusy
  <2>2. MvOnStart' \/ MvOnAddr' \/ MvOnAddr2' \/ MvOnTx' \/ MvOnRx'
    BY <2>1, <1>3, <1>4, <1>5, <1>6, <1>7, Zenon
  <2>. QED BY <1>8, <1>10, <2>2 DEF MvBusy
<1>. QED BY <1>9, <1>10

(* The process moves, the handler's data and the controller stay.          *)
LEMMA MvGoesTo ==
  ASSUME MvInv, mv_pc \in MvWaits, mv_pc' \in {"late", "abort", "locked", "executed", "reset"},
         UNCHANGED <<mv_left, mv_posn, mv_block, mv_ack, mvUnit, mvRecord, mv_args, mv_i>>,
         mv_aborting' \in BOOLEAN, mv_rc' \in {0, ENODEV, EIO, ETIMEDOUT}, mv_idle' \in BOOLEAN,
         mv_pc' # "reset" => mv_idle' = mv_idle, mv_pc' = "reset" => mv_idle',
         mv_pc' = "executed" => ~ mv_block,
         mv_rc' = mv_rc \/ mv_rc' # 0,
         mv_aborting' \/ mv_pc' \in {"abort", "locked", "reset"} => mv_rc' # 0,
         mv_aborting => mv_aborting'
  PROVE  MvInv'
<1>1. UNCHANGED <<mv_left, mv_posn, mv_block, mv_ack, mv_inten, mv_job, mv_status, mv_ours, mv_wire, mv_stored,
                  mv_args, mv_i>> /\ MvMsg' = MvMsg /\ MvAllPlain' = MvAllPlain
  BY DEF mvUnit, mvRecord, MvMsg, MvAllPlain
<1>2. MvType'
  BY <1>1 DEF MvInv, MvType
<1>3. MvBuffer'
  BY <1>1 DEF MvInv, MvBuffer, MvStoredOf, MvWaits
<1>4. MvQuiet => MvQuiet'
  BY <1>1 DEF MvQuiet
<1>5. MvDone(mv_i) => MvDone(mv_i)'
  BY <1>1 DEF MvDone
<1>6. MvBusy /\ mv_idle' = mv_idle => MvBusy'
  <2>. SUFFICES ASSUME MvBusy, mv_idle' = mv_idle PROVE MvBusy'
    OBVIOUS
  <2>1. UNCHANGED <<mv_job, mv_posn, mv_left, mv_ack, mv_status, mv_ours, mv_inten, mv_idle, mv_wire,
                    mv_args, mv_i>>
    BY <1>1
  <2>. QED BY <2>1, MvBusyKeeps
<1>7. mv_args \in MvTransfers /\ mv_i \in 1 .. Len(mv_args)
  BY DEF MvInv, MvCalled, MvWaits
<1>8. mv_block => MvBusy
  BY DEF MvInv, MvCalled, MvWaits
<1>9. ~ mv_block => MvQuiet /\ MvDone(mv_i)
  BY DEF MvInv, MvCalled, MvWaits
<1>10. mv_block \in BOOLEAN
  BY DEF MvInv, MvType
<1>11. MvCalled'
  BY <1>1, <1>4, <1>5, <1>6, <1>7, <1>8, <1>9, <1>10 DEF MvCalled
<1>. QED BY <1>2, <1>3, <1>11 DEF MvInv

(* The process waits, wakes or gives up.                                   *)
LEMMA MvWaitsInv ==
  ASSUME MvInv, MvWoken \/ MvTimedOut \/ MvAbort \/ MvGiveUp
  PROVE  MvInv'
<1>0. /\ mv_rc \in {0, ENODEV, EIO, ETIMEDOUT} /\ mv_aborting \in BOOLEAN /\ mv_idle \in BOOLEAN /\ mv_block \in BOOLEAN
      /\ mv_pc \in {"abort", "locked", "reset"} \/ mv_aborting => mv_rc # 0
  BY DEF MvInv, MvType, MvCalled
<1>1. CASE MvWoken
  BY <1>0, <1>1, MvGoesTo DEF MvWoken, MvGo, MvWaits, mvData
<1>2. CASE MvTimedOut
  BY <1>0, <1>2, MvGoesTo DEF MvTimedOut, MvGo, MvWaits, mvData
<1>3. CASE MvAbort
  <2>1. ETIMEDOUT # 0
    BY DEF ETIMEDOUT
  <2>2. /\ mv_pc = "late" /\ mv_rc' = ETIMEDOUT /\ mv_aborting' = (mv_aborting \/ mv_block)
        /\ mv_pc' = (IF mv_block THEN "abort" ELSE "executed") /\ UNCHANGED <<mv_args, mv_i>>
        /\ UNCHANGED <<mv_idle, mv_left, mv_posn, mv_block, mv_ack, mvUnit, mvRecord>>
    BY <1>3 DEF MvAbort, MvGo
  <2>. QED BY <1>0, <2>1, <2>2, MvGoesTo DEF MvWaits
<1>4. CASE MvGiveUp
  BY <1>0, <1>4, MvGoesTo DEF MvGiveUp, MvGo, MvWaits
<1>. QED BY <1>1, <1>2, <1>3, <1>4

(* The process's steps.                                                    *)
LEMMA MvProcessInv ==
  ASSUME MvInv, MvProcess \/ MvXfer
  PROVE  MvInv'
<1>1. CASE MvHwInit
  <2>1. /\ mv_pc = "reset" /\ mv_idle' = TRUE /\ MvQuiet' /\ mv_pc' = "executed" /\ UNCHANGED <<mv_args, mv_i>>
        /\ mv_inten' = FALSE /\ mv_ours' = FALSE
        /\ UNCHANGED <<mv_aborting, mv_left, mv_posn, mv_block, mv_rc, mv_ack, mv_stored>>
    BY <1>1 DEF MvHwInit, MvGo, MvQuiet
  <2>2. mv_rc # 0 /\ mv_args \in MvTransfers /\ mv_i \in 1 .. Len(mv_args)
    BY <2>1 DEF MvInv, MvCalled
  <2>3. MvType' /\ MvBuffer'
    BY <2>1 DEF MvInv, MvType, MvBuffer, MvStoredOf, MvMsg
  <2>4. MvDone(mv_i)'
    BY <2>1, <2>2 DEF MvDone
  <2>. QED BY <2>1, <2>2, <2>3, <2>4 DEF MvInv, MvCalled
<1>2. CASE MvNextMessage
  <2>1. /\ mv_pc = "executed"
        /\ IF mv_rc < 0 \/ mv_i = Len(mv_args)
             THEN mv_pc' = "done" /\ mv_i' = mv_i
             ELSE mv_pc' = "execute" /\ mv_i' = mv_i + 1
        /\ UNCHANGED <<mv_idle, mv_aborting, mv_left, mv_posn, mv_block, mv_rc, mv_ack>>
        /\ UNCHANGED <<mv_inten, mv_job, mv_status, mv_ours>>
        /\ UNCHANGED <<mv_wire, mv_stored, mv_args, mv_xfers>>
    BY <1>2 DEF MvNextMessage, mvData, mvUnit, mvRecord
  <2>2. /\ MvQuiet /\ MvDone(mv_i) /\ mv_args \in MvTransfers /\ mv_i \in 1 .. Len(mv_args)
        /\ (mv_aborting => mv_rc # 0) /\ mv_rc \in {0, ENODEV, EIO, ETIMEDOUT} /\ MvBuffer
    BY <2>1 DEF MvInv, MvType, MvCalled
  <2>3. MvType' /\ MvQuiet' /\ MvAllPlain' = MvAllPlain
    BY <2>1, <2>2 DEF MvInv, MvType, MvQuiet, MvAllPlain
  <2>4. mv_args \in Seq(MvMessage) /\ Len(mv_args) \in Nat
    BY <2>2, MvAssumption, LenProperties
  <2>5. mv_rc < 0 \/ mv_rc = 0
    BY <2>2 DEF ENODEV, EIO, ETIMEDOUT
  <2>6. CASE mv_rc < 0 \/ mv_i = Len(mv_args)
    <3>1. mv_pc' = "done" /\ mv_i' = mv_i
      BY <2>1, <2>6
    <3>2. mv_rc = 0 => mv_i = Len(mv_args)
      BY <2>6
    <3>3. MvDone(mv_i)'
      BY <2>1, <2>2, <2>3, <3>1 DEF MvDone
    <3>4. MvBuffer'
      BY <2>1, <2>2, <3>1 DEF MvBuffer, MvStoredOf, MvMsg
    <3>. QED BY <2>1, <2>2, <2>3, <3>1, <3>2, <3>3, <3>4 DEF MvInv, MvCalled
  <2>7. CASE ~ (mv_rc < 0 \/ mv_i = Len(mv_args))
    <3>1. mv_pc' = "execute" /\ mv_i' = mv_i + 1 /\ mv_rc = 0 /\ ~ mv_aborting
      BY <2>1, <2>2, <2>5, <2>7
    <3>2. mv_i' \in 1 .. Len(mv_args) /\ mv_i' - 1 = mv_i /\ mv_i \in Nat /\ mv_i' > mv_i
      BY <2>2, <2>4, <2>7, <3>1
    <3>3. MvAllPlain' => mv_wire' = Flat(MvParts(mv_args'), mv_i' - 1)
      BY <2>1, <2>2, <2>3, <3>1, <3>2 DEF MvDone
    <3>4. MvBuffer'
      <4>0. mv_stored' = mv_stored /\ mv_stored \in Seq(Nat \X Nat) /\ \A k \in 1 .. Len(mv_stored) : MvStoredOf(k)
        BY <2>1, <2>2 DEF MvBuffer
      <4>3. ASSUME NEW k \in 1 .. Len(mv_stored') PROVE MvStoredOf(k)'
        <5>1. MvStoredOf(k) /\ UNCHANGED <<mv_stored, mv_args>>
          BY <2>1, <4>0, <4>3
        <5>2. mv_stored[k][1] \in 1 .. mv_i'
          BY <5>1, <3>2 DEF MvStoredOf
        <5>. QED BY <5>1, <5>2 DEF MvStoredOf
      <4>1. mv_stored' \in Seq(Nat \X Nat) /\ \A k \in 1 .. Len(mv_stored') : MvStoredOf(k)'
        BY <4>0, <4>3
      <4>2. mv_stored # <<>> => mv_stored[Len(mv_stored)][1] # mv_i'
        <5>. SUFFICES ASSUME mv_stored # <<>> PROVE mv_stored[Len(mv_stored)][1] # mv_i'
          OBVIOUS
        <5>1. Len(mv_stored) \in 1 .. Len(mv_stored)
          BY <2>2, LenProperties, EmptySeq DEF MvBuffer
        <5>2. mv_stored[Len(mv_stored)][1] \in 1 .. mv_i
          BY <2>2, <5>1 DEF MvBuffer, MvStoredOf
        <5>. QED BY <3>2, <5>2
      <4>. QED BY <2>1, <3>1, <4>1, <4>2 DEF MvBuffer
    <3>. QED BY <2>1, <2>2, <2>3, <3>1, <3>2, <3>3, <3>4 DEF MvInv, MvCalled
  <2>. QED BY <2>6, <2>7
<1>3. CASE MvReturn
  <2>1. /\ mv_pc = "done" /\ mv_pc' = "idle" /\ mv_i' = 0 /\ mv_wire' = <<>> /\ mv_stored' = <<>>
        /\ UNCHANGED <<mv_idle, mv_aborting, mv_left, mv_posn, mv_block, mv_rc, mv_ack>>
        /\ UNCHANGED <<mv_inten, mv_job, mv_status, mv_ours>>
    BY <1>3 DEF MvReturn, mvData, mvUnit
  <2>2. MvQuiet /\ (mv_aborting => mv_rc # 0) /\ MvType
    BY <2>1 DEF MvInv, MvCalled
  <2>3. mv_stored' \in Seq(Nat \X Nat) /\ Len(mv_stored') = 0
    BY <2>1, EmptySeq
  <2>10. MvType'
    BY <2>1, <2>2 DEF MvType
  <2>11. MvQuiet'
    BY <2>1, <2>2 DEF MvQuiet
  <2>12. MvBuffer'
    <3>1. mv_stored' \in Seq(Nat \X Nat) /\ \A k \in 1 .. Len(mv_stored') : MvStoredOf(k)'
      BY <2>3
    <3>2. mv_stored' = <<>> /\ mv_i' = 0
      BY <2>1, <2>2
    <3>. QED BY <3>1, <3>2 DEF MvBuffer
  <2>4. MvType' /\ MvQuiet' /\ MvBuffer'
    BY <2>10, <2>11, <2>12
  <2>. QED BY <2>1, <2>2, <2>4 DEF MvInv, MvCalled
<1>4. CASE MvXfer
  <2>1. /\ mv_pc = "idle" /\ mv_args' \in MvTransfers /\ mv_i' = 1 /\ mv_pc' = "execute"
        /\ UNCHANGED <<mv_idle, mv_aborting, mv_left, mv_posn, mv_block, mv_rc, mv_ack>>
        /\ UNCHANGED <<mv_inten, mv_job, mv_status, mv_ours, mv_wire, mv_stored>>
    BY <1>4 DEF MvXfer, mvData, mvUnit, mvRecord
  <2>2. MvQuiet /\ mv_wire = <<>> /\ mv_stored = <<>> /\ (mv_aborting => mv_rc # 0) /\ MvType
    BY <2>1 DEF MvInv, MvCalled
  <2>3. mv_stored' \in Seq(Nat \X Nat) /\ Len(mv_stored') = 0
    BY <2>1, <2>2, EmptySeq
  <2>10. MvType'
    BY <2>1, <2>2 DEF MvType
  <2>11. MvQuiet'
    BY <2>1, <2>2 DEF MvQuiet
  <2>12. MvBuffer'
    <3>1. mv_stored' \in Seq(Nat \X Nat) /\ \A k \in 1 .. Len(mv_stored') : MvStoredOf(k)'
      BY <2>3
    <3>2. mv_stored' = <<>> /\ mv_pc' = "execute"
      BY <2>1, <2>2
    <3>. QED BY <3>1, <3>2 DEF MvBuffer
  <2>4. MvType' /\ MvQuiet' /\ MvBuffer'
    BY <2>10, <2>11, <2>12
  <2>5. PICK a \in MvTransfers : a = mv_args'
    BY <2>1
  <2>6. a \in Seq(MvMessage) /\ a # <<>>
    BY MvAssumption
  <2>7. 1 \in 1 .. Len(a) /\ Flat(MvParts(a), 1 - 1) = <<>>
    <3>1. 1 \in 1 .. Len(a) /\ Len(a) \in Nat
      BY <2>6, LenProperties, EmptySeq
    <3>2. MvParts(a) \in Seq(Seq(MvEvents)) /\ 0 \in 0 .. Len(MvParts(a))
      BY <2>6, <3>1, MvSeqs
    <3>3. Flat(MvParts(a), 0) = <<>>
      BY <3>2, FlatType
    <3>. QED BY <3>1, <3>3
  <2>. QED BY <2>1, <2>2, <2>4, <2>5, <2>7 DEF MvInv, MvCalled
<1>. QED BY <1>1, <1>2, <1>3, <1>4, MvExecuteInv, MvWaitsInv DEF MvProcess

(* Every step.                                                             *)
LEMMA MvStep ==
  ASSUME MvInv, [MvNext]_mvVars
  PROVE  MvInv'
<1>1. CASE UNCHANGED mvVars
  <2>1. UNCHANGED <<mvData, mvUnit, mvRecord, mvCaller>>
    BY <1>1 DEF mvVars
  <2>2. UNCHANGED <<mv_idle, mv_aborting, mv_left, mv_posn, mv_block, mv_rc, mv_ack, mv_inten, mv_job,
                    mv_status, mv_ours, mv_wire, mv_stored, mv_pc, mv_args, mv_i>>
    BY <2>1 DEF mvData, mvUnit, mvRecord, mvCaller
  <2>3. MvMsg' = MvMsg /\ MvAllPlain' = MvAllPlain
    BY <2>2 DEF MvMsg, MvAllPlain
  <2>6. MvType'
    BY <2>2 DEF MvInv, MvType
  <2>7. MvBuffer'
    BY <2>2, <2>3 DEF MvInv, MvBuffer, MvStoredOf
  <2>8. MvQuiet => MvQuiet'
    BY <2>2 DEF MvQuiet
  <2>4. MvBusy => MvBusy'
    <3>. SUFFICES ASSUME MvBusy PROVE MvBusy'
      OBVIOUS
    <3>1. UNCHANGED <<mv_job, mv_posn, mv_left, mv_ack, mv_status, mv_ours, mv_inten, mv_idle, mv_wire,
                      mv_args, mv_i>>
      BY <2>2
    <3>2. mv_aborting' = mv_aborting /\ mv_rc' = mv_rc
      BY <2>2
    <3>. QED BY <3>1, <3>2, MvBusyKeeps
  <2>5. MvDone(mv_i) => MvDone(mv_i)'
    BY <2>2, <2>3 DEF MvDone
  <2>9. MvCalled'
    BY <2>2, <2>3, <2>4, <2>5, <2>8 DEF MvInv, MvCalled
  <2>. QED BY <2>6, <2>7, <2>9 DEF MvInv
<1>. QED BY <1>1, MvHandlerInv, MvControllerInv, MvProcessInv DEF MvNext

(* The invariant implies the property.                                     *)
LEMMA MvInvKept == MvInv => MvKept
<1>. SUFFICES ASSUME MvInv PROVE MvKept
  OBVIOUS
<1>1. MvFaithful
  <2>. SUFFICES ASSUME mv_pc = "done", mv_rc = 0, MvAllPlain PROVE mv_wire = MvWhole
    BY DEF MvFaithful, MvAllPlain
  <2>1. mv_wire = Flat(MvParts(mv_args), Len(mv_args))
    BY DEF MvInv, MvCalled, MvDone
  <2>2. MvWhole = FlattenSeq(MvParts(mv_args))
    BY DEF MvWhole, MvParts
  <2>3. mv_args \in Seq(MvMessage)
    BY MvArgs
  <2>. QED BY <2>1, <2>2, <2>3, MvSeqs, FlatWhole
<1>2. MvInBuffer
  <2>1. mv_stored \in Seq(Nat \X Nat) /\ \A k \in 1 .. Len(mv_stored) : MvStoredOf(k)
    BY DEF MvInv, MvBuffer
  <2>2. ASSUME NEW k \in DOMAIN mv_stored PROVE MvStoredOf(k) /\ mv_i # 0
    <3>1. DOMAIN mv_stored = 1 .. Len(mv_stored)
      BY <2>1, LenProperties
    <3>2. MvStoredOf(k)
      BY <2>1, <2>2, <3>1
    <3>3. mv_stored # <<>>
      BY <2>2, EmptySeq
    <3>4. mv_pc # "idle"
      BY <3>3 DEF MvInv, MvCalled
    <3>5. mv_i \in 1 .. Len(mv_args)
      BY <3>4 DEF MvInv, MvCalled
    <3>. QED BY <3>2, <3>5
  <2>3. ASSUME NEW k \in DOMAIN mv_stored
        PROVE  mv_stored[k][2] < mv_args[mv_stored[k][1]].len
    <3>1. mv_stored[k][1] \in 1 .. mv_i /\ mv_stored[k][2] \in 0 .. mv_args[mv_stored[k][1]].len - 1
      BY <2>2, <2>3 DEF MvStoredOf
    <3>2. mv_pc # "idle"
      BY <2>2, <2>3 DEF MvInv, MvCalled
    <3>3. mv_args \in Seq(MvMessage) /\ mv_i \in 1 .. Len(mv_args)
      BY <3>2, MvArgs
    <3>4. mv_stored[k][1] \in 1 .. Len(mv_args)
      BY <3>1, <3>3, LenProperties
    <3>5. mv_args[mv_stored[k][1]].len \in Nat
      BY <3>3, <3>4, ElementOfSeq, MvMessageIs
    <3>. QED BY <3>1, <3>5
  <2>4. MvBuffer
    BY DEF MvInv
  <2>. QED BY <2>2, <2>3, <2>4 DEF MvInBuffer, MvBuffer, MvStoredOf
<1>3. MvGivenBack
  BY DEF MvGivenBack, MvInv, MvCalled, MvQuiet
<1>4. MvSomebodyWorks
  <2>. SUFFICES ASSUME mv_pc \in {"wait", "late", "abort"}, mv_block, ~ MvMsg.nostart
                PROVE  mv_inten /\ (mv_status # "" \/ mv_job = MvStart \/ (mv_job # <<>> /\ mv_ours))
    BY DEF MvSomebodyWorks
  <2>1. MvBusy
    BY DEF MvInv, MvCalled
  <2>2. mv_inten /\ (MvOnStart \/ MvOnAddr \/ MvOnAddr2 \/ MvOnTx \/ MvOnRx)
    BY <2>1 DEF MvBusy
  <2>3. MvOnStart => mv_job = MvStart
    BY DEF MvOnStart
  <2>4. MvOnAddr \/ MvOnAddr2 \/ MvOnTx \/ MvOnRx => mv_status # "" \/ (mv_job # <<>> /\ mv_ours)
    BY MvKinds DEF MvOnAddr, MvOnAddr2, MvOnTx, MvOnRx
  <2>. QED BY <2>2, <2>3, <2>4
<1>. QED BY <1>1, <1>2, <1>3, <1>4 DEF MvKept

(* Marvell's: likewise, with every byte inside the message's buffer, for   *)
(* any transfers with addresses of seven and ten bits, any refusals,       *)
(* losses and time-outs.                                                   *)
THEOREM MarvellServed == MvSpec => []MvKept
<1>1. MvInit => MvInv
  BY MvInitInv
<1>2. MvInv /\ [MvNext]_mvVars => MvInv'
  BY MvStep
<1>. QED BY <1>1, <1>2, MvInvKept, PTL DEF MvSpec

-----------------------------------------------------------------------------
(***************************************************************************)
(* The PXA's.                                                              *)
(***************************************************************************)
PxParts(a)   == [k \in DOMAIN a |-> PxPart(a, k)]
PxHead(a, k) == IF a[k].nostart /\ k > 1 THEN 0 ELSE 1

PxThis == px_args[px_msg]

(* j of the message's events are on the bus, and the stop; its bytes up to *)
(* px_ptr are in their places.                                             *)
PxPlaced(s, k, n) == s \in Seq(Nat \X Nat) /\ Len(s) = n /\ \A i \in 1 .. n : s[i] = <<k, i - 1>>
PxKeeps(a, k, p, s) == PxServed(a) => PxPlaced(s, k, IF a[k].rd THEN p ELSE 0)
PxAt(j)  == PxServed(px_args) => px_wire = SoFar(PxParts(px_args), px_msg, j)
PxEnd(j) == PxServed(px_args) => px_wire = Append(SoFar(PxParts(px_args), px_msg, j), PxStop)

(* A start is to be sent, or a byte, or one is to be read.                 *)
PxStarting ==
  /\ "START" \in px_icr /\ "STOP" \notin px_icr
  /\ px_ptr = 0 /\ px_db = PxAddrByte(PxThis)
  /\ PxServed(px_args) => PxHead(px_args, px_msg) = 1
PxSending ==
  /\ "START" \notin px_icr /\ ~ px_rwm /\ px_ptr \in Nat \ {0}
  /\ "STOP" \in px_icr => px_ptr = PxThis.len /\ px_msg = px_num
  /\ PxServed(px_args) => /\ ~ PxThis.rd /\ px_ptr <= PxThis.len
                          /\ px_ptr = PxThis.len /\ px_msg = px_num => "STOP" \in px_icr
PxReading ==
  /\ "START" \notin px_icr /\ px_rwm
  /\ "STOP" \in px_icr => px_ptr + 1 = PxThis.len
  /\ PxServed(px_args) => /\ PxThis.rd /\ px_ptr < PxThis.len
                          /\ px_ptr + 1 = PxThis.len => "STOP" \in px_icr
                          /\ ("ACKNAK" \in px_icr <=> px_ptr + 1 = PxThis.len)

PxAskStart == PxStarting /\ PxAt(0)
PxAskSend  == px_bus = "ours" /\ PxSending /\ px_db = PxTx(px_msg, px_ptr - 1)
                /\ PxAt(PxHead(px_args, px_msg) + px_ptr - 1)
PxAskRead  == px_bus = "ours" /\ PxReading /\ PxAt(1 + px_ptr)
PxAskLost  == "START" \notin px_icr /\ px_bus # "ours" /\ px_lost
PxAsking ==
  /\ "TB" \in px_icr /\ "ITE" \notin px_isr /\ "IRF" \notin px_isr /\ "BED" \notin px_isr
  /\ "ALD" \in px_isr => px_lost
  /\ PxAskStart \/ PxAskSend \/ PxAskRead \/ PxAskLost

PxEmptied == "ITE" \in px_isr /\ "IRF" \notin px_isr /\ "ALD" \notin px_isr
PxMovedStart == PxEmptied /\ "BED" \notin px_isr /\ PxStarting /\ (px_rwm <=> PxThis.rd) /\ PxAt(1)
PxMovedSend  == PxEmptied /\ "BED" \notin px_isr /\ PxSending
                  /\ IF "STOP" \in px_icr THEN PxEnd(PxHead(px_args, px_msg) + px_ptr)
                                           ELSE PxAt(PxHead(px_args, px_msg) + px_ptr)
PxMovedRead  == /\ "IRF" \in px_isr /\ "ITE" \notin px_isr /\ "BED" \notin px_isr /\ PxReading
                /\ IF "STOP" \in px_icr THEN PxEnd(2 + px_ptr) ELSE PxAt(2 + px_ptr)
PxMovedBad   == PxEmptied /\ "BED" \in px_isr
PxMoved ==
  /\ "TB" \notin px_icr
  /\ "STOP" \notin px_icr /\ "BED" \notin px_isr => px_bus = "ours"
  /\ PxMovedStart \/ PxMovedSend \/ PxMovedRead \/ PxMovedBad

(* Nothing can go on: the byte was lost.                                   *)
PxDead == "TB" \notin px_icr /\ px_lost /\ "IRF" \notin px_isr /\ ("ITE" \in px_isr => "ALD" \in px_isr)

PxAddressedNow == "SAD" \in px_isr \/ "SSD" \in px_isr
PxWorking ==
  IF "SCLE" \notin px_icr
    THEN px_lost \/ px_bus = "slave" \/ px_bus = "ending" \/ "SSD" \in px_isr
    ELSE PxAddressedNow \/ PxAsking \/ PxMoved \/ PxDead
PxPlace ==
  /\ px_msgs = px_args /\ px_num = Len(px_args) /\ px_msg \in 1 .. px_num /\ px_idx = px_msg - 1
  /\ px_ptr \in Nat
  /\ PxKeeps(px_args, px_msg, px_ptr, px_stored)
PxOn == PxPlace /\ PxWorking

PxDone ==
  /\ ~ PxReady /\ px_num = 0
  /\ PxServed(px_args) => px_wire = PxExpected(px_args) /\ px_stored = PxPlaces(px_args)

PxAsSlave ==
  /\ px_bus = "slave" /\ "SAD" \notin px_isr =>
       /\ "SCLE" \notin px_icr /\ "SSD" \notin px_isr /\ "BED" \notin px_isr
       /\ "TB" \in px_icr \/ "ITE" \in px_isr \/ "IRF" \in px_isr
  /\ "SAD" \in px_isr /\ "SSD" \notin px_isr => px_bus = "slave"

PxWaits == {"wait", "stop", "write stop", "collect"}
PxAfter == {"set_slave", "clear", "write clear", "slave", "slave1", "write slave1", "slave2", "write slave2", "done"}

PxCalled ==
  /\ px_msg \in Nat /\ (px_msg = 0 <=> px_num = 0)
  /\ px_pc # "idle" => px_args \in PxTransfers
  /\ px_pc = "wait" => ~ px_late
  /\ px_pc = "wait" /\ px_msg # 0 => PxOn
  /\ px_pc \in PxWaits \ {"wait"} /\ ~ px_late => px_num = 0
  /\ px_pc \in PxWaits /\ px_idx = Len(px_args) /\ ~ px_late => PxDone
  /\ px_pc \in PxAfter /\ px_ret = Len(px_args) /\ ~ px_late => PxDone

PxType == px_late \in BOOLEAN /\ px_rwm \in BOOLEAN /\ px_lost \in BOOLEAN /\ px_torn \in BOOLEAN

PxInv == PxType /\ (~ px_torn => PxAsSlave /\ PxCalled)

-----------------------------------------------------------------------------
PxEvents ==
  {PxRx(TRUE), PxRx(FALSE), PxStop, PxResetUnit} \cup {PxAddrByte(m) : m \in PxMessage}
    \cup UNION {{PxTx(k, p) : p \in Nat} : k \in Nat}

(* What a message asks for: its start, unless it continues another, and    *)
(* then its bytes.                                                         *)
LEMMA PxPartIs ==
  ASSUME NEW a \in Seq(PxMessage), NEW k \in 1 .. Len(a)
  PROVE  /\ PxPart(a, k) \in Seq(PxEvents)
         /\ a[k].len \in Nat /\ a[k].rd \in BOOLEAN /\ a[k].nostart \in BOOLEAN
         /\ Len(PxPart(a, k)) = PxHead(a, k) + a[k].len
         /\ PxHead(a, k) = 1 => PxPart(a, k)[1] = PxAddrByte(a[k])
         /\ \A i \in 1 .. a[k].len :
              PxPart(a, k)[PxHead(a, k) + i]
                = IF a[k].rd THEN PxRx(i # a[k].len) ELSE PxTx(k, i - 1)
<1>. DEFINE m == a[k]
            hd == IF m.nostart /\ k > 1 THEN <<>> ELSE <<PxAddrByte(m)>>
            bytes == [i \in 1 .. m.len |-> IF m.rd THEN PxRx(i # m.len) ELSE PxTx(k, i - 1)]
<1>1. m \in PxMessage /\ k \in Nat
  BY ElementOfSeq, LenProperties
<1>2. m.len \in Nat /\ m.rd \in BOOLEAN /\ m.nostart \in BOOLEAN
  BY <1>1 DEF PxMessage
<1>3. PxPart(a, k) = hd \o bytes
  BY DEF PxPart
<1>4. hd \in Seq(PxEvents) /\ Len(hd) = PxHead(a, k) /\ (PxHead(a, k) = 1 => hd[1] = PxAddrByte(m))
  <2>1. PxAddrByte(m) \in PxEvents
    BY <1>1 DEF PxEvents
  <2>2. CASE m.nostart /\ k > 1
    BY <2>2 DEF PxHead
  <2>3. CASE ~ (m.nostart /\ k > 1)
    BY <2>1, <2>3 DEF PxHead
  <2>. QED BY <2>2, <2>3
<1>5. bytes \in Seq(PxEvents) /\ Len(bytes) = m.len
  <2>1. \A i \in 1 .. m.len : (IF m.rd THEN PxRx(i # m.len) ELSE PxTx(k, i - 1)) \in PxEvents
    <3>. SUFFICES ASSUME NEW i \in 1 .. m.len
                  PROVE  PxRx(i # m.len) \in PxEvents /\ PxTx(k, i - 1) \in PxEvents
      OBVIOUS
    <3>1. PxRx(TRUE) \in PxEvents /\ PxRx(FALSE) \in PxEvents
      BY DEF PxEvents
    <3>2. PxRx(i # m.len) \in PxEvents
      <4>1. CASE i = m.len
        <5>1. (i # m.len) = FALSE
          BY <4>1
        <5>. QED BY <3>1, <5>1
      <4>2. CASE i # m.len
        <5>1. (i # m.len) = TRUE
          BY <4>2
        <5>. QED BY <3>1, <5>1
      <4>. QED BY <4>1, <4>2
    <3>3. PxTx(k, i - 1) \in PxEvents
      <4>1. PICK p \in Nat : p = i - 1
        BY <1>2
      <4>2. PxTx(k, p) \in UNION {{PxTx(l, q) : q \in Nat} : l \in Nat}
        BY <1>1
      <4>. QED BY <4>1, <4>2 DEF PxEvents
    <3>. QED BY <3>2, <3>3
  <2>2. bytes \in [1 .. m.len -> PxEvents]
    BY <2>1
  <2>. HIDE DEF bytes
  <2>. QED BY <1>2, <2>2
<1>6. \A i \in 1 .. m.len : bytes[i] = IF m.rd THEN PxRx(i # m.len) ELSE PxTx(k, i - 1)
  OBVIOUS
<1>7. PxHead(a, k) \in {0, 1}
  BY DEF PxHead
<1>. HIDE DEF m, hd, bytes
<1>8. /\ hd \o bytes \in Seq(PxEvents)
      /\ Len(hd \o bytes) = Len(hd) + Len(bytes)
      /\ \A i \in 1 .. Len(hd) + Len(bytes) : (hd \o bytes)[i] = IF i <= Len(hd) THEN hd[i] ELSE bytes[i - Len(hd)]
  BY <1>4, <1>5, ConcatProperties
<1>9. PxHead(a, k) = 1 => (hd \o bytes)[1] = PxAddrByte(m)
  BY <1>2, <1>4, <1>5, <1>7, <1>8
<1>10. ASSUME NEW i \in 1 .. m.len
       PROVE  (hd \o bytes)[PxHead(a, k) + i] = IF m.rd THEN PxRx(i # m.len) ELSE PxTx(k, i - 1)
  <2>. PICK j \in Nat : j = PxHead(a, k) + i
    BY <1>2, <1>7
  <2>1. j \in 1 .. Len(hd) + Len(bytes) /\ ~ (j <= Len(hd)) /\ j - Len(hd) = i
    BY <1>2, <1>4, <1>5, <1>7
  <2>. QED BY <1>6, <1>8, <2>1
<1>. QED BY <1>2, <1>3, <1>4, <1>5, <1>8, <1>9, <1>10 DEF m

(* The parts of an array are sequences of events.                          *)
LEMMA PxSeqs ==
  ASSUME NEW a \in Seq(PxMessage)
  PROVE  /\ PxParts(a) \in Seq(Seq(PxEvents)) /\ Len(PxParts(a)) = Len(a)
         /\ \A k \in 1 .. Len(a) : PxParts(a)[k] = PxPart(a, k)
<1>1. DOMAIN a = 1 .. Len(a) /\ Len(a) \in Nat
  BY LenProperties
<1>2. PxParts(a) \in [1 .. Len(a) -> Seq(PxEvents)]
  BY <1>1, PxPartIs DEF PxParts
<1>4. PxParts(a) \in Seq(Seq(PxEvents)) /\ Len(PxParts(a)) = Len(a)
  BY <1>1, <1>2
<1>. QED BY <1>1, <1>4 DEF PxParts

(* One more event of message k; the last one of it.                        *)
LEMMA PxOneMore ==
  ASSUME NEW a \in Seq(PxMessage), NEW k \in 1 .. Len(a), NEW j \in 1 .. PxHead(a, k) + a[k].len,
         NEW e, e = PxPart(a, k)[j], NEW i, i = j - 1
  PROVE  /\ Append(SoFar(PxParts(a), k, i), e) = SoFar(PxParts(a), k, j)
         /\ SoFar(PxParts(a), k, i) \o <<e, PxStop>> = Append(SoFar(PxParts(a), k, j), PxStop)
<1>. DEFINE P == PxParts(a)
<1>1. P \in Seq(Seq(PxEvents)) /\ k \in 1 .. Len(P) /\ P[k] = PxPart(a, k)
  BY PxSeqs
<1>2. j \in 1 .. Len(P[k]) /\ P[k] \in Seq(PxEvents) /\ Len(P[k]) \in Nat
  BY <1>1, PxPartIs, LenProperties
<1>8. PxStop \in PxEvents
  BY DEF PxEvents
<1>3. P[k][j] \in PxEvents /\ j - 1 \in 0 .. Len(P[k]) /\ e = P[k][j] /\ PxStop \in PxEvents
  BY <1>1, <1>2, <1>8, ElementOfSeq
<1>. HIDE DEF P
<1>4. Append(SoFar(P, k, j - 1), P[k][j]) = SoFar(P, k, j)
  BY ONLY <1>1, <1>2, SoFarOn
<1>5. SoFar(P, k, j - 1) \in Seq(PxEvents)
  BY <1>1, <1>3, SoFarType
<1>6. PICK s \in Seq(PxEvents) : s = SoFar(P, k, i)
  BY <1>5
<1>7. s \o <<e, PxStop>> = Append(Append(s, e), PxStop)
  BY <1>3
<1>. QED BY <1>3, <1>4, <1>6, <1>7 DEF P

(* The end of message k, and the start of the next one that is not passed  *)
(* over.                                                                   *)
LEMMA PxEnds ==
  ASSUME NEW a \in Seq(PxMessage), NEW k \in 1 .. Len(a)
  PROVE  /\ SoFar(PxParts(a), k, PxHead(a, k) + a[k].len) = Flat(PxParts(a), k)
         /\ SoFar(PxParts(a), k, 0) = Flat(PxParts(a), k - 1)
<1>. DEFINE P == PxParts(a)
<1>1. P \in Seq(Seq(PxEvents)) /\ k \in 1 .. Len(P) /\ P[k] = PxPart(a, k)
  BY PxSeqs
<1>2. Len(P[k]) = PxHead(a, k) + a[k].len
  BY <1>1, PxPartIs
<1>. HIDE DEF P
<1>3. SoFar(P, k, Len(P[k])) = Flat(P, k) /\ SoFar(P, k, 0) = Flat(P, k - 1)
  BY ONLY <1>1, SoFarOver, SoFarNone
<1>. QED BY <1>2, <1>3 DEF P

(* Empty messages that continue one ask for nothing.                       *)
LEMMA PxPassedOver ==
  ASSUME NEW a \in Seq(PxMessage), NEW i \in 1 .. Len(a), NEW k \in i .. Len(a),
         \A j \in i + 1 .. k : a[j].nostart /\ a[j].len = 0
  PROVE  Flat(PxParts(a), k) = Flat(PxParts(a), i)
<1>. DEFINE P == PxParts(a)
            S == {n \in Nat : i + n <= k => Flat(P, i + n) = Flat(P, i)}
<1>1. P \in Seq(Seq(PxEvents)) /\ Len(P) = Len(a) /\ Len(a) \in Nat /\ i \in Nat /\ k \in Nat
  BY PxSeqs, LenProperties
<1>2. 0 \in S
  BY <1>1
<1>3. ASSUME NEW n \in Nat, n \in S PROVE n + 1 \in S
  <2>. SUFFICES ASSUME i + n + 1 <= k PROVE Flat(P, i + (n + 1)) = Flat(P, i)
    BY <1>1
  <2>1. PICK m \in Nat : m = i + n + 1
    BY <1>1
  <2>2. m \in 1 .. Len(a) /\ m \in i + 1 .. k /\ m - 1 = i + n /\ m > 1 /\ i + n <= k /\ i + (n + 1) = m
    BY <1>1, <2>1
  <2>3. Flat(P, m - 1) = Flat(P, i)
    BY <1>3, <2>2
  <2>4. P[m] = PxPart(a, m) /\ Len(PxPart(a, m)) = 0 /\ PxPart(a, m) \in Seq(PxEvents)
    <3>1. a[m].nostart /\ a[m].len = 0
      BY <2>2
    <3>2. PxHead(a, m) = 0
      BY <2>2, <3>1 DEF PxHead
    <3>3. m \in 1 .. Len(a)
      BY <2>2
    <3>4. P[m] = PxPart(a, m)
      BY <3>3, PxSeqs
    <3>5. PxPart(a, m) \in Seq(PxEvents) /\ Len(PxPart(a, m)) = PxHead(a, m) + a[m].len
      BY ONLY <3>3, a \in Seq(PxMessage), PxPartIs
    <3>. QED BY ONLY <3>1, <3>2, <3>4, <3>5
  <2>5. P[m] = <<>>
    BY <2>4, EmptySeq
  <2>6. Flat(P, m) = Flat(P, m - 1) \o P[m] /\ Flat(P, m - 1) \in Seq(PxEvents)
    <3>1. m \in 1 .. Len(P) /\ m - 1 \in 0 .. Len(P)
      BY <1>1, <2>2
    <3>. HIDE DEF P
    <3>. QED BY <1>1, <3>1, FlatStep, FlatType
  <2>7. Flat(P, m - 1) \o <<>> = Flat(P, m - 1)
    BY <2>6, ConcatEmptySeq
  <2>. QED BY <2>2, <2>3, <2>5, <2>6, <2>7
<1>4. PICK n \in Nat : n = k - i
  BY <1>1
<1>. HIDE DEF S
<1>5. 0 .. n \subseteq S
  <2>1. \A m \in 0 .. n - 1 : m \in S => m + 1 \in S
    BY <1>3
  <2>. QED BY <1>2, <2>1, UpTo
<1>6. n \in S /\ i + n = k
  BY <1>1, <1>4, <1>5
<1>7. i + n <= k => Flat(P, i + n) = Flat(P, i)
  BY <1>6 DEF S
<1>8. i + n <= k
  BY <1>1, <1>6
<1>9. Flat(P, i + n) = Flat(P, i)
  BY <1>7, <1>8
<1>. QED BY <1>6, <1>9, Zenon

-----------------------------------------------------------------------------
(* What a call has for messages.                                           *)
LEMMA PxArgs ==
  ASSUME px_args \in PxTransfers
  PROVE  px_args \in Seq(PxMessage) /\ Len(px_args) \in Nat \ {0}
<1>1. px_args \in Seq(PxMessage) /\ px_args # <<>>
  BY PxaAssumption
<1>. QED BY <1>1, EmptySeq

(* Before the first call.                                                  *)
LEMMA PxInitInv == PxInit => PxInv
<1>. SUFFICES ASSUME PxInit PROVE PxInv
  OBVIOUS
<1>1. /\ px_msg = 0 /\ px_num = 0 /\ px_pc = "idle" /\ px_bus = "free" /\ px_isr = {}
      /\ px_late = FALSE /\ px_rwm = FALSE /\ px_lost = FALSE /\ px_torn = FALSE
  BY DEF PxInit
<1>2. PxType /\ PxAsSlave
  BY <1>1 DEF PxType, PxAsSlave
<1>3. PxCalled
  BY <1>1 DEF PxCalled, PxWaits, PxAfter
<1>. QED BY <1>2, <1>3 DEF PxInv

(* Which bits interrupt.                                                   *)
LEMMA PxIrqIs ==
  /\ "SAD" \in px_isr \/ "SSD" \in px_isr \/ "ITE" \in px_isr \/ "IRF" \in px_isr \/ "BED" \in px_isr => PxIrq
  /\ PxIrq => px_isr # {}
BY DEF PxIrq

(* What the invariant says while a transfer is on.                         *)
LEMMA PxPlaceIs ==
  ASSUME PxInv, ~ px_torn, px_pc = "wait", px_msg # 0
  PROVE  /\ px_args \in Seq(PxMessage) /\ px_args \in PxTransfers
         /\ Len(px_args) \in Nat \ {0} /\ px_num = Len(px_args) /\ px_msgs = px_args
         /\ px_msg \in 1 .. Len(px_args) /\ px_idx = px_msg - 1 /\ px_ptr \in Nat
         /\ PxThis.len \in Nat /\ PxThis.rd \in BOOLEAN /\ PxHead(px_args, px_msg) \in {0, 1}
         /\ PxThis = px_args[px_msg] /\ PxThis = px_msgs[px_msg]
         /\ PxWorking /\ PxKeeps(px_args, px_msg, px_ptr, px_stored)
<1>1. PxPlace /\ PxWorking /\ px_args \in PxTransfers
  BY DEF PxInv, PxCalled, PxOn
<1>2. px_args \in Seq(PxMessage) /\ Len(px_args) \in Nat \ {0}
  BY <1>1, PxArgs
<1>3. px_msg \in 1 .. Len(px_args) /\ px_msgs = px_args
  BY <1>1 DEF PxPlace
<1>4. px_args[px_msg].len \in Nat /\ px_args[px_msg].rd \in BOOLEAN
  BY <1>2, <1>3, PxPartIs
<1>. QED BY <1>1, <1>2, <1>3, <1>4 DEF PxPlace, PxThis, PxHead

(* A read is the last message.                                             *)
LEMMA PxServedIs ==
  ASSUME NEW a \in Seq(PxMessage), PxServed(a), NEW k \in 1 .. Len(a), a[k].rd
  PROVE  k = Len(a) /\ ~ a[k].nostart /\ a[k].len > 0 /\ PxHead(a, k) = 1
<1>1. k \in DOMAIN a
  BY LenProperties
<1>. QED BY <1>1 DEF PxServed, PxHead

-----------------------------------------------------------------------------
(* What a step has to be shown to keep.  The call's own state stays: the   *)
(* steps of the handler and of the world.                                  *)
PxSame == UNCHANGED pxCaller

(* A step of the handler or of the world leaves the call's own state.      *)
LEMMA PxCallerStays ==
  ASSUME PxInv, ~ px_torn, PxSame, PxAsSlave', px_rwm' \in BOOLEAN, px_lost' \in BOOLEAN,
         px_msg' \in Nat, px_msg' = 0 <=> px_num' = 0, px_msg = 0 => px_msg' = 0 /\ px_idx' = px_idx,
         px_pc = "wait" /\ px_msg' # 0 => PxOn',
         px_pc = "wait" /\ px_msg # 0 /\ px_idx' = Len(px_args) => PxDone',
         PxDone => PxDone'
  PROVE  PxInv'
<1>1. UNCHANGED <<px_pc, px_args, px_retry, px_ret, px_saved, px_late, px_torn>>
  BY DEF PxSame, pxCaller
<1>2. PxType'
  BY <1>1 DEF PxInv, PxType
<1>3. px_msg = 0 <=> px_num = 0
  BY DEF PxInv, PxCalled
<1>4. px_pc \in PxWaits \ {"wait"} /\ ~ px_late => px_num' = 0
  BY <1>3 DEF PxInv, PxCalled
<1>5. px_pc \in PxWaits /\ px_idx' = Len(px_args) /\ ~ px_late => PxDone'
  <2>. SUFFICES ASSUME px_pc \in PxWaits, px_idx' = Len(px_args), ~ px_late PROVE PxDone'
    OBVIOUS
  <2>1. CASE px_msg # 0
    <3>1. px_pc = "wait"
      BY <1>3, <2>1 DEF PxInv, PxCalled
    <3>. QED BY <2>1, <3>1
  <2>2. CASE px_msg = 0
    <3>1. px_idx = Len(px_args)
      BY <2>2
    <3>2. PxDone
      BY <3>1 DEF PxInv, PxCalled
    <3>. QED BY <3>2
  <2>. QED BY <2>1, <2>2
<1>6. px_pc \in PxAfter /\ px_ret = Len(px_args) /\ ~ px_late => PxDone'
  BY DEF PxInv, PxCalled
<1>7. /\ px_pc # "idle" => px_args \in PxTransfers
      /\ px_pc = "wait" => ~ px_late
  BY DEF PxInv, PxCalled
<1>8. PxCalled'
  BY <1>1, <1>4, <1>5, <1>6, <1>7 DEF PxCalled
<1>. QED BY <1>2, <1>8 DEF PxInv

-----------------------------------------------------------------------------
(* The unit and other masters.                                             *)
LEMMA PxWorldIs ==
  ASSUME PxInv, ~ px_torn, PxRest, PxAsSlave', px_rwm' \in BOOLEAN, px_lost' \in BOOLEAN,
         px_pc = "wait" /\ px_msg # 0 => PxWorking',
         px_msg # 0 \/ PxReady \/ (~ PxReady' /\ UNCHANGED px_wire)
  PROVE  PxInv'
<1>1. UNCHANGED <<px_msg, px_msgs, px_num, px_idx, px_ptr, px_stored, px_args, px_pc, px_late>> /\ PxSame
  BY DEF PxRest, pxCursor, pxCaller, PxSame
<1>2. px_msg \in Nat /\ (px_msg = 0 <=> px_num = 0)
  BY DEF PxInv, PxCalled
<1>3. px_pc = "wait" /\ px_msg' # 0 => PxOn'
  <2>. SUFFICES ASSUME px_pc = "wait", px_msg # 0 PROVE PxOn'
    BY <1>1
  <2>1. PxPlace
    BY DEF PxInv, PxCalled, PxOn
  <2>2. PxPlace'
    BY <1>1, <2>1 DEF PxPlace
  <2>. QED BY <2>2 DEF PxOn
<1>4. px_pc = "wait" /\ px_msg # 0 => px_idx' # Len(px_args)
  <2>. SUFFICES ASSUME px_pc = "wait", px_msg # 0 PROVE px_idx' # Len(px_args)
    OBVIOUS
  <2>. QED BY <1>1, PxPlaceIs
<1>5. PxDone => PxDone'
  BY <1>1, <1>2 DEF PxDone
<1>. QED BY <1>1, <1>2, <1>3, <1>4, <1>5, PxCallerStays

(* The unit has sent an address or a byte.                                 *)
LEMMA PxSentInv ==
  ASSUME PxInv, ~ px_torn, PxSent
  PROVE  PxInv'
<1>1. /\ "TB" \in px_icr /\ "SCLE" \in px_icr /\ px_bus \in {"free", "ours"}
      /\ "START" \in px_icr \/ (px_bus = "ours" /\ ~ px_rwm)
      /\ px_rwm' = (IF "START" \in px_icr THEN px_db[1] = "start" /\ px_db[3] ELSE px_rwm)
      /\ px_icr' = px_icr \ {"TB"}
      /\ UNCHANGED <<px_db, px_lost, px_others>> /\ PxRest
  BY DEF PxSent, PxReady
<1>2. PICK error \in {{}, {"BED"}, {"BED", "ACKNAK"}} :
        /\ px_isr' = px_isr \cup {"ITE"} \cup error
        /\ IF error # {} \/ "STOP" \in px_icr
             THEN px_wire' = px_wire \o <<px_db, PxStop>> /\ px_bus' = "free"
             ELSE px_wire' = Append(px_wire, px_db) /\ px_bus' = "ours"
  BY DEF PxSent
<1>3. /\ "TB" \notin px_icr' /\ "SCLE" \in px_icr' /\ ("START" \in px_icr' <=> "START" \in px_icr)
      /\ ("STOP" \in px_icr' <=> "STOP" \in px_icr) /\ ("ACKNAK" \in px_icr' <=> "ACKNAK" \in px_icr)
  BY <1>1
<1>4. /\ "ITE" \in px_isr' /\ ("SAD" \in px_isr' <=> "SAD" \in px_isr) /\ ("SSD" \in px_isr' <=> "SSD" \in px_isr)
      /\ ("IRF" \in px_isr' <=> "IRF" \in px_isr) /\ ("ALD" \in px_isr' <=> "ALD" \in px_isr)
  BY <1>2
<1>5. px_bus' \in {"free", "ours"}
  BY <1>2
<1>6. PxAsSlave'
  <2>1. PxAsSlave
    BY DEF PxInv
  <2>. QED BY <1>1, <1>4, <1>5, <2>1 DEF PxAsSlave
<1>7. UNCHANGED <<px_msg, px_msgs, px_num, px_idx, px_ptr, px_args, px_db, px_lost>> /\ PxThis' = PxThis
  BY <1>1 DEF PxRest, pxCursor, pxCaller, PxThis
<1>8. px_rwm' \in BOOLEAN /\ px_lost' \in BOOLEAN
  BY <1>1 DEF PxInv, PxType
<1>9. ASSUME px_pc = "wait", px_msg # 0 PROVE PxWorking'
  <2>0. /\ px_args \in Seq(PxMessage) /\ px_msg \in 1 .. Len(px_args) /\ px_ptr \in Nat
        /\ PxThis.len \in Nat /\ PxThis.rd \in BOOLEAN /\ PxHead(px_args, px_msg) \in {0, 1}
        /\ PxThis = px_args[px_msg] /\ PxWorking
    BY <1>9, PxPlaceIs
  <2>1. CASE PxAddressedNow
    BY <1>3, <1>4, <2>1 DEF PxWorking, PxAddressedNow
  <2>2. CASE ~ PxAddressedNow
    <3>1. PxAsking
      BY <1>1, <2>0, <2>2 DEF PxWorking, PxMoved, PxDead
    <3>2. "IRF" \notin px_isr' /\ "BED" \notin px_isr /\ ("ALD" \in px_isr => px_lost')
      BY <1>4, <1>7, <3>1 DEF PxAsking
    <3>3. CASE "ALD" \in px_isr
      BY <1>3, <1>4, <3>2, <3>3 DEF PxWorking, PxDead
    <3>4. CASE "ALD" \notin px_isr /\ error # {}
      <4>1. "BED" \in px_isr'
        BY <1>2, <3>4
      <4>2. PxMovedBad'
        BY <1>4, <3>2, <3>4, <4>1 DEF PxMovedBad, PxEmptied
      <4>. QED BY <1>3, <4>1, <4>2 DEF PxWorking, PxMoved
    <3>5. CASE "ALD" \notin px_isr /\ error = {}
      <4>1. "BED" \notin px_isr' /\ PxEmptied'
        BY <1>2, <1>4, <3>2, <3>5 DEF PxEmptied
      <4>2. /\ "STOP" \in px_icr => px_wire' = px_wire \o <<px_db, PxStop>>
            /\ "STOP" \notin px_icr => px_wire' = Append(px_wire, px_db) /\ px_bus' = "ours"
        BY <1>2, <3>5
      <4>3. ASSUME PxAskStart PROVE PxMovedStart'
        <5>1. PxStarting /\ PxAt(0)
          BY <4>3 DEF PxAskStart
        <5>2. "START" \in px_icr /\ "STOP" \notin px_icr /\ px_db = PxAddrByte(PxThis)
          BY <5>1 DEF PxStarting
        <5>3. PxStarting'
          BY <1>3, <1>7, <5>1 DEF PxStarting
        <5>4. px_db[1] = "start" /\ px_db[3] = PxThis.rd
          BY <5>2 DEF PxAddrByte
        <5>5. px_rwm' <=> PxThis.rd
          BY <1>1, <2>0, <5>2, <5>4
        <5>6. PxAt(1)'
          <6>. SUFFICES ASSUME PxServed(px_args) PROVE px_wire' = SoFar(PxParts(px_args), px_msg, 1)
            BY <1>7 DEF PxAt
          <6>1. px_wire = SoFar(PxParts(px_args), px_msg, 0) /\ PxHead(px_args, px_msg) = 1
            BY <5>1 DEF PxAt, PxStarting
          <6>2. px_db = PxPart(px_args, px_msg)[1]
            BY <2>0, <5>2, <6>1, PxPartIs
          <6>3. 1 \in 1 .. PxHead(px_args, px_msg) + px_args[px_msg].len /\ 0 = 1 - 1
            BY <2>0, <6>1
          <6>4. Append(SoFar(PxParts(px_args), px_msg, 0), px_db) = SoFar(PxParts(px_args), px_msg, 1)
            BY <2>0, <6>2, <6>3, PxOneMore
          <6>. QED BY <4>2, <5>2, <6>1, <6>4
        <5>. QED BY <1>7, <4>1, <5>3, <5>5, <5>6 DEF PxMovedStart
      <4>4. ASSUME PxAskSend PROVE PxMovedSend'
        <5>1. px_bus = "ours" /\ PxSending /\ px_db = PxTx(px_msg, px_ptr - 1)
              /\ PxAt(PxHead(px_args, px_msg) + px_ptr - 1)
          BY <4>4 DEF PxAskSend
        <5>2. "START" \notin px_icr /\ ~ px_rwm /\ ~ px_rwm'
          BY <1>1, <5>1 DEF PxSending
        <5>3. PxSending'
          BY <1>3, <1>7, <5>1, <5>2 DEF PxSending
        <5>4. PICK j \in Nat : j = PxHead(px_args, px_msg) + px_ptr
          BY <2>0
        <5>5. ASSUME PxServed(px_args)
              PROVE  px_wire' = IF "STOP" \in px_icr THEN Append(SoFar(PxParts(px_args), px_msg, j), PxStop)
                                                     ELSE SoFar(PxParts(px_args), px_msg, j)
          <6>1. /\ ~ PxThis.rd /\ px_ptr \in 1 .. PxThis.len
                /\ px_wire = SoFar(PxParts(px_args), px_msg, PxHead(px_args, px_msg) + px_ptr - 1)
            BY <2>0, <5>1, <5>5 DEF PxAt, PxSending
          <6>2. px_db = PxPart(px_args, px_msg)[j]
            BY <2>0, <5>1, <5>4, <6>1, PxPartIs
          <6>3. PICK i \in Nat : i = j - 1
            BY <2>0, <5>4, <6>1
          <6>4. j \in 1 .. PxHead(px_args, px_msg) + px_args[px_msg].len
                /\ PxHead(px_args, px_msg) + px_ptr - 1 = i
            BY <2>0, <5>4, <6>1, <6>3
          <6>5. /\ Append(SoFar(PxParts(px_args), px_msg, i), px_db) = SoFar(PxParts(px_args), px_msg, j)
                /\ SoFar(PxParts(px_args), px_msg, i) \o <<px_db, PxStop>>
                     = Append(SoFar(PxParts(px_args), px_msg, j), PxStop)
            BY <2>0, <6>2, <6>3, <6>4, PxOneMore
          <6>6. px_wire = SoFar(PxParts(px_args), px_msg, i)
            BY <6>1, <6>4
          <6>. QED BY <4>2, <6>5, <6>6
        <5>6. IF "STOP" \in px_icr THEN PxEnd(j)' ELSE PxAt(j)'
          BY <1>7, <5>5 DEF PxEnd, PxAt
        <5>7. PxHead(px_args', px_msg') + px_ptr' = j
          BY <1>7, <5>4
        <5>8. IF "STOP" \in px_icr' THEN PxEnd(PxHead(px_args, px_msg) + px_ptr)'
                                    ELSE PxAt(PxHead(px_args, px_msg) + px_ptr)'
          BY <1>3, <5>6, <5>7 DEF PxEnd, PxAt
        <5>. QED BY <4>1, <5>3, <5>8 DEF PxMovedSend
      <4>5. ~ PxAskRead /\ ~ PxAskLost
        BY <1>1 DEF PxAskRead, PxAskLost, PxReading
      <4>6. PxMovedStart' \/ PxMovedSend'
        BY <3>1, <4>3, <4>4, <4>5 DEF PxAsking
      <4>7. "STOP" \notin px_icr' => px_bus' = "ours"
        BY <1>3, <4>2
      <4>. QED BY <1>3, <4>6, <4>7 DEF PxWorking, PxMoved
    <3>. QED BY <3>3, <3>4, <3>5
  <2>. QED BY <2>1, <2>2
<1>. QED BY <1>1, <1>6, <1>8, <1>9, PxWorldIs DEF PxReady

(* The unit has a byte from the slave.                                     *)
LEMMA PxReceivedInv ==
  ASSUME PxInv, ~ px_torn, PxReceived
  PROVE  PxInv'
<1>1. /\ "TB" \in px_icr /\ "SCLE" \in px_icr /\ "START" \notin px_icr /\ px_bus = "ours" /\ px_rwm
      /\ px_isr' = px_isr \cup {"IRF"} /\ px_icr' = px_icr \ {"TB"}
      /\ UNCHANGED <<px_rwm, px_db, px_lost, px_others>> /\ PxRest
  BY DEF PxReceived, PxReady
<1>2. PICK e : e = PxRx("ACKNAK" \notin px_icr)
  OBVIOUS
<1>3. /\ "STOP" \in px_icr => px_wire' = px_wire \o <<e, PxStop>> /\ px_bus' = "free"
      /\ "STOP" \notin px_icr => px_wire' = Append(px_wire, e) /\ px_bus' = "ours"
  BY <1>1, <1>2 DEF PxReceived
<1>4. /\ "TB" \notin px_icr' /\ "SCLE" \in px_icr' /\ ("START" \in px_icr' <=> "START" \in px_icr)
      /\ ("STOP" \in px_icr' <=> "STOP" \in px_icr) /\ ("ACKNAK" \in px_icr' <=> "ACKNAK" \in px_icr)
  BY <1>1
<1>5. /\ "IRF" \in px_isr' /\ ("SAD" \in px_isr' <=> "SAD" \in px_isr) /\ ("SSD" \in px_isr' <=> "SSD" \in px_isr)
      /\ ("ITE" \in px_isr' <=> "ITE" \in px_isr) /\ ("BED" \in px_isr' <=> "BED" \in px_isr)
  BY <1>1
<1>6. PxAsSlave'
  <2>1. PxAsSlave /\ px_bus' # "slave"
    BY <1>3 DEF PxInv
  <2>. QED BY <1>1, <1>5, <2>1 DEF PxAsSlave
<1>7. UNCHANGED <<px_msg, px_msgs, px_num, px_idx, px_ptr, px_args, px_rwm, px_lost>> /\ PxThis' = PxThis
  BY <1>1 DEF PxRest, pxCursor, pxCaller, PxThis
<1>8. px_rwm' \in BOOLEAN /\ px_lost' \in BOOLEAN
  BY <1>7 DEF PxInv, PxType
<1>9. ASSUME px_pc = "wait", px_msg # 0 PROVE PxWorking'
  <2>0. /\ px_args \in Seq(PxMessage) /\ px_msg \in 1 .. Len(px_args) /\ px_ptr \in Nat
        /\ PxThis.len \in Nat /\ PxThis.rd \in BOOLEAN /\ PxHead(px_args, px_msg) \in {0, 1}
        /\ PxThis = px_args[px_msg] /\ PxWorking
    BY <1>9, PxPlaceIs
  <2>1. CASE PxAddressedNow
    BY <1>4, <1>5, <2>1 DEF PxWorking, PxAddressedNow
  <2>2. CASE ~ PxAddressedNow
    <3>1. PxAsking
      BY <1>1, <2>0, <2>2 DEF PxWorking, PxMoved, PxDead
    <3>2. "ITE" \notin px_isr' /\ "BED" \notin px_isr'
      BY <1>5, <3>1 DEF PxAsking
    <3>3. PxAskRead
      BY <1>1, <3>1 DEF PxAsking, PxAskStart, PxAskSend, PxAskLost, PxStarting, PxSending
    <3>4. PxReading /\ PxAt(1 + px_ptr)
      BY <3>3 DEF PxAskRead
    <3>5. PxReading'
      BY <1>4, <1>7, <3>4 DEF PxReading
    <3>6. PICK j \in Nat : j = 2 + px_ptr
      BY <2>0
    <3>7. ASSUME PxServed(px_args)
          PROVE  px_wire' = IF "STOP" \in px_icr THEN Append(SoFar(PxParts(px_args), px_msg, j), PxStop)
                                                 ELSE SoFar(PxParts(px_args), px_msg, j)
      <4>1. /\ PxThis.rd /\ px_ptr < PxThis.len /\ ("ACKNAK" \in px_icr <=> px_ptr + 1 = PxThis.len)
            /\ px_wire = SoFar(PxParts(px_args), px_msg, 1 + px_ptr)
        BY <3>4, <3>7 DEF PxReading, PxAt
      <4>2. PxHead(px_args, px_msg) = 1
        BY <2>0, <3>7, <4>1, PxServedIs
      <4>3. PICK i \in Nat : i = px_ptr + 1
        BY <2>0
      <4>4. /\ i \in 1 .. PxThis.len /\ 1 + i = j /\ 1 + px_ptr = i /\ i = j - 1
            /\ j \in 1 .. PxHead(px_args, px_msg) + px_args[px_msg].len
        BY <2>0, <3>6, <4>1, <4>2, <4>3
      <4>5. PxPart(px_args, px_msg)[j] = PxRx(i # PxThis.len)
        BY <2>0, <4>1, <4>2, <4>4, PxPartIs
      <4>6. e = PxRx(i # PxThis.len)
        <5>1. CASE i = PxThis.len
          <6>1. ("ACKNAK" \notin px_icr) = FALSE /\ (i # PxThis.len) = FALSE
            BY <4>1, <4>3, <5>1
          <6>. QED BY <1>2, <6>1
        <5>2. CASE i # PxThis.len
          <6>1. ("ACKNAK" \notin px_icr) = TRUE /\ (i # PxThis.len) = TRUE
            BY <4>1, <4>3, <5>2
          <6>. QED BY <1>2, <6>1
        <5>. QED BY <5>1, <5>2
      <4>7. e = PxPart(px_args, px_msg)[j]
        BY <4>5, <4>6
      <4>8. /\ Append(SoFar(PxParts(px_args), px_msg, i), e) = SoFar(PxParts(px_args), px_msg, j)
            /\ SoFar(PxParts(px_args), px_msg, i) \o <<e, PxStop>>
                 = Append(SoFar(PxParts(px_args), px_msg, j), PxStop)
        <5>1. j \in 1 .. PxHead(px_args, px_msg) + px_args[px_msg].len /\ i = j - 1
          BY <4>4
        <5>. QED BY <2>0, <4>7, <5>1, PxOneMore
      <4>9. px_wire = SoFar(PxParts(px_args), px_msg, i)
        BY <4>1, <4>4
      <4>. QED BY <1>3, <4>8, <4>9
    <3>8. IF "STOP" \in px_icr THEN PxEnd(j)' ELSE PxAt(j)'
      BY <1>7, <3>7 DEF PxEnd, PxAt
    <3>9. 2 + px_ptr' = j
      BY <1>7, <3>6
    <3>10. IF "STOP" \in px_icr' THEN PxEnd(2 + px_ptr)' ELSE PxAt(2 + px_ptr)'
      BY <1>4, <3>8, <3>9 DEF PxEnd, PxAt
    <3>11. PxMovedRead'
      BY <1>5, <3>2, <3>5, <3>10 DEF PxMovedRead
    <3>12. "STOP" \notin px_icr' => px_bus' = "ours"
      BY <1>3, <1>4
    <3>. QED BY <1>4, <3>11, <3>12 DEF PxWorking, PxMoved
  <2>. QED BY <2>1, <2>2
<1>. QED BY <1>1, <1>6, <1>8, <1>9, PxWorldIs DEF PxReady

(* The bus changes hands, the unit's own registers do not change.          *)
LEMMA PxBusOnly ==
  ASSUME PxInv, ~ px_torn, px_pc = "wait", px_msg # 0, PxRest,
         UNCHANGED <<px_icr, px_isr, px_rwm, px_db, px_wire, px_lost>>,
         px_bus # "slave", px_bus # "ending", px_bus' # "ours",
         px_bus = "ours" => "START" \in px_icr /\ "TB" \in px_icr
  PROVE  PxWorking'
<1>1. UNCHANGED <<px_msg, px_msgs, px_num, px_idx, px_ptr, px_args, px_icr, px_isr, px_rwm, px_db, px_wire, px_lost>>
      /\ PxThis' = PxThis
  BY DEF PxRest, pxCursor, pxCaller, PxThis
<1>2. PxWorking
  BY PxPlaceIs
<1>3. CASE "SCLE" \notin px_icr
  BY <1>1, <1>2, <1>3 DEF PxWorking
<1>4. CASE "SCLE" \in px_icr
  <2>1. PxAddressedNow => PxAddressedNow'
    BY <1>1 DEF PxAddressedNow
  <2>2. PxDead => PxDead'
    BY <1>1 DEF PxDead
  <2>3. ASSUME PxMoved PROVE PxMoved'
    <3>1. PxMovedStart => PxMovedStart'
      BY <1>1 DEF PxMovedStart, PxStarting, PxEmptied, PxAt
    <3>2. PxMovedSend => PxMovedSend'
      <4>1. PxSending => PxSending'
        BY <1>1 DEF PxSending
      <4>. QED BY <1>1, <4>1 DEF PxMovedSend, PxEmptied, PxAt, PxEnd
    <3>3. PxMovedRead => PxMovedRead'
      <4>1. PxReading => PxReading'
        BY <1>1 DEF PxReading
      <4>. QED BY <1>1, <4>1 DEF PxMovedRead, PxAt, PxEnd
    <3>4. PxMovedBad => PxMovedBad'
      BY <1>1 DEF PxMovedBad, PxEmptied
    <3>5. "TB" \notin px_icr /\ px_bus # "ours"
      BY <2>3 DEF PxMoved
    <3>. QED BY <1>1, <2>3, <3>1, <3>2, <3>3, <3>4, <3>5 DEF PxMoved
  <2>4. ASSUME PxAsking PROVE PxAsking'
    <3>1. PxAskStart => PxAskStart'
      BY <1>1 DEF PxAskStart, PxStarting, PxAt
    <3>2. ~ PxAskSend /\ ~ PxAskRead
      BY DEF PxAskSend, PxAskRead, PxSending, PxReading
    <3>3. PxAskLost => PxAskLost'
      BY <1>1 DEF PxAskLost
    <3>. QED BY <1>1, <2>4, <3>1, <3>2, <3>3 DEF PxAsking
  <2>. QED BY <1>1, <1>2, <1>4, <2>1, <2>2, <2>3, <2>4 DEF PxWorking
<1>. QED BY <1>3, <1>4

(* It loses the bus.                                                       *)
LEMMA PxLoseInv ==
  ASSUME PxInv, ~ px_torn, PxLose
  PROVE  PxInv'
<1>1. /\ "TB" \in px_icr /\ "SCLE" \in px_icr /\ px_bus \in {"free", "ours"} /\ px_bus' = "other"
      /\ "START" \in px_icr \/ px_bus = "ours"
      /\ \/ "START" \in px_icr /\ UNCHANGED <<px_isr, px_icr, px_lost>>
         \/ /\ px_isr' = px_isr \cup {"ALD"} /\ px_lost' = TRUE
            /\ px_icr' \in {px_icr} \cup {px_icr \ {"TB"}}
      /\ UNCHANGED <<px_rwm, px_db, px_wire>> /\ PxRest
  BY DEF PxLose, PxReady
<1>2. /\ "SCLE" \in px_icr' /\ ("START" \in px_icr' <=> "START" \in px_icr)
      /\ ("STOP" \in px_icr' <=> "STOP" \in px_icr) /\ ("ACKNAK" \in px_icr' <=> "ACKNAK" \in px_icr)
  BY <1>1
<1>3. /\ ("SAD" \in px_isr' <=> "SAD" \in px_isr) /\ ("SSD" \in px_isr' <=> "SSD" \in px_isr)
      /\ ("ITE" \in px_isr' <=> "ITE" \in px_isr) /\ ("BED" \in px_isr' <=> "BED" \in px_isr)
      /\ ("IRF" \in px_isr' <=> "IRF" \in px_isr)
  BY <1>1
<1>4. PxAsSlave'
  <2>1. PxAsSlave
    BY DEF PxInv
  <2>. QED BY <1>1, <1>3, <2>1 DEF PxAsSlave
<1>5. UNCHANGED <<px_msg, px_msgs, px_num, px_idx, px_ptr, px_args, px_db, px_rwm, px_wire>> /\ PxThis' = PxThis
  BY <1>1 DEF PxRest, pxCursor, pxCaller, PxThis
<1>6. px_rwm' \in BOOLEAN /\ px_lost' \in BOOLEAN
  BY <1>1 DEF PxInv, PxType
<1>7. ASSUME px_pc = "wait", px_msg # 0 PROVE PxWorking'
  <2>1. CASE "START" \in px_icr /\ UNCHANGED <<px_isr, px_icr, px_lost>>
    <3>1. UNCHANGED <<px_icr, px_isr, px_rwm, px_db, px_wire, px_lost>>
      BY <1>1, <2>1
    <3>. QED BY <1>1, <1>7, <2>1, <3>1, PxBusOnly
  <2>2. CASE px_isr' = px_isr \cup {"ALD"} /\ px_lost' = TRUE /\ px_icr' \in {px_icr} \cup {px_icr \ {"TB"}}
    <3>0. PxWorking /\ "ALD" \in px_isr' /\ px_lost'
      BY <1>7, <2>2, PxPlaceIs
    <3>1. CASE PxAddressedNow
      BY <1>2, <1>3, <3>1 DEF PxWorking, PxAddressedNow
    <3>2. CASE ~ PxAddressedNow
      <4>1. PxAsking
        BY <1>1, <3>0, <3>2 DEF PxWorking, PxMoved, PxDead
      <4>2. "ITE" \notin px_isr' /\ "IRF" \notin px_isr' /\ "BED" \notin px_isr'
        BY <1>3, <4>1 DEF PxAsking
      <4>3. CASE "TB" \notin px_icr'
        BY <1>2, <3>0, <4>2, <4>3 DEF PxWorking, PxDead
      <4>4. CASE "TB" \in px_icr'
        <5>1. PxAskStart => PxAskStart'
          BY <1>2, <1>5 DEF PxAskStart, PxStarting, PxAt
        <5>2. "START" \notin px_icr => PxAskLost'
          BY <1>1, <1>2, <3>0 DEF PxAskLost
        <5>3. "START" \in px_icr => PxAskStart
          BY <4>1 DEF PxAsking, PxAskSend, PxAskRead, PxAskLost, PxSending, PxReading
        <5>. QED BY <1>2, <3>0, <4>2, <4>4, <5>1, <5>2, <5>3 DEF PxWorking, PxAsking
      <4>. QED BY <4>3, <4>4
    <3>. QED BY <3>1, <3>2
  <2>. QED BY <1>1, <2>1, <2>2
<1>. QED BY <1>1, <1>4, <1>6, <1>7, PxWorldIs DEF PxReady

(* Other masters take the bus, address the unit and leave.                 *)
LEMMA PxOthersInv ==
  ASSUME PxInv, ~ px_torn, PxTaken \/ PxAddressed \/ PxSlaveMoved \/ PxLetGo
  PROVE  PxInv'
<1>0. PxAsSlave /\ px_rwm \in BOOLEAN /\ px_lost \in BOOLEAN
      /\ (px_pc = "wait" /\ px_msg # 0 => PxWorking)
  BY PxPlaceIs DEF PxInv, PxType
<1>1. CASE PxTaken
  <2>1. /\ px_bus = "free" /\ px_bus' = "other" /\ PxRest
        /\ UNCHANGED <<px_icr, px_isr, px_rwm, px_db, px_wire, px_lost>>
    BY <1>1 DEF PxTaken
  <2>2. PxAsSlave'
    BY <1>0, <2>1 DEF PxAsSlave
  <2>3. px_pc = "wait" /\ px_msg # 0 => PxWorking'
    BY <2>1, PxBusOnly
  <2>. QED BY <1>0, <2>1, <2>2, <2>3, PxWorldIs DEF PxReady
<1>2. CASE PxAddressed
  <2>1. /\ px_bus = "other" /\ px_bus' = "slave" /\ px_isr' = px_isr \cup {"SAD"} /\ px_rwm' \in BOOLEAN
        /\ UNCHANGED <<px_icr, px_db, px_wire, px_lost>> /\ PxRest
    BY <1>2 DEF PxAddressed
  <2>2. "SAD" \in px_isr'
    BY <2>1
  <2>3. PxAsSlave'
    BY <2>1, <2>2 DEF PxAsSlave
  <2>4. PxWorking'
    BY <2>1, <2>2 DEF PxWorking, PxAddressedNow
  <2>. QED BY <1>0, <2>1, <2>3, <2>4, PxWorldIs DEF PxReady
<1>3. CASE PxSlaveMoved
  <2>1. /\ px_bus = "slave" /\ "SAD" \notin px_isr /\ px_icr' = px_icr \ {"TB"}
        /\ IF px_rwm
             THEN \/ px_isr' = px_isr \cup {"ITE"} /\ UNCHANGED px_bus
                  \/ px_isr' = px_isr \cup {"ITE", "BED"} /\ px_bus' = "ending"
             ELSE px_isr' = px_isr \cup {"IRF"} /\ UNCHANGED px_bus
        /\ UNCHANGED <<px_rwm, px_db, px_wire, px_lost>> /\ PxRest
    BY <1>3 DEF PxSlaveMoved
  <2>2. "SCLE" \notin px_icr /\ "SSD" \notin px_isr /\ "BED" \notin px_isr
    BY <1>0, <2>1 DEF PxAsSlave
  <2>3. "SCLE" \notin px_icr' /\ "SAD" \notin px_isr'
    BY <2>1, <2>2
  <2>4. \/ px_bus' = "ending"
        \/ px_bus' = "slave" /\ "SSD" \notin px_isr' /\ "BED" \notin px_isr' /\ ("ITE" \in px_isr' \/ "IRF" \in px_isr')
    BY <2>1, <2>2
  <2>5. PxAsSlave'
    BY <2>3, <2>4 DEF PxAsSlave
  <2>6. PxWorking'
    BY <2>3, <2>4 DEF PxWorking
  <2>. QED BY <1>0, <2>1, <2>2, <2>3, <2>5, <2>6, PxWorldIs DEF PxReady
<1>4. CASE PxLetGo
  <2>1. /\ px_bus \in {"other", "slave", "ending"} /\ px_bus' = "free"
        /\ px_isr' = (IF px_bus = "other" THEN px_isr ELSE px_isr \cup {"SSD"})
        /\ UNCHANGED <<px_icr, px_rwm, px_db, px_wire, px_lost>> /\ PxRest
    BY <1>4 DEF PxLetGo
  <2>2. CASE px_bus = "other"
    <3>1. UNCHANGED <<px_icr, px_isr, px_rwm, px_db, px_wire, px_lost>>
      BY <2>1, <2>2
    <3>2. PxAsSlave'
      BY <1>0, <2>1, <2>2, <3>1 DEF PxAsSlave
    <3>3. px_pc = "wait" /\ px_msg # 0 => PxWorking'
      BY <2>1, <2>2, <3>1, PxBusOnly
    <3>. QED BY <1>0, <2>1, <3>1, <3>2, <3>3, PxWorldIs DEF PxReady
  <2>3. CASE px_bus # "other"
    <3>1. "SSD" \in px_isr'
      BY <2>1, <2>3
    <3>2. PxAsSlave'
      BY <2>1, <3>1 DEF PxAsSlave
    <3>3. PxWorking'
      BY <3>1 DEF PxWorking, PxAddressedNow
    <3>. QED BY <1>0, <2>1, <3>2, <3>3, PxWorldIs DEF PxReady
  <2>. QED BY <2>2, <2>3
<1>. QED BY <1>1, <1>2, <1>3, <1>4

-----------------------------------------------------------------------------
(* The handler, as slave.                                                  *)
LEMMA PxSlaveBytesIs ==
  ASSUME NEW icr
  PROVE  /\ "SCLE" \in PxSlaveBytes(icr) <=> "SCLE" \in icr
         /\ "TB" \in icr => "TB" \in PxSlaveBytes(icr)
         /\ "IRF" \in px_isr \/ ("ITE" \in px_isr /\ "BED" \notin px_isr) => "TB" \in PxSlaveBytes(icr)
<1>1. CASE "IRF" \in px_isr \/ {"ITE", "BED"} \cap px_isr = {"ITE"}
  <2>1. PxSlaveBytes(icr) = icr \cup {"TB"}
    BY <1>1 DEF PxSlaveBytes
  <2>. QED BY <2>1
<1>2. CASE ~ ("IRF" \in px_isr \/ {"ITE", "BED"} \cap px_isr = {"ITE"})
  <2>1. PxSlaveBytes(icr) = icr
    BY <1>2 DEF PxSlaveBytes
  <2>2. ~ ("ITE" \in px_isr /\ "BED" \notin px_isr)
    BY <1>2
  <2>. QED BY <1>2, <2>1, <2>2
<1>. QED BY <1>1, <1>2

(* The handler is addressed as a slave.                                    *)
LEMMA PxSlaveStartInv ==
  ASSUME PxInv, ~ px_torn, PxSlaveStart
  PROVE  PxInv'
<1>1. /\ "SAD" \in px_isr /\ "SSD" \notin px_isr /\ px_isr' = {}
      /\ UNCHANGED <<px_rwm, px_bus, px_lost, px_wire>> /\ PxRest
  BY DEF PxSlaveStart, PxKeep, PxRest, pxRecord
<1>2. PICK icr : icr = (px_icr \ {"START", "STOP", "SCLE"}) \cup {"TB"}
  OBVIOUS
<1>3. px_icr' = PxSlaveBytes(icr) /\ "SCLE" \notin icr /\ "TB" \in icr
  BY <1>2 DEF PxSlaveStart
<1>4. "SCLE" \notin px_icr' /\ "TB" \in px_icr'
  BY <1>3, PxSlaveBytesIs
<1>5. px_bus = "slave"
  BY <1>1 DEF PxInv, PxAsSlave
<1>6. PxAsSlave'
  BY <1>1, <1>4 DEF PxAsSlave
<1>7. PxWorking'
  BY <1>1, <1>4, <1>5 DEF PxWorking
<1>8. px_rwm' \in BOOLEAN /\ px_lost' \in BOOLEAN
  BY <1>1 DEF PxInv, PxType
<1>. QED BY <1>1, <1>4, <1>6, <1>7, <1>8, PxWorldIs DEF PxReady

(* It gives or takes a byte as a slave.                                    *)
LEMMA PxSlaveByteInv ==
  ASSUME PxInv, ~ px_torn, PxSlaveByte
  PROVE  PxInv'
<1>1. /\ "SAD" \notin px_isr /\ "SSD" \notin px_isr /\ px_isr' = {}
      /\ "SCLE" \notin px_icr \/ px_msg = 0
      /\ px_icr' = (IF "SCLE" \notin px_icr THEN PxSlaveBytes(px_icr) ELSE px_icr)
      /\ UNCHANGED <<px_rwm, px_bus, px_lost, px_wire>> /\ PxRest
  BY DEF PxSlaveByte, PxKeep, PxRest, pxRecord
<1>2. "SCLE" \in px_icr' <=> "SCLE" \in px_icr
  BY <1>1, PxSlaveBytesIs
<1>3. PxAsSlave'
  <2>. SUFFICES ASSUME px_bus = "slave" PROVE "SCLE" \notin px_icr' /\ "TB" \in px_icr'
    BY <1>1 DEF PxAsSlave
  <2>1. "SCLE" \notin px_icr /\ "BED" \notin px_isr /\ ("TB" \in px_icr \/ "ITE" \in px_isr \/ "IRF" \in px_isr)
    BY <1>1 DEF PxInv, PxAsSlave
  <2>. QED BY <1>1, <2>1, PxSlaveBytesIs
<1>4. px_pc = "wait" /\ px_msg # 0 => PxWorking'
  <2>. SUFFICES ASSUME px_pc = "wait", px_msg # 0 PROVE PxWorking'
    OBVIOUS
  <2>1. PxWorking
    BY PxPlaceIs
  <2>. QED BY <1>1, <1>2, <2>1 DEF PxWorking
<1>5. px_rwm' \in BOOLEAN /\ px_lost' \in BOOLEAN
  BY <1>1 DEF PxInv, PxType
<1>6. PxReady \/ ~ PxReady'
  BY <1>1, <1>2 DEF PxReady
<1>. QED BY <1>1, <1>3, <1>4, <1>5, <1>6, PxWorldIs

(* The message comes to its end, whatever that is.                         *)
LEMMA PxCompletes ==
  ASSUME PxInv, ~ px_torn, PxSame, PxAsSlave', UNCHANGED <<px_rwm, px_lost>>, px_msg # 0,
         px_msg' = 0, px_num' = 0,
         px_pc = "wait" /\ px_idx' = Len(px_args) => PxDone'
  PROVE  PxInv'
<1>1. px_num # 0 /\ px_rwm \in BOOLEAN /\ px_lost \in BOOLEAN
  BY DEF PxInv, PxCalled, PxType
<1>2. ~ PxDone
  BY <1>1 DEF PxDone
<1>. QED BY <1>1, <1>2, PxCallerStays

(* It hears the stop as a slave.                                           *)
LEMMA PxSlaveStopInv ==
  ASSUME PxInv, ~ px_torn, PxSlaveStop
  PROVE  PxInv'
<1>1. /\ "SSD" \in px_isr /\ px_isr' = {}
      /\ px_icr' = IF "SAD" \in px_isr
                    THEN PxSlaveBytes((px_icr \ {"START", "STOP", "SCLE"}) \cup {"TB"})
                    ELSE IF "SCLE" \notin px_icr THEN PxSlaveBytes(px_icr) ELSE px_icr
      /\ UNCHANGED <<px_rwm, px_bus, px_lost, px_wire, px_stored>> /\ PxSame
  BY DEF PxSlaveStop, PxKeep, pxRecord, PxSame
<1>2. PICK icr : icr = (px_icr \ {"START", "STOP", "SCLE"}) \cup {"TB"}
  OBVIOUS
<1>3. "SCLE" \notin icr /\ "TB" \in icr
  BY <1>2
<1>4. /\ "SAD" \in px_isr => "SCLE" \notin px_icr' /\ "TB" \in px_icr'
      /\ "SCLE" \notin px_icr => "SCLE" \notin px_icr'
  BY <1>1, <1>2, <1>3, PxSlaveBytesIs
<1>5. "SCLE" \in px_icr /\ "SAD" \notin px_isr => px_icr' = px_icr
  BY <1>1
<1>6. PxAsSlave'
  <2>1. px_bus = "slave" => "SAD" \in px_isr
    BY <1>1 DEF PxInv, PxAsSlave
  <2>. QED BY <1>1, <1>4, <2>1 DEF PxAsSlave
<1>7. CASE px_msg # 0
  <2>1. px_msg' = 0 /\ px_num' = 0 /\ px_idx' = I2C_RETRY
    BY <1>7 DEF PxSlaveStop, PxComplete, I2C_RETRY
  <2>2. px_pc = "wait" => px_idx' # Len(px_args)
    <3>. SUFFICES ASSUME px_pc = "wait" PROVE px_idx' # Len(px_args)
      OBVIOUS
    <3>1. Len(px_args) \in Nat
      BY <1>7, PxPlaceIs
    <3>. QED BY <2>1, <3>1 DEF I2C_RETRY
  <2>. QED BY <1>1, <1>6, <1>7, <2>1, <2>2, PxCompletes
<1>8. CASE px_msg = 0
  <2>1. PxRest
    BY <1>1, <1>8 DEF PxSlaveStop, PxRest, PxSame
  <2>2. PxReady \/ ~ PxReady'
    BY <1>4, <1>5 DEF PxReady
  <2>3. px_rwm' \in BOOLEAN /\ px_lost' \in BOOLEAN
    BY <1>1 DEF PxInv, PxType
  <2>. QED BY <1>1, <1>6, <1>8, <2>1, <2>2, <2>3, PxWorldIs
<1>. QED BY <1>7, <1>8

-----------------------------------------------------------------------------
(* The handler, as master.                                                 *)
LEMMA PxMasterIs ==
  ASSUME PxInv, ~ px_torn, PxMaster
  PROVE  /\ "SAD" \notin px_isr /\ "SSD" \notin px_isr /\ "SCLE" \in px_icr /\ px_msg # 0 /\ px_isr' = {}
         /\ px_bus # "slave" /\ px_num # 0
         /\ px_pc = "wait" => PxAsking \/ PxMoved \/ PxDead
         /\ px_bus' # "slave" => PxAsSlave'
<1>1. "SAD" \notin px_isr /\ "SSD" \notin px_isr /\ "SCLE" \in px_icr /\ px_msg # 0 /\ px_isr' = {}
  BY DEF PxMaster
<1>2. px_bus # "slave" /\ px_num # 0
  BY <1>1 DEF PxInv, PxAsSlave, PxCalled
<1>3. px_pc = "wait" => PxWorking
  BY <1>1, PxPlaceIs
<1>4. px_bus' # "slave" => PxAsSlave'
  BY <1>1 DEF PxAsSlave
<1>. QED BY <1>1, <1>2, <1>3, <1>4 DEF PxWorking, PxAddressedNow

(* What the handler leaves of ICR before it says what is to be done next.  *)
LEMMA PxBaseIs ==
  /\ "SCLE" \in PxBase <=> "SCLE" \in px_icr
  /\ "START" \notin PxBase /\ "STOP" \notin PxBase /\ "ACKNAK" \notin PxBase /\ "TB" \notin PxBase
BY DEF PxBase

(* The handler finds nothing for it to do.                                 *)
LEMMA PxIgnoredInv ==
  ASSUME PxInv, ~ px_torn, PxIgnored
  PROVE  PxInv'
<1>0. /\ PxMaster /\ "ALD" \in px_isr /\ "IRF" \notin px_isr
      /\ UNCHANGED <<px_icr, px_db, px_wire, px_rwm, px_bus, px_lost>> /\ PxRest
  BY DEF PxIgnored, PxKeep, PxRest, pxRecord
<1>1. /\ "SCLE" \in px_icr /\ px_msg # 0 /\ px_isr' = {} /\ px_bus # "slave"
      /\ (px_pc = "wait" => PxAsking \/ PxMoved \/ PxDead) /\ PxAsSlave'
  BY <1>0, PxMasterIs
<1>2. UNCHANGED <<px_msg, px_num, px_args, px_ptr>> /\ PxThis' = PxThis
  BY <1>0 DEF PxRest, pxCursor, pxCaller, PxThis
<1>3. px_pc = "wait" => PxWorking'
  <2>. SUFFICES ASSUME px_pc = "wait" PROVE PxWorking'
    OBVIOUS
  <2>1. ~ PxMoved
    BY <1>0 DEF PxMoved, PxMovedStart, PxMovedSend, PxMovedRead, PxMovedBad, PxEmptied
  <2>2. CASE PxDead
    <3>1. PxDead'
      BY <1>0, <1>1, <2>2 DEF PxDead
    <3>. QED BY <1>0, <1>1, <3>1 DEF PxWorking
  <2>3. CASE PxAsking
    <3>1. PxAskStart => PxAskStart'
      BY <1>0, <1>2 DEF PxAskStart, PxStarting, PxAt
    <3>2. PxAskSend => PxAskSend'
      <4>1. PxSending => PxSending'
        BY <1>0, <1>2 DEF PxSending
      <4>. QED BY <1>0, <1>2, <4>1 DEF PxAskSend, PxAt
    <3>3. PxAskRead => PxAskRead'
      <4>1. PxReading => PxReading'
        BY <1>0, <1>2 DEF PxReading
      <4>. QED BY <1>0, <1>2, <4>1 DEF PxAskRead, PxAt
    <3>4. PxAskLost => PxAskLost'
      BY <1>0 DEF PxAskLost
    <3>5. PxAsking'
      BY <1>0, <1>1, <2>3, <3>1, <3>2, <3>3, <3>4 DEF PxAsking
    <3>. QED BY <1>0, <1>1, <3>5 DEF PxWorking
  <2>. QED BY <1>1, <2>1, <2>2, <2>3
<1>4. px_rwm' \in BOOLEAN /\ px_lost' \in BOOLEAN
  BY <1>0 DEF PxInv, PxType
<1>. QED BY <1>0, <1>1, <1>3, <1>4, PxWorldIs

(* The slave has refused a byte.                                           *)
LEMMA PxRefusedInv ==
  ASSUME PxInv, ~ px_torn, PxRefused
  PROVE  PxInv'
<1>1. /\ PxMaster /\ px_msg' = 0 /\ px_num' = 0 /\ px_idx' < 0
      /\ UNCHANGED <<px_rwm, px_lost, px_bus>> /\ PxSame
  <2>1. PICK r \in {BUS_ERROR, I2C_RETRY, XFER_NAKED} : PxComplete(r, px_idx)
    BY DEF PxRefused
  <2>2. px_idx' = r
    BY <2>1 DEF PxComplete, BUS_ERROR, I2C_RETRY, XFER_NAKED
  <2>3. px_idx' < 0
    BY <2>1, <2>2 DEF BUS_ERROR, I2C_RETRY, XFER_NAKED
  <2>. QED BY <2>1, <2>3 DEF PxRefused, PxTxEmpty, PxComplete, PxKeep, PxSame
<1>2. px_msg # 0 /\ px_bus # "slave" /\ (px_bus' # "slave" => PxAsSlave')
  BY <1>1, PxMasterIs
<1>3. px_pc = "wait" => px_idx' # Len(px_args)
  <2>. SUFFICES ASSUME px_pc = "wait" PROVE px_idx' # Len(px_args)
    OBVIOUS
  <2>1. Len(px_args) \in Nat
    BY <1>2, PxPlaceIs
  <2>. QED BY <1>1, <2>1
<1>. QED BY <1>1, <1>2, <1>3, PxCompletes

(* A byte that was taken: a start's, or one of the message.                *)
LEMMA PxTakenIs ==
  ASSUME PxInv, ~ px_torn, PxTxEmpty, "BED" \notin px_isr, px_pc = "wait"
  PROVE  /\ PxMovedStart \/ PxMovedSend
         /\ "STOP" \notin px_icr => px_bus = "ours"
         /\ "SCLE" \in px_icr /\ px_msg # 0 /\ px_isr' = {} /\ PxMaster
<1>1. PxMaster /\ "ITE" \in px_isr /\ "ALD" \notin px_isr
  BY DEF PxTxEmpty
<1>2. (PxAsking \/ PxMoved \/ PxDead) /\ "SCLE" \in px_icr /\ px_msg # 0 /\ px_isr' = {}
  BY <1>1, PxMasterIs
<1>3. ~ PxAsking /\ ~ PxDead
  BY <1>1 DEF PxAsking, PxDead
<1>4. ~ PxMovedRead /\ ~ PxMovedBad
  BY <1>1 DEF PxMovedRead, PxMovedBad
<1>. QED BY <1>1, <1>2, <1>3, <1>4 DEF PxMoved

(* A read's address is out: the handler asks for the first byte.           *)
LEMMA PxReadFirstInv ==
  ASSUME PxInv, ~ px_torn, PxReadFirst
  PROVE  PxInv'
<1>0. /\ PxTxEmpty /\ PxMaster /\ "BED" \notin px_isr /\ px_rwm
      /\ px_icr' = PxBase \cup {"ALDIE", "TB"} \cup
           IF px_ptr = px_msgs[px_msg].len - 1 /\ PxLast(px_msg) THEN {"STOP", "ACKNAK"} ELSE {}
      /\ UNCHANGED <<px_db, px_wire, px_rwm, px_bus, px_lost>> /\ PxRest
  BY DEF PxReadFirst, PxTxEmpty, PxKeep, PxRest, pxRecord
<1>1. px_msg # 0 /\ px_bus # "slave" /\ PxAsSlave' /\ px_isr' = {} /\ "SCLE" \in px_icr
  BY <1>0, PxMasterIs
<1>2. UNCHANGED <<px_msg, px_num, px_args, px_ptr>> /\ PxThis' = PxThis
  BY <1>0 DEF PxRest, pxCursor, pxCaller, PxThis
<1>3. /\ "SCLE" \in px_icr' /\ "TB" \in px_icr' /\ "START" \notin px_icr'
      /\ "STOP" \in px_icr' <=> px_ptr = px_msgs[px_msg].len - 1 /\ PxLast(px_msg)
      /\ "ACKNAK" \in px_icr' <=> px_ptr = px_msgs[px_msg].len - 1 /\ PxLast(px_msg)
  BY <1>0, <1>1, PxBaseIs
<1>4. px_pc = "wait" => PxWorking'
  <2>. SUFFICES ASSUME px_pc = "wait" PROVE PxWorking'
    OBVIOUS
  <2>0. /\ px_args \in Seq(PxMessage) /\ px_msg \in 1 .. Len(px_args) /\ px_ptr \in Nat
        /\ px_num = Len(px_args) /\ PxThis.len \in Nat /\ PxThis.rd \in BOOLEAN
        /\ PxThis = px_args[px_msg] /\ PxThis = px_msgs[px_msg]
    BY <1>1, PxPlaceIs
  <2>1. PxMovedStart /\ px_bus = "ours"
    <3>1. (PxMovedStart \/ PxMovedSend) /\ ("STOP" \notin px_icr => px_bus = "ours")
      BY <1>0, PxTakenIs
    <3>2. ~ PxMovedSend
      BY <1>0 DEF PxMovedSend, PxSending
    <3>. QED BY <3>1, <3>2 DEF PxMovedStart, PxStarting
  <2>2. px_ptr = 0 /\ PxThis.rd /\ PxAt(1)
    BY <1>0, <2>1 DEF PxMovedStart, PxStarting
  <2>3. "STOP" \in px_icr' <=> PxThis.len = 1 /\ px_msg = px_num
    BY <1>3, <2>0, <2>2 DEF PxLast
  <2>4. "ACKNAK" \in px_icr' <=> PxThis.len = 1 /\ px_msg = px_num
    BY <1>3, <2>0, <2>2 DEF PxLast
  <2>5. PxServed(px_args) => px_msg = px_num /\ PxThis.len > 0
    BY <2>0, <2>2, PxServedIs
  <2>6. PxReading'
    <3>1. px_ptr' = 0 /\ px_rwm' /\ "START" \notin px_icr'
      BY <1>0, <1>2, <1>3, <2>2
    <3>2. "STOP" \in px_icr' => px_ptr' + 1 = PxThis'.len
      BY <1>2, <2>2, <2>3
    <3>3. ASSUME PxServed(px_args)
          PROVE  /\ PxThis'.rd /\ px_ptr' < PxThis'.len
                 /\ px_ptr' + 1 = PxThis'.len => "STOP" \in px_icr'
                 /\ ("ACKNAK" \in px_icr' <=> px_ptr' + 1 = PxThis'.len)
      BY <1>2, <2>0, <2>2, <2>3, <2>4, <2>5, <3>3
    <3>. QED BY <1>2, <3>1, <3>2, <3>3 DEF PxReading
  <2>7. PxAt(1 + px_ptr)'
    <3>1. 1 + px_ptr' = 1
      BY <1>2, <2>2
    <3>2. PxAt(1)'
      BY <1>0, <1>2, <2>2 DEF PxAt
    <3>. QED BY <3>1, <3>2 DEF PxAt
  <2>8. PxAskRead'
    BY <1>0, <2>1, <2>6, <2>7 DEF PxAskRead
  <2>9. PxAsking'
    BY <1>1, <1>3, <2>8 DEF PxAsking
  <2>. QED BY <1>3, <2>9 DEF PxWorking
<1>5. px_rwm' \in BOOLEAN /\ px_lost' \in BOOLEAN
  BY <1>0 DEF PxInv, PxType
<1>. QED BY <1>0, <1>1, <1>4, <1>5, PxWorldIs

(* What has been written of the message.                                   *)
PxHasWritten ==
  /\ "STOP" \notin px_icr => px_bus = "ours"
  /\ "STOP" \in px_icr => px_ptr = PxThis.len /\ px_msg = px_num /\ px_ptr # 0
  /\ PxServed(px_args) => /\ ~ PxThis.rd /\ px_ptr <= PxThis.len
                          /\ px_ptr = PxThis.len /\ px_msg = px_num /\ px_ptr # 0 => "STOP" \in px_icr
  /\ IF "STOP" \in px_icr THEN PxEnd(PxHead(px_args, px_msg) + px_ptr)
                          ELSE PxAt(PxHead(px_args, px_msg) + px_ptr)

(* The handler writes: what is on the bus.                                 *)
LEMMA PxWritesIs ==
  ASSUME PxInv, ~ px_torn, PxWrites, px_pc = "wait"
  PROVE  PxHasWritten
<1>1. (PxMovedStart \/ PxMovedSend) /\ ("STOP" \notin px_icr => px_bus = "ours") /\ ~ px_rwm /\ px_msg # 0
  BY PxTakenIs DEF PxWrites
<1>2. PxThis.len \in Nat /\ px_ptr \in Nat /\ PxHead(px_args, px_msg) \in {0, 1}
  BY <1>1, PxPlaceIs
<1>3. CASE PxMovedSend
  BY <1>1, <1>2, <1>3 DEF PxHasWritten, PxMovedSend, PxSending
<1>4. CASE PxMovedStart
  <2>1. /\ "STOP" \notin px_icr /\ px_ptr = 0 /\ ~ PxThis.rd /\ PxAt(1)
        /\ PxServed(px_args) => PxHead(px_args, px_msg) = 1
    BY <1>1, <1>4 DEF PxMovedStart, PxStarting
  <2>2. PxAt(PxHead(px_args, px_msg) + px_ptr)
    <3>. SUFFICES ASSUME PxServed(px_args)
                  PROVE  px_wire = SoFar(PxParts(px_args), px_msg, PxHead(px_args, px_msg) + px_ptr)
      BY DEF PxAt
    <3>1. PxHead(px_args, px_msg) + px_ptr = 1
      BY <2>1
    <3>2. px_wire = SoFar(PxParts(px_args), px_msg, 1)
      BY <2>1 DEF PxAt
    <3>. QED BY <3>1, <3>2
  <2>3. px_ptr <= PxThis.len
    BY <1>2, <2>1
  <2>. QED BY <1>1, <2>1, <2>2, <2>3 DEF PxHasWritten
<1>. QED BY <1>1, <1>3, <1>4

(* The handler goes on with byte p of message k.                           *)
LEMMA PxSends ==
  ASSUME PxInv, ~ px_torn, PxWrites, NEW k \in Nat \ {0}, NEW p, PxSend(k, p),
         px_pc = "wait" =>
           /\ p \in Nat /\ k \in 1 .. Len(px_args) /\ p < px_args[k].len /\ px_bus = "ours"
           /\ PxServed(px_args) => /\ ~ px_args[k].rd
                                   /\ px_wire = SoFar(PxParts(px_args), k, PxHead(px_args, k) + p)
                                   /\ px_stored \in Seq(Nat \X Nat) /\ Len(px_stored) = 0
  PROVE  PxInv'
<1>0. /\ PxMaster /\ px_db' = PxTx(k, p) /\ px_msg' = k /\ px_idx' = k - 1 /\ px_ptr' = p + 1
      /\ px_icr' = PxBase \cup {"ALDIE", "TB"} \cup IF p + 1 = px_msgs[k].len /\ PxLast(k) THEN {"STOP"} ELSE {}
      /\ UNCHANGED <<px_msgs, px_num, px_wire, px_stored, px_rwm, px_bus, px_lost>> /\ PxSame
      /\ UNCHANGED <<px_args, px_pc>> /\ ~ px_rwm
  BY DEF PxSend, PxWrites, PxTxEmpty, PxKeep, PxSame, pxRecord, pxCaller
<1>1. px_msg # 0 /\ px_bus # "slave" /\ px_num # 0 /\ PxAsSlave' /\ px_isr' = {} /\ "SCLE" \in px_icr
  BY <1>0, PxMasterIs
<1>2. /\ "SCLE" \in px_icr' /\ "TB" \in px_icr' /\ "START" \notin px_icr'
      /\ "STOP" \in px_icr' <=> p + 1 = px_msgs[k].len /\ PxLast(k)
  BY <1>0, <1>1, PxBaseIs
<1>3. ASSUME px_pc = "wait" PROVE PxOn' /\ px_idx' # Len(px_args)
  <2>0. /\ px_args \in Seq(PxMessage) /\ Len(px_args) \in Nat /\ px_num = Len(px_args) /\ px_msgs = px_args
    BY <1>1, <1>3, PxPlaceIs
  <2>1. p \in Nat /\ k \in 1 .. Len(px_args) /\ p < px_args[k].len /\ px_bus = "ours"
    BY <1>3
  <2>2. px_args[k].len \in Nat /\ PxHead(px_args, k) \in {0, 1}
    BY <2>0, <2>1, PxPartIs DEF PxHead
  <2>3. PxThis' = px_args[k]
    BY <1>0 DEF PxThis
  <2>4. "STOP" \in px_icr' <=> p + 1 = px_args[k].len /\ k = px_num
    BY <1>2, <2>0 DEF PxLast
  <2>5. PxPlace'
    <3>1. PxServed(px_args) => PxPlaced(px_stored', k, IF px_args[k].rd THEN p + 1 ELSE 0)
      <4>. SUFFICES ASSUME PxServed(px_args) PROVE PxPlaced(px_stored', k, IF px_args[k].rd THEN p + 1 ELSE 0)
        OBVIOUS
      <4>1. ~ px_args[k].rd /\ px_stored' = px_stored /\ px_stored \in Seq(Nat \X Nat) /\ Len(px_stored) = 0
        BY <1>0, <1>3
      <4>2. PxPlaced(px_stored', k, 0)
        BY <4>1 DEF PxPlaced
      <4>. QED BY <4>1, <4>2
    <3>2. PxKeeps(px_args, px_msg, px_ptr, px_stored)'
      BY <1>0, <3>1 DEF PxKeeps
    <3>3. px_ptr' \in Nat
      BY <1>0, <2>1
    <3>. QED BY <1>0, <2>0, <2>1, <3>2, <3>3 DEF PxPlace
  <2>6. PxSending'
    <3>1. px_ptr' \in Nat \ {0} /\ ~ px_rwm' /\ "START" \notin px_icr'
      BY <1>0, <1>2, <2>1
    <3>2. "STOP" \in px_icr' => px_ptr' = PxThis'.len /\ px_msg' = px_num'
      BY <1>0, <2>3, <2>4
    <3>3. ASSUME PxServed(px_args)
          PROVE  /\ ~ PxThis'.rd /\ px_ptr' <= PxThis'.len
                 /\ px_ptr' = PxThis'.len /\ px_msg' = px_num' => "STOP" \in px_icr'
      <4>1. ~ px_args[k].rd
        BY <1>3, <3>3
      <4>2. p + 1 <= px_args[k].len
        BY <2>1, <2>2
      <4>. QED BY <1>0, <2>3, <2>4, <4>1, <4>2
    <3>. QED BY <1>0, <3>1, <3>2, <3>3 DEF PxSending
  <2>7. PxAt(PxHead(px_args, px_msg) + px_ptr - 1)'
    <3>. SUFFICES ASSUME PxServed(px_args)
                  PROVE  px_wire' = SoFar(PxParts(px_args'), px_msg', PxHead(px_args', px_msg') + px_ptr' - 1)
      BY <1>0 DEF PxAt
    <3>1. PxHead(px_args', px_msg') + px_ptr' - 1 = PxHead(px_args, k) + p
      BY <1>0, <2>1, <2>2
    <3>2. px_wire = SoFar(PxParts(px_args), k, PxHead(px_args, k) + p)
      BY <1>3
    <3>. QED BY <1>0, <3>1, <3>2
  <2>8. px_db' = PxTx(px_msg', px_ptr' - 1)
    <3>1. px_ptr' - 1 = p
      BY <1>0, <2>1
    <3>. QED BY <1>0, <3>1
  <2>9. PxAskSend'
    BY <1>0, <2>1, <2>6, <2>7, <2>8 DEF PxAskSend
  <2>10. PxAsking'
    BY <1>1, <1>2, <2>9 DEF PxAsking
  <2>11. px_idx' # Len(px_args)
    BY <1>0, <2>0, <2>1
  <2>. QED BY <1>2, <2>5, <2>10, <2>11 DEF PxOn, PxWorking
<1>4. px_rwm' \in BOOLEAN /\ px_lost' \in BOOLEAN
  BY <1>0 DEF PxInv, PxType
<1>5. ~ PxDone
  BY <1>1 DEF PxDone
<1>6. px_msg' \in Nat /\ px_msg' # 0 /\ px_num' # 0
  BY <1>0, <1>1
<1>. QED BY <1>0, <1>1, <1>3, <1>4, <1>5, <1>6, PxCallerStays

(* The cursor is a number, and a transfer is on when there are messages.   *)
LEMMA PxMsgIs ==
  ASSUME PxInv, ~ px_torn
  PROVE  px_msg \in Nat /\ (px_msg = 0 <=> px_num = 0)
BY DEF PxInv, PxCalled

(* The handler writes a byte.                                              *)
LEMMA PxWriteByteInv ==
  ASSUME PxInv, ~ px_torn, PxWriteByte
  PROVE  PxInv'
<1>1. PxWrites /\ px_ptr < px_msgs[px_msg].len /\ PxSend(px_msg, px_ptr) /\ PxMaster
  BY DEF PxWriteByte, PxWrites, PxTxEmpty
<1>2. px_msg \in Nat \ {0}
  BY <1>1, PxMasterIs, PxMsgIs
<1>3. CASE px_pc = "wait"
  <2>0. /\ px_args \in Seq(PxMessage) /\ px_msg \in 1 .. Len(px_args) /\ px_ptr \in Nat
        /\ PxThis.len \in Nat /\ PxThis.rd \in BOOLEAN /\ PxThis = px_args[px_msg] /\ PxThis = px_msgs[px_msg]
        /\ PxKeeps(px_args, px_msg, px_ptr, px_stored)
    BY <1>2, <1>3, PxPlaceIs
  <2>1. PxHasWritten
    BY <1>1, <1>3, PxWritesIs
  <2>2. px_ptr < PxThis.len
    BY <1>1, <2>0
  <2>3. "STOP" \notin px_icr /\ px_bus = "ours"
    BY <2>0, <2>1, <2>2 DEF PxHasWritten
  <2>4. ASSUME PxServed(px_args)
        PROVE  /\ ~ px_args[px_msg].rd
               /\ px_wire = SoFar(PxParts(px_args), px_msg, PxHead(px_args, px_msg) + px_ptr)
               /\ px_stored \in Seq(Nat \X Nat) /\ Len(px_stored) = 0
    <3>1. ~ px_args[px_msg].rd /\ px_wire = SoFar(PxParts(px_args), px_msg, PxHead(px_args, px_msg) + px_ptr)
      BY <2>0, <2>1, <2>3, <2>4 DEF PxHasWritten, PxAt
    <3>2. PxPlaced(px_stored, px_msg, 0)
      BY <2>0, <2>4, <3>1 DEF PxKeeps
    <3>. QED BY <3>1, <3>2 DEF PxPlaced
  <2>5. px_ptr < px_args[px_msg].len
    BY <2>0, <2>2
  <2>. QED BY <1>1, <1>2, <2>0, <2>3, <2>4, <2>5, PxSends
<1>4. CASE px_pc # "wait"
  BY <1>1, <1>2, <1>4, PxSends
<1>. QED BY <1>3, <1>4

(* The message is written: where the loop goes on.                         *)
LEMMA PxGoalIs ==
  ASSUME PxInv, ~ px_torn, PxWritten, px_pc = "wait", NEW k \in PxGoal
  PROVE  /\ k \in 1 .. Len(px_args) /\ k # 1 /\ px_bus = "ours" /\ px_msgs = px_args
         /\ px_num = Len(px_args) /\ px_args \in Seq(PxMessage)
         /\ PxServed(px_args) =>
              /\ px_wire = SoFar(PxParts(px_args), k, 0)
              /\ px_stored \in Seq(Nat \X Nat) /\ Len(px_stored) = 0
<1>1. PxWrites /\ px_ptr >= px_msgs[px_msg].len /\ px_msg # 0
  BY PxMasterIs DEF PxWritten, PxWrites, PxTxEmpty
<1>2. /\ px_args \in Seq(PxMessage) /\ Len(px_args) \in Nat /\ px_num = Len(px_args) /\ px_msgs = px_args
      /\ px_msg \in 1 .. Len(px_args) /\ px_ptr \in Nat
      /\ PxThis.len \in Nat /\ PxThis.rd \in BOOLEAN /\ PxThis = px_args[px_msg]
      /\ PxKeeps(px_args, px_msg, px_ptr, px_stored)
  BY <1>1, PxPlaceIs
<1>3. /\ k \in px_msg + 1 .. px_num
      /\ \A j \in px_msg + 1 .. k - 1 : px_msgs[j].nostart /\ px_msgs[j].len = 0
  BY DEF PxGoal, PxPassed
<1>4. k \in 1 .. Len(px_args) /\ k # 1 /\ px_msg # px_num
  BY <1>2, <1>3
<1>5. PxHasWritten
  BY <1>1, PxWritesIs
<1>6. "STOP" \notin px_icr /\ px_bus = "ours"
  BY <1>4, <1>5 DEF PxHasWritten
<1>7. ASSUME PxServed(px_args)
      PROVE  /\ px_wire = SoFar(PxParts(px_args), k, 0)
             /\ px_stored \in Seq(Nat \X Nat) /\ Len(px_stored) = 0
  <2>1. ~ PxThis.rd /\ px_ptr = PxThis.len
        /\ px_wire = SoFar(PxParts(px_args), px_msg, PxHead(px_args, px_msg) + px_ptr)
    <3>1. ~ PxThis.rd /\ px_ptr <= PxThis.len
          /\ px_wire = SoFar(PxParts(px_args), px_msg, PxHead(px_args, px_msg) + px_ptr)
      BY <1>5, <1>6, <1>7 DEF PxHasWritten, PxAt
    <3>. QED BY <1>1, <1>2, <3>1
  <2>2. px_wire = Flat(PxParts(px_args), px_msg)
    BY <1>2, <2>1, PxEnds
  <2>3. PICK i : i = k - 1
    OBVIOUS
  <2>4. i \in px_msg .. Len(px_args) /\ \A j \in px_msg + 1 .. i : px_args[j].nostart /\ px_args[j].len = 0
    BY <1>2, <1>3, <1>4, <2>3
  <2>5. Flat(PxParts(px_args), i) = Flat(PxParts(px_args), px_msg)
    BY ONLY <1>2, <2>4, PxPassedOver
  <2>6. SoFar(PxParts(px_args), k, 0) = Flat(PxParts(px_args), i)
    BY <1>2, <1>4, <2>3, PxEnds
  <2>7. PxPlaced(px_stored, px_msg, 0)
    BY <1>2, <1>7, <2>1 DEF PxKeeps
  <2>. QED BY <2>2, <2>5, <2>6, <2>7 DEF PxPlaced
<1>. QED BY <1>2, <1>4, <1>6, <1>7

(* It goes on with the next message, without a start.                      *)
LEMMA PxWriteOnInv ==
  ASSUME PxInv, ~ px_torn, PxWriteOn
  PROVE  PxInv'
<1>1. PICK k \in PxGoal : px_msgs[k].nostart /\ px_msgs[k].len > 0 /\ PxSend(k, 0)
  BY DEF PxWriteOn
<1>2. PxWritten /\ PxWrites /\ px_msg \in Nat
  BY PxMsgIs DEF PxWriteOn, PxWritten
<1>3. k \in Nat \ {0}
  BY <1>2 DEF PxGoal
<1>4. ASSUME px_pc = "wait"
      PROVE  /\ 0 \in Nat /\ k \in 1 .. Len(px_args) /\ 0 < px_args[k].len /\ px_bus = "ours"
             /\ PxServed(px_args) => /\ ~ px_args[k].rd
                                     /\ px_wire = SoFar(PxParts(px_args), k, PxHead(px_args, k) + 0)
                                     /\ px_stored \in Seq(Nat \X Nat) /\ Len(px_stored) = 0
  <2>1. /\ k \in 1 .. Len(px_args) /\ k # 1 /\ px_bus = "ours" /\ px_msgs = px_args /\ px_args \in Seq(PxMessage)
        /\ PxServed(px_args) =>
              /\ px_wire = SoFar(PxParts(px_args), k, 0)
              /\ px_stored \in Seq(Nat \X Nat) /\ Len(px_stored) = 0
    BY <1>2, <1>4, PxGoalIs
  <2>2. px_args[k].len > 0 /\ px_args[k].nostart /\ px_args[k].len \in Nat
    BY <1>1, <2>1, PxPartIs
  <2>3. PxHead(px_args, k) + 0 = 0
    BY <2>1, <2>2 DEF PxHead
  <2>4. PxServed(px_args) => ~ px_args[k].rd
    BY <2>1, <2>2, PxServedIs
  <2>. QED BY <2>1, <2>2, <2>3, <2>4
<1>. QED BY <1>1, <1>2, <1>3, <1>4, PxSends

(* It starts the next message.                                             *)
LEMMA PxWriteStartInv ==
  ASSUME PxInv, ~ px_torn, PxWriteStart
  PROVE  PxInv'
<1>1. PICK k \in PxGoal :
        /\ ~ px_msgs[k].nostart
        /\ px_msg' = k /\ px_idx' = k - 1 /\ px_ptr' = 0
        /\ px_db' = PxAddrByte(px_msgs[k])
        /\ px_icr' = (PxBase \ {"ALDIE"}) \cup {"START", "TB"}
  BY DEF PxWriteStart
<1>0. /\ PxWritten /\ PxMaster /\ px_msg \in Nat
      /\ UNCHANGED <<px_msgs, px_num, px_wire, px_stored, px_rwm, px_bus, px_lost>> /\ PxSame
      /\ UNCHANGED <<px_args, px_pc>>
  BY PxMsgIs DEF PxWriteStart, PxWritten, PxWrites, PxTxEmpty, PxKeep, PxSame, pxRecord, pxCaller
<1>2. k \in Nat \ {0}
  BY <1>0 DEF PxGoal
<1>3. px_msg # 0 /\ px_num # 0 /\ PxAsSlave' /\ px_isr' = {} /\ "SCLE" \in px_icr
  BY <1>0, PxMasterIs
<1>4. /\ "SCLE" \in px_icr' /\ "TB" \in px_icr' /\ "START" \in px_icr' /\ "STOP" \notin px_icr'
  BY <1>1, <1>3, PxBaseIs
<1>5. ASSUME px_pc = "wait" PROVE PxOn' /\ px_idx' # Len(px_args)
  <2>0. /\ k \in 1 .. Len(px_args) /\ px_msgs = px_args /\ px_num = Len(px_args) /\ px_args \in Seq(PxMessage)
        /\ PxServed(px_args) =>
              /\ px_wire = SoFar(PxParts(px_args), k, 0)
              /\ px_stored \in Seq(Nat \X Nat) /\ Len(px_stored) = 0
    BY <1>0, <1>5, PxGoalIs
  <2>1. px_idx' # Len(px_args)
    BY <1>1, <2>0, LenProperties
  <2>2. PxKeeps(px_args, px_msg, px_ptr, px_stored)'
    <3>1. PxServed(px_args) => PxPlaced(px_stored, k, 0)
      BY <2>0 DEF PxPlaced
    <3>2. PxServed(px_args) => PxPlaced(px_stored, k, IF px_args[k].rd THEN 0 ELSE 0)
      BY <3>1
    <3>. QED BY <1>0, <1>1, <3>2 DEF PxKeeps
  <2>3. PxPlace'
    BY <1>0, <1>1, <2>0, <2>2 DEF PxPlace
  <2>4. PxThis' = px_args[k]
    BY <1>0, <1>1 DEF PxThis
  <2>5. PxHead(px_args', px_msg') = 1
    BY <1>0, <1>1, <2>0 DEF PxHead
  <2>6. PxStarting'
    BY <1>1, <1>4, <2>0, <2>4, <2>5 DEF PxStarting
  <2>7. PxAt(0)'
    BY <1>0, <1>1, <2>0 DEF PxAt
  <2>8. PxAsking'
    BY <1>3, <1>4, <2>6, <2>7 DEF PxAsking, PxAskStart
  <2>. QED BY <1>4, <2>1, <2>3, <2>8 DEF PxOn, PxWorking
<1>6. px_rwm' \in BOOLEAN /\ px_lost' \in BOOLEAN
  BY <1>0 DEF PxInv, PxType
<1>7. ~ PxDone
  BY <1>3 DEF PxDone
<1>8. px_msg' \in Nat /\ px_msg' # 0 /\ px_num' # 0
  BY <1>0, <1>1, <1>2, <1>3
<1>. QED BY <1>0, <1>3, <1>5, <1>6, <1>7, <1>8, PxCallerStays

(* Nowhere: it was the last message.                                       *)
LEMMA PxGoalNone ==
  ASSUME NEW m \in Nat, NEW n \in Nat, px_msg = m, px_num = n, m <= n, PxGoal = {}
  PROVE  m = n
<1>. SUFFICES ASSUME m < n PROVE FALSE
  OBVIOUS
<1>. DEFINE S == {i \in Nat : m + i <= n => \A j \in m + 1 .. m + i : PxPassed(j)}
<1>1. 0 \in S
  OBVIOUS
<1>2. ASSUME NEW i \in Nat, i \in S PROVE i + 1 \in S
  <2>. SUFFICES ASSUME m + (i + 1) <= n, NEW j \in m + 1 .. m + (i + 1) PROVE PxPassed(j)
    OBVIOUS
  <2>1. \A h \in m + 1 .. m + i : PxPassed(h)
    BY <1>2
  <2>2. CASE j \in m + 1 .. m + i
    BY <2>1, <2>2
  <2>3. CASE j \notin m + 1 .. m + i
    <3>1. j \in m + 1 .. n /\ j - 1 = m + i
      BY <2>3
    <3>2. \A h \in m + 1 .. j - 1 : PxPassed(h)
      BY <2>1, <3>1
    <3>. QED BY <3>1, <3>2 DEF PxGoal
  <2>. QED BY <2>2, <2>3
<1>. HIDE DEF S
<1>3. PICK i \in Nat : i = n - m
  OBVIOUS
<1>4. 0 .. i \subseteq S
  <2>1. \A h \in 0 .. i - 1 : h \in S => h + 1 \in S
    BY <1>2
  <2>. QED BY <1>1, <2>1, UpTo
<1>5. \A j \in m + 1 .. m + i : PxPassed(j)
  <2>1. i \in S /\ m + i <= n
    BY <1>3, <1>4
  <2>. QED BY <2>1 DEF S
<1>6. n \in m + 1 .. m + i
  BY <1>3
<1>. QED BY <1>5, <1>6 DEF PxPassed

(* What is expected, as far as all the messages.                           *)
LEMMA PxExpectedIs ==
  ASSUME NEW a \in Seq(PxMessage), NEW n, n = Len(a), n # 0
  PROVE  /\ PxExpected(a) = Append(Flat(PxParts(a), n), IF a[n].len = 0 THEN PxResetUnit ELSE PxStop)
         /\ SoFar(PxParts(a), n, PxHead(a, n) + a[n].len) = Flat(PxParts(a), n)
<1>. DEFINE P == PxParts(a)
<1>1. P \in Seq(Seq(PxEvents)) /\ Len(P) = Len(a) /\ n \in 1 .. Len(a)
  BY PxSeqs, LenProperties
<1>2. PxExpected(a) = Append(FlattenSeq(P), IF a[n].len = 0 THEN PxResetUnit ELSE PxStop)
  BY DEF PxExpected, PxParts
<1>3. SoFar(P, n, PxHead(a, n) + a[n].len) = Flat(P, n)
  BY <1>1, PxEnds
<1>. HIDE DEF P
<1>4. FlattenSeq(P) = Flat(P, n)
  BY <1>1, FlatWhole
<1>5. PxExpected(a) = Append(Flat(P, n), IF a[n].len = 0 THEN PxResetUnit ELSE PxStop)
  BY <1>2, <1>4
<1>. QED BY <1>3, <1>5 DEF P

(* It ends the transfer.                                                   *)
LEMMA PxWriteEndInv ==
  ASSUME PxInv, ~ px_torn, PxWriteEnd
  PROVE  PxInv'
<1>0. /\ PxWritten /\ PxWrites /\ PxMaster /\ px_msg' = 0 /\ px_num' = 0 /\ px_idx' = px_num - 1 + 1
      /\ px_icr' = PxBase /\ PxSame /\ UNCHANGED <<px_stored, px_rwm, px_lost, px_args, px_pc>>
      /\ px_ptr >= px_msgs[px_msg].len
      /\ PxGoal = {} \/ \E k \in PxGoal : px_msgs[k].nostart /\ px_msgs[k].len = 0
      /\ IF px_msgs[px_num].len = 0
           THEN px_bus' = "free" /\ px_wire' = Append(px_wire, PxResetUnit)
           ELSE UNCHANGED <<px_bus, px_wire>>
  BY DEF PxWriteEnd, PxWritten, PxWrites, PxTxEmpty, PxComplete, PxSame, pxCaller
<1>1. px_msg # 0 /\ px_bus # "slave" /\ (px_bus' # "slave" => PxAsSlave')
  BY <1>0, PxMasterIs
<1>2. PxAsSlave'
  BY <1>0, <1>1
<1>3. ASSUME px_pc = "wait" PROVE PxDone'
  <2>0. /\ px_args \in Seq(PxMessage) /\ Len(px_args) \in Nat \ {0} /\ px_num = Len(px_args) /\ px_msgs = px_args
        /\ px_msg \in 1 .. Len(px_args) /\ px_ptr \in Nat
        /\ PxThis.len \in Nat /\ PxThis.rd \in BOOLEAN /\ PxThis = px_args[px_msg]
        /\ PxKeeps(px_args, px_msg, px_ptr, px_stored)
    BY <1>1, <1>3, PxPlaceIs
  <2>1. "TB" \notin px_icr'
    BY <1>0, PxBaseIs
  <2>. DEFINE n == px_num
              F == Flat(PxParts(px_args), n)
  <2>. SUFFICES ASSUME PxServed(px_args)
                PROVE  px_wire' = PxExpected(px_args) /\ px_stored' = PxPlaces(px_args)
    BY <1>0, <2>1 DEF PxDone, PxReady
  <2>2. /\ PxExpected(px_args) = Append(F, IF px_args[n].len = 0 THEN PxResetUnit ELSE PxStop)
        /\ SoFar(PxParts(px_args), n, PxHead(px_args, n) + px_args[n].len) = F
    BY <2>0, PxExpectedIs
  <2>3. CASE px_msg = px_num
    <3>1. PxHasWritten
      BY <1>0, <1>3, PxWritesIs
    <3>2. ~ px_args[n].rd /\ px_ptr = px_args[n].len /\ (px_ptr # 0 <=> "STOP" \in px_icr)
      BY <1>0, <2>0, <2>3, <3>1 DEF PxHasWritten
    <3>3. px_wire = IF px_ptr # 0 THEN Append(F, PxStop) ELSE F
      <4>1. CASE px_ptr # 0
        BY <2>2, <2>3, <3>1, <3>2, <4>1 DEF PxHasWritten, PxEnd
      <4>2. CASE px_ptr = 0
        BY <2>2, <2>3, <3>1, <3>2, <4>2 DEF PxHasWritten, PxAt
      <4>. QED BY <4>1, <4>2
    <3>4. px_wire' = PxExpected(px_args)
      BY <1>0, <2>0, <2>2, <3>2, <3>3
    <3>5. px_stored' = <<>>
      <4>1. PxPlaced(px_stored, px_msg, 0)
        BY <2>0, <2>3, <3>2 DEF PxKeeps
      <4>. QED BY <1>0, <4>1, EmptySeq DEF PxPlaced
    <3>. QED BY <2>0, <3>2, <3>4, <3>5 DEF PxPlaces
  <2>4. CASE px_msg # px_num
    <3>0. px_num \in Nat /\ px_msg \in Nat /\ px_msg <= px_num
      BY <2>0
    <3>1. PxGoal # {}
      BY <2>4, <3>0, PxGoalNone
    <3>2. PICK k \in PxGoal : px_msgs[k].nostart /\ px_msgs[k].len = 0
      BY <1>0, <3>1
    <3>3. k = n
      BY <2>0, <3>2 DEF PxGoal, PxPassed
    <3>4. /\ n # 1 /\ px_wire = SoFar(PxParts(px_args), n, 0)
          /\ px_stored \in Seq(Nat \X Nat) /\ Len(px_stored) = 0
      BY <1>0, <1>3, <3>2, <3>3, PxGoalIs
    <3>5. px_args[n].nostart /\ px_args[n].len = 0 /\ px_args[n].rd \in BOOLEAN
      BY <2>0, <3>2, <3>3, PxPartIs
    <3>6. PxHead(px_args, n) + px_args[n].len = 0
      BY <2>0, <3>4, <3>5 DEF PxHead
    <3>7. px_wire' = PxExpected(px_args)
      BY <1>0, <2>0, <2>2, <3>4, <3>5, <3>6
    <3>8. px_stored' = <<>>
      BY <1>0, <3>4, EmptySeq
    <3>9. ~ px_args[n].rd
      BY <2>0, <3>5, PxServedIs
    <3>. QED BY <2>0, <3>7, <3>8, <3>9 DEF PxPlaces
  <2>. QED BY <2>3, <2>4
<1>. QED BY <1>0, <1>1, <1>2, <1>3, PxCompletes

(* One more byte is in its place.                                          *)
LEMMA PxOnePlace ==
  ASSUME NEW k \in Nat, NEW p \in Nat, NEW s, PxPlaced(s, k, p), NEW t, t = Append(s, <<k, p>>)
  PROVE  PxPlaced(t, k, p + 1)
<1>1. s \in Seq(Nat \X Nat) /\ Len(s) = p /\ \A i \in 1 .. p : s[i] = <<k, i - 1>>
  BY DEF PxPlaced
<1>2. <<k, p>> \in Nat \X Nat
  OBVIOUS
<1>3. t \in Seq(Nat \X Nat) /\ Len(t) = p + 1 /\ \A i \in 1 .. p : t[i] = s[i]
  BY <1>1, <1>2, AppendProperties
<1>4. PICK q \in Nat : q = p + 1
  OBVIOUS
<1>5. t[q] = <<k, p>> /\ q - 1 = p
  BY <1>1, <1>2, <1>4, AppendProperties
<1>6. ASSUME NEW i \in 1 .. p + 1 PROVE t[i] = <<k, i - 1>>
  <2>1. CASE i = q
    BY <1>5, <2>1
  <2>2. CASE i # q
    <3>1. i \in 1 .. p
      BY <1>4, <2>2
    <3>. QED BY <1>1, <1>3, <3>1
  <2>. QED BY <2>1, <2>2
<1>. QED BY <1>3, <1>6 DEF PxPlaced

(* It takes a byte, and asks for the next or ends.                         *)
LEMMA PxReadByteInv ==
  ASSUME PxInv, ~ px_torn, PxReadByte
  PROVE  PxInv'
<1>0. /\ PxMaster /\ "IRF" \in px_isr /\ px_stored' = Append(px_stored, <<px_msg, px_ptr>>)
      /\ UNCHANGED <<px_wire, px_rwm, px_bus, px_lost, px_args, px_pc>> /\ PxSame
  BY DEF PxReadByte, PxKeep, PxSame, pxCaller
<1>1. /\ px_msg # 0 /\ px_num # 0 /\ PxAsSlave' /\ px_isr' = {} /\ "SCLE" \in px_icr
      /\ (px_pc = "wait" => PxAsking \/ PxMoved \/ PxDead)
  BY <1>0, PxMasterIs
<1>2. px_pc = "wait" =>
        /\ PxReading /\ ("STOP" \notin px_icr => px_bus = "ours")
        /\ IF "STOP" \in px_icr THEN PxEnd(2 + px_ptr) ELSE PxAt(2 + px_ptr)
  <2>. SUFFICES ASSUME px_pc = "wait"
                PROVE  /\ PxReading /\ ("STOP" \notin px_icr => px_bus = "ours")
                       /\ IF "STOP" \in px_icr THEN PxEnd(2 + px_ptr) ELSE PxAt(2 + px_ptr)
    OBVIOUS
  <2>1. PxMoved
    BY <1>0, <1>1 DEF PxAsking, PxDead
  <2>2. PxMovedRead
    BY <1>0, <2>1 DEF PxMoved, PxMovedStart, PxMovedSend, PxMovedBad, PxEmptied
  <2>. QED BY <2>1, <2>2 DEF PxMoved, PxMovedRead
<1>3. ASSUME px_pc = "wait", PxServed(px_args)
      PROVE  /\ PxThis.rd /\ px_ptr < PxThis.len /\ px_msg = Len(px_args) /\ PxHead(px_args, px_msg) = 1
             /\ PxPlaced(px_stored', px_msg, px_ptr + 1)
             /\ px_ptr + 1 = PxThis.len => px_wire = Append(SoFar(PxParts(px_args), px_msg, 2 + px_ptr), PxStop)
             /\ px_ptr + 1 # PxThis.len => px_wire = SoFar(PxParts(px_args), px_msg, 2 + px_ptr)
  <2>0. /\ px_args \in Seq(PxMessage) /\ px_msg \in 1 .. Len(px_args) /\ px_ptr \in Nat
        /\ PxThis.len \in Nat /\ PxThis.rd \in BOOLEAN /\ PxThis = px_args[px_msg]
        /\ PxKeeps(px_args, px_msg, px_ptr, px_stored)
    BY <1>1, <1>3, PxPlaceIs
  <2>1. PxThis.rd /\ px_ptr < PxThis.len /\ ("STOP" \in px_icr <=> px_ptr + 1 = PxThis.len)
    BY <1>2, <1>3 DEF PxReading
  <2>2. px_msg = Len(px_args) /\ PxHead(px_args, px_msg) = 1
    BY <1>3, <2>0, <2>1, PxServedIs
  <2>3. PxPlaced(px_stored, px_msg, px_ptr)
    BY <1>3, <2>0, <2>1 DEF PxKeeps
  <2>4. px_msg \in Nat
    BY <2>0
  <2>5. PxPlaced(px_stored', px_msg, px_ptr + 1)
    BY <1>0, <2>0, <2>3, <2>4, PxOnePlace
  <2>. QED BY <1>2, <1>3, <2>1, <2>2, <2>5 DEF PxEnd, PxAt
<1>4. CASE px_ptr + 1 < px_msgs[px_msg].len
  <2>1. /\ px_ptr' = px_ptr + 1
        /\ px_icr' = PxBase \cup {"ALDIE", "TB"} \cup
             IF px_ptr + 2 = px_msgs[px_msg].len THEN {"STOP", "ACKNAK"} ELSE {}
        /\ UNCHANGED <<px_msg, px_msgs, px_num, px_idx>> /\ PxThis' = PxThis
    BY <1>0, <1>4 DEF PxReadByte, PxThis
  <2>2. /\ "SCLE" \in px_icr' /\ "TB" \in px_icr' /\ "START" \notin px_icr'
        /\ "STOP" \in px_icr' <=> px_ptr + 2 = px_msgs[px_msg].len
        /\ "ACKNAK" \in px_icr' <=> px_ptr + 2 = px_msgs[px_msg].len
    BY <1>1, <2>1, PxBaseIs
  <2>3. ASSUME px_pc = "wait" PROVE PxOn' /\ px_idx' # Len(px_args)
    <3>0. /\ px_args \in Seq(PxMessage) /\ px_msg \in 1 .. Len(px_args) /\ px_ptr \in Nat
          /\ px_num = Len(px_args) /\ px_msgs = px_args /\ px_idx = px_msg - 1
          /\ PxThis.len \in Nat /\ PxThis.rd \in BOOLEAN /\ PxThis = px_args[px_msg] /\ PxThis = px_msgs[px_msg]
          /\ Len(px_args) \in Nat
      BY <1>1, <2>3, PxPlaceIs
    <3>1. px_ptr + 1 < PxThis.len
      BY <1>4, <3>0
    <3>2. "STOP" \notin px_icr /\ px_rwm /\ px_bus = "ours"
      BY <1>2, <2>3, <3>0, <3>1 DEF PxReading
    <3>3. PxReading'
      <4>1. px_ptr' + 1 = px_ptr + 2
        BY <2>1, <3>0
      <4>2. /\ "STOP" \in px_icr' <=> px_ptr' + 1 = PxThis'.len
            /\ "ACKNAK" \in px_icr' <=> px_ptr' + 1 = PxThis'.len
        BY <2>1, <2>2, <3>0, <4>1
      <4>3. px_ptr' < PxThis'.len
        BY <2>1, <3>1
      <4>4. PxServed(px_args) => PxThis'.rd
        BY <1>3, <2>1, <2>3
      <4>. QED BY <1>0, <2>2, <3>2, <4>2, <4>3, <4>4 DEF PxReading
    <3>4. PxAt(1 + px_ptr)'
      <4>1. 1 + px_ptr' = 2 + px_ptr /\ px_ptr + 1 # PxThis.len
        BY <2>1, <3>0, <3>1
      <4>. QED BY <1>0, <1>3, <2>1, <2>3, <4>1 DEF PxAt
    <3>5. PxAsking'
      BY <1>0, <1>1, <2>2, <3>2, <3>3, <3>4 DEF PxAsking, PxAskRead
    <3>6. PxKeeps(px_args, px_msg, px_ptr, px_stored)'
      <4>1. PxServed(px_args) => PxPlaced(px_stored', px_msg, IF px_args[px_msg].rd THEN px_ptr + 1 ELSE 0)
        BY <1>3, <2>3, <3>0
      <4>. QED BY <1>0, <2>1, <4>1 DEF PxKeeps
    <3>7. px_ptr' \in Nat
      BY <2>1, <3>0
    <3>8. PxPlace'
      BY <1>0, <2>1, <3>0, <3>6, <3>7 DEF PxPlace
    <3>9. px_idx' # Len(px_args)
      BY <2>1, <3>0
    <3>. QED BY <2>2, <3>5, <3>8, <3>9 DEF PxOn, PxWorking
  <2>4. px_rwm' \in BOOLEAN /\ px_lost' \in BOOLEAN
    BY <1>0 DEF PxInv, PxType
  <2>5. ~ PxDone
    BY <1>1 DEF PxDone
  <2>6. px_msg' \in Nat /\ px_msg' # 0 /\ px_num' # 0
    BY <1>1, <2>1, PxMsgIs
  <2>. QED BY <1>0, <1>1, <2>3, <2>4, <2>5, <2>6, PxCallerStays
<1>5. CASE ~ (px_ptr + 1 < px_msgs[px_msg].len)
  <2>1. px_msg' = 0 /\ px_num' = 0 /\ px_idx' = px_idx + 1 /\ px_icr' = PxBase
    BY <1>5 DEF PxReadByte, PxComplete
  <2>2. "TB" \notin px_icr'
    BY <2>1, PxBaseIs
  <2>3. ASSUME px_pc = "wait" PROVE PxDone'
    <3>0. /\ px_args \in Seq(PxMessage) /\ Len(px_args) \in Nat \ {0} /\ px_msg \in 1 .. Len(px_args)
          /\ px_ptr \in Nat /\ PxThis.len \in Nat /\ PxThis = px_args[px_msg] /\ PxThis = px_msgs[px_msg]
      BY <1>1, <2>3, PxPlaceIs
    <3>. SUFFICES ASSUME PxServed(px_args)
                  PROVE  px_wire' = PxExpected(px_args) /\ px_stored' = PxPlaces(px_args)
      BY <1>0, <2>1, <2>2 DEF PxDone, PxReady
    <3>1. PICK n \in Nat : n = Len(px_args)
      BY <3>0
    <3>2. /\ px_args[n].rd /\ px_ptr < px_args[n].len /\ px_msg = n /\ PxHead(px_args, n) = 1
          /\ PxPlaced(px_stored', n, px_ptr + 1)
          /\ px_ptr + 1 = px_args[n].len => px_wire = Append(SoFar(PxParts(px_args), n, 2 + px_ptr), PxStop)
      BY <1>3, <2>3, <3>0, <3>1
    <3>7. PICK h \in Nat : h = px_args[n].len /\ ~ (px_ptr + 1 < h) /\ px_ptr < h
      BY <1>5, <3>0, <3>2
    <3>8. PICK p \in Nat : p = px_ptr
      BY <3>0
    <3>9. p + 1 = h /\ h # 0 /\ 2 + p = 1 + h
      BY <3>7, <3>8
    <3>3. px_ptr + 1 = px_args[n].len /\ px_args[n].len # 0
          /\ 2 + px_ptr = PxHead(px_args, n) + px_args[n].len
      BY <3>2, <3>7, <3>8, <3>9
    <3>4. /\ PxExpected(px_args) = Append(Flat(PxParts(px_args), n), PxStop)
          /\ SoFar(PxParts(px_args), n, PxHead(px_args, n) + px_args[n].len) = Flat(PxParts(px_args), n)
      BY <3>0, <3>1, <3>3, PxExpectedIs
    <3>5. px_wire' = PxExpected(px_args)
      BY <1>0, <3>2, <3>3, <3>4
    <3>6. px_stored' = [i \in 1 .. px_args[n].len |-> <<n, i - 1>>]
      BY <3>2, <3>3 DEF PxPlaced
    <3>. QED BY <3>1, <3>2, <3>5, <3>6 DEF PxPlaces
  <2>. QED BY <1>0, <1>1, <2>1, <2>3, PxCompletes
<1>. QED BY <1>4, <1>5

-----------------------------------------------------------------------------
(* The process.                                                            *)
LEMMA PxQuietIs ==
  ASSUME PxQuiet
  PROVE  /\ UNCHANGED <<px_icr, px_isr, px_bus, px_rwm, px_lost, px_msg, px_num, px_idx>>
         /\ UNCHANGED px_args => (PxDone => PxDone')
<1>1. UNCHANGED <<px_icr, px_isr, px_bus, px_rwm, px_lost, px_msg, px_num, px_idx, px_wire, px_stored>>
  BY DEF PxQuiet, PxElse, pxCursor, pxRecord
<1>. QED BY <1>1 DEF PxDone, PxReady

(* Where ICR is written back after it was read.                            *)
LEMMA PxWritingIs ==
  /\ PxWriting["scle"] = "write scle" /\ PxWriting["stop"] = "write stop"
  /\ PxWriting["clear"] = "write clear"
  /\ PxWriting["slave1"] = "write slave1" /\ PxWriting["slave2"] = "write slave2"
BY DEF PxWriting

(* The process's steps that leave unit and cursor alone.                   *)
LEMMA PxQuietKeeps ==
  ASSUME PxInv, ~ px_torn, PxQuiet, UNCHANGED px_args, px_pc # "idle", px_torn' = px_torn, px_late' \in BOOLEAN,
         px_pc' # "wait",
         px_pc' \in PxWaits /\ ~ px_late' => px_num = 0 /\ (px_idx = Len(px_args) => PxDone),
         px_pc' \in PxAfter /\ px_ret' = Len(px_args) /\ ~ px_late' => PxDone
  PROVE  PxInv'
<1>1. UNCHANGED <<px_icr, px_isr, px_bus, px_rwm, px_lost, px_msg, px_num, px_idx>> /\ (PxDone => PxDone')
  BY PxQuietIs
<1>2. PxType'
  BY <1>1 DEF PxInv, PxType
<1>3. PxAsSlave'
  BY <1>1 DEF PxInv, PxAsSlave
<1>4. px_args \in PxTransfers /\ px_msg \in Nat /\ (px_msg = 0 <=> px_num = 0)
  BY DEF PxInv, PxCalled
<1>5. PxCalled'
  BY <1>1, <1>4 DEF PxCalled
<1>. QED BY <1>2, <1>3, <1>5 DEF PxInv

(* A call begins.                                                          *)
LEMMA PxXferInv ==
  ASSUME PxInv, ~ px_torn, PxXfer
  PROVE  PxInv'
<1>1. /\ px_args' \in PxTransfers /\ px_torn' = px_torn /\ px_pc' = "wait_bus" /\ px_late' = px_late /\ PxQuiet
  BY DEF PxXfer
<1>2. UNCHANGED <<px_icr, px_isr, px_bus, px_rwm, px_lost, px_msg, px_num, px_idx>>
  BY <1>1, PxQuietIs
<1>3. PxType'
  BY <1>1, <1>2 DEF PxInv, PxType
<1>4. PxAsSlave'
  BY <1>2 DEF PxInv, PxAsSlave
<1>5. px_msg \in Nat /\ (px_msg = 0 <=> px_num = 0)
  BY PxMsgIs
<1>6. PxCalled'
  BY <1>1, <1>2, <1>5 DEF PxCalled, PxWaits, PxAfter
<1>. QED BY <1>3, <1>4, <1>6 DEF PxInv

(* An attempt's result.                                                    *)
LEMMA PxResultIs ==
  ASSUME NEW r, PxResult(r), NEW n \in Nat
  PROVE  /\ px_pc' \in {"wait_bus", "set_slave", "done"}
         /\ px_pc' # "wait_bus" /\ px_ret' = n => r = n /\ r # I2C_RETRY
<1>1. CASE r = I2C_RETRY /\ px_retry < PxRetries
  BY <1>1 DEF PxResult
<1>2. CASE ~ (r = I2C_RETRY /\ px_retry < PxRetries)
  <2>1. px_ret' = (IF r = I2C_RETRY THEN PxNoAnswer ELSE r) /\ px_pc' \in {"set_slave", "done"}
    BY <1>2 DEF PxResult
  <2>. QED BY <2>1 DEF PxNoAnswer
<1>. QED BY <1>1, <1>2

(* The process's steps that leave the unit alone.                          *)
LEMMA PxQuietInv ==
  ASSUME PxInv, ~ px_torn, ~ PxIrq,
         PxBusFree \/ PxBusBusy \/ PxIcrRead \/ PxWaited \/ PxCollect \/ PxSetSlave \/ PxStopEnded
           \/ PxStillBusy
  PROVE  PxInv'
<1>0. /\ px_late \in BOOLEAN
      /\ px_pc # "idle" => px_args \in PxTransfers
      /\ px_pc = "wait" => ~ px_late
      /\ px_pc \in PxWaits \ {"wait"} /\ ~ px_late => px_num = 0
      /\ px_pc \in PxWaits /\ px_idx = Len(px_args) /\ ~ px_late => PxDone
      /\ px_pc \in PxAfter /\ px_ret = Len(px_args) /\ ~ px_late => PxDone
  BY DEF PxInv, PxType, PxCalled
<1>1. CASE PxBusFree
  <2>1. /\ px_pc \in {"wait_bus", "master"} /\ px_pc' \in {"scle", "master"} /\ PxQuiet
        /\ UNCHANGED <<px_args, px_late, px_torn>>
    BY <1>1 DEF PxBusFree
  <2>. QED BY <1>0, <2>1, PxQuietKeeps DEF PxWaits, PxAfter
<1>2. CASE PxBusBusy
  <2>1. /\ px_pc \in {"wait_bus", "master"} /\ PxResult(I2C_RETRY) /\ PxQuiet
        /\ UNCHANGED <<px_args, px_late, px_torn>>
    BY <1>2 DEF PxBusBusy
  <2>2. Len(px_args) \in Nat
    BY <1>0, <2>1, PxArgs
  <2>3. px_pc' \in {"wait_bus", "set_slave", "done"} /\ (px_pc' # "wait_bus" => px_ret' # Len(px_args))
    BY <2>1, <2>2, PxResultIs
  <2>. QED BY <1>0, <2>1, <2>3, PxQuietKeeps DEF PxWaits, PxAfter
<1>3. CASE PxIcrRead
  <2>1. /\ px_pc \in {"scle", "stop", "clear", "slave1", "slave2"} /\ px_pc' = PxWriting[px_pc] /\ PxQuiet
        /\ UNCHANGED <<px_args, px_ret, px_late, px_torn>>
    BY <1>3 DEF PxIcrRead, PxReads, PxWriting
  <2>2. /\ px_pc = "scle" => px_pc' = "write scle"
        /\ px_pc = "stop" => px_pc' = "write stop"
        /\ px_pc = "clear" => px_pc' = "write clear"
        /\ px_pc = "slave1" => px_pc' = "write slave1"
        /\ px_pc = "slave2" => px_pc' = "write slave2"
    BY <2>1, PxWritingIs
  <2>3. /\ px_pc' \in PxWaits => px_pc \in PxWaits \ {"wait"}
        /\ px_pc' \in PxAfter => px_pc \in PxAfter
        /\ px_pc # "idle" /\ px_pc' # "wait"
    BY <2>1, <2>2 DEF PxWaits, PxAfter
  <2>. QED BY <1>0, <2>1, <2>3, PxQuietKeeps
<1>4. CASE PxWaited
  <2>1. /\ px_pc = "wait" /\ px_late' = (px_num # 0) /\ px_pc' = "stop" /\ PxQuiet
        /\ UNCHANGED <<px_args, px_torn>>
    BY <1>4 DEF PxWaited
  <2>2. px_late' \in BOOLEAN /\ (~ px_late' => px_num = 0)
    BY <2>1
  <2>. QED BY <1>0, <2>1, <2>2, PxQuietKeeps DEF PxWaits, PxAfter
<1>5. CASE PxCollect
  <2>1. /\ px_pc = "collect" /\ PxResult(px_idx) /\ PxQuiet
        /\ UNCHANGED <<px_args, px_late, px_torn>>
    BY <1>5 DEF PxCollect
  <2>2. Len(px_args) \in Nat
    BY <1>0, <2>1, PxArgs
  <2>3. px_pc' \in {"wait_bus", "set_slave", "done"} /\ (px_pc' # "wait_bus" /\ px_ret' = Len(px_args) => px_idx = Len(px_args))
    BY <2>1, <2>2, PxResultIs
  <2>. QED BY <1>0, <2>1, <2>3, PxQuietKeeps DEF PxWaits, PxAfter
<1>6. CASE PxSetSlave
  <2>1. /\ px_pc = "set_slave" /\ PxQuiet /\ UNCHANGED <<px_args, px_ret, px_late, px_torn>>
        /\ px_pc' \in {"slave1", "clear", "slave"}
    BY <1>6 DEF PxSetSlave
  <2>. QED BY <1>0, <2>1, PxQuietKeeps DEF PxWaits, PxAfter
<1>7. CASE PxStopEnded \/ PxStillBusy
  <2>1. /\ px_pc = "slave" /\ px_pc' \in {"slave1", "done"} /\ PxQuiet
        /\ UNCHANGED <<px_args, px_ret, px_late, px_torn>>
    BY <1>7 DEF PxStopEnded, PxStillBusy
  <2>. QED BY <1>0, <2>1, PxQuietKeeps DEF PxWaits, PxAfter
<1>. QED BY <1>1, <1>2, <1>3, <1>4, <1>5, <1>6, <1>7

(* The process writes ICR back.                                            *)
LEMMA PxIcrWriteInv ==
  ASSUME PxInv, ~ px_torn, ~ PxIrq, PxIcrWrite
  PROVE  PxInv'
<1>1. PICK at \in {"scle", "stop", "clear", "slave1", "slave2"} :
        /\ px_pc = PxWriting[at]
        /\ px_icr' = CASE at = "scle"   -> px_saved \cup {"SCLE"}
                       [] at = "stop"   -> px_saved \ {"STOP", "ACKNAK"}
                       [] at = "clear"  -> px_saved \ {"STOP"}
                       [] at = "slave1" -> px_saved \ {"STOP", "ACKNAK"}
                       [] at = "slave2" -> px_saved \ {"SCLE"}
        /\ px_pc' = CASE at = "scle"   -> "setup"
                      [] at = "stop"   -> "collect"
                      [] at = "clear"  -> "slave"
                      [] at = "slave1" -> "slave2"
                      [] at = "slave2" -> "done"
  BY DEF PxIcrWrite, PxReads, PxWriting
<1>2. /\ px_torn' <=> px_icr # px_saved \/ (px_pc = "write scle" /\ px_bus = "slave")
      /\ px_torn' \in BOOLEAN
      /\ UNCHANGED <<px_msg, px_num, px_idx, px_wire, px_stored, px_lost, px_args, px_ret, px_late, px_isr, px_rwm, px_bus>>
  <2>1. px_torn' = (px_torn \/ px_icr # px_saved \/ (px_pc = "write scle" /\ px_bus = "slave"))
    BY DEF PxIcrWrite
  <2>. QED BY <2>1 DEF PxIcrWrite, PxElse, pxCursor, pxRecord
<1>3. PxType'
  BY <1>2 DEF PxInv, PxType
<1>. SUFFICES ASSUME ~ px_torn' PROVE PxAsSlave' /\ PxCalled'
  BY <1>3 DEF PxInv
<1>4. px_saved = px_icr /\ "SAD" \notin px_isr
  BY <1>2, PxIrqIs
<1>5. PxAsSlave /\ px_msg \in Nat /\ (px_msg = 0 <=> px_num = 0)
  BY PxMsgIs DEF PxInv
<1>6. /\ px_pc # "idle" => px_args \in PxTransfers
      /\ px_pc \in PxWaits \ {"wait"} /\ ~ px_late => px_num = 0
      /\ px_pc \in PxWaits /\ px_idx = Len(px_args) /\ ~ px_late => PxDone
      /\ px_pc \in PxAfter /\ px_ret = Len(px_args) /\ ~ px_late => PxDone
  BY DEF PxInv, PxCalled
<1>7. CASE at = "scle"
  <2>1. px_pc = "write scle" /\ px_pc' = "setup" /\ px_bus # "slave"
    BY <1>1, <1>2, <1>7, PxWritingIs
  <2>2. PxAsSlave'
    BY <1>2, <1>4, <2>1 DEF PxAsSlave
  <2>3. PxCalled'
    BY <1>2, <1>5, <1>6, <2>1 DEF PxCalled, PxWaits, PxAfter
  <2>. QED BY <2>2, <2>3
<1>8. CASE at \in {"stop", "clear", "slave1"}
  <2>1. /\ at = "stop" => px_pc = "write stop" /\ px_pc' = "collect"
        /\ at = "slave1" => px_pc = "write slave1" /\ px_pc' = "slave2"
        /\ at = "clear" => px_pc = "write clear" /\ px_pc' = "slave"
        /\ px_icr' = px_icr \ {"STOP", "ACKNAK"} \/ px_icr' = px_icr \ {"STOP"}
    BY <1>1, <1>4, <1>8, PxWritingIs
  <2>2. ("SCLE" \in px_icr' <=> "SCLE" \in px_icr) /\ ("TB" \in px_icr' <=> "TB" \in px_icr)
    BY <2>1
  <2>3. PxAsSlave'
    BY <1>2, <1>5, <2>2 DEF PxAsSlave
  <2>4. PxDone => PxDone'
    BY <1>2, <2>2 DEF PxDone, PxReady
  <2>5. PxCalled'
    BY <1>2, <1>5, <1>6, <1>8, <2>1, <2>4 DEF PxCalled, PxWaits, PxAfter
  <2>. QED BY <2>3, <2>5
<1>9. CASE at = "slave2"
  <2>1. px_pc = "write slave2" /\ px_pc' = "done" /\ px_icr' = px_icr \ {"SCLE"}
    BY <1>1, <1>4, <1>9, PxWritingIs
  <2>2. "SCLE" \notin px_icr' /\ ("TB" \in px_icr' <=> "TB" \in px_icr)
    BY <2>1
  <2>3. PxAsSlave'
    BY <1>2, <1>5, <2>2 DEF PxAsSlave
  <2>4. PxDone => PxDone'
    BY <1>2, <2>2 DEF PxDone, PxReady
  <2>5. PxCalled'
    BY <1>2, <1>5, <1>6, <2>1, <2>4 DEF PxCalled, PxWaits, PxAfter
  <2>. QED BY <2>3, <2>5
<1>. QED BY <1>7, <1>8, <1>9

(* The process starts the first message.                                   *)
LEMMA PxSetupInv ==
  ASSUME PxInv, ~ px_torn, ~ PxIrq, PxSetup
  PROVE  PxInv'
<1>1. /\ px_pc = "setup" /\ px_pc' = "wait"
      /\ px_msgs' = px_args /\ px_msg' = 1 /\ px_num' = Len(px_args) /\ px_idx' = 0 /\ px_ptr' = 0
      /\ px_db' = PxAddrByte(px_args[1])
      /\ px_icr' = (px_icr \ {"STOP", "ALDIE"}) \cup {"START", "TB"}
      /\ px_wire' = <<>> /\ px_stored' = <<>> /\ px_late' = FALSE
      /\ UNCHANGED <<px_args, px_torn, px_isr, px_rwm, px_bus>>
  BY DEF PxSetup, PxElse
<1>2. /\ px_lost' \in BOOLEAN
      /\ px_lost' <=> "SCLE" \notin px_icr \/ "ALD" \in px_isr
  <2>1. px_lost' = ("SCLE" \notin px_icr \/ "ALD" \in px_isr)
    BY DEF PxSetup
  <2>. QED BY <2>1
<1>3. /\ "SAD" \notin px_isr /\ "SSD" \notin px_isr /\ "ITE" \notin px_isr /\ "IRF" \notin px_isr
      /\ "BED" \notin px_isr
  BY PxIrqIs
<1>4. /\ "SCLE" \in px_icr' <=> "SCLE" \in px_icr
      /\ "TB" \in px_icr' /\ "START" \in px_icr' /\ "STOP" \notin px_icr'
  BY <1>1
<1>5. px_args \in PxTransfers /\ px_args \in Seq(PxMessage) /\ Len(px_args) \in Nat \ {0}
  BY <1>1, PxArgs DEF PxInv, PxCalled
<1>6. PxType'
  BY <1>1, <1>2 DEF PxInv, PxType
<1>7. PxAsSlave'
  BY <1>1, <1>3, <1>4 DEF PxInv, PxAsSlave
<1>8. PxWorking'
  <2>1. CASE "SCLE" \notin px_icr
    BY <1>2, <1>4, <2>1 DEF PxWorking
  <2>2. CASE "SCLE" \in px_icr
    <3>1. PxThis' = px_args[1] /\ PxHead(px_args', px_msg') = 1
      BY <1>1 DEF PxThis, PxHead
    <3>2. PxStarting'
      BY <1>1, <1>4, <3>1 DEF PxStarting
    <3>3. SoFar(PxParts(px_args), 1, 0) = <<>>
      <4>. DEFINE P == PxParts(px_args)
      <4>1. P \in Seq(Seq(PxEvents)) /\ Len(P) = Len(px_args)
        BY <1>5, PxSeqs
      <4>2. 1 \in 1 .. Len(px_args) /\ 0 \in 0 .. Len(px_args)
        BY <1>5
      <4>3. SoFar(P, 1, 0) = Flat(P, 1 - 1)
        BY <1>5, <4>2, PxEnds
      <4>. HIDE DEF P
      <4>4. Flat(P, 0) = <<>>
        BY <4>1, <4>2, FlatType
      <4>5. SoFar(P, 1, 0) = <<>>
        BY <4>3, <4>4
      <4>. QED BY <4>5 DEF P
    <3>4. PxAt(0)'
      BY <1>1, <3>3 DEF PxAt
    <3>5. PxAsking'
      BY <1>1, <1>2, <1>3, <1>4, <3>2, <3>4 DEF PxAsking, PxAskStart
    <3>. QED BY <1>4, <2>2, <3>5 DEF PxWorking
  <2>. QED BY <2>1, <2>2
<1>9. PxPlace'
  <2>1. PxPlaced(<<>>, 1, 0)
    BY DEF PxPlaced
  <2>2. PxKeeps(px_args, px_msg, px_ptr, px_stored)'
    BY <1>1, <2>1 DEF PxKeeps
  <2>3. px_msg' \in 1 .. px_num' /\ px_idx' = px_msg' - 1 /\ px_ptr' \in Nat
    BY <1>1, <1>5
  <2>. QED BY <1>1, <2>2, <2>3 DEF PxPlace
<1>10. PxCalled'
  <2>1. px_msg' \in Nat /\ px_msg' # 0 /\ px_num' # 0
    BY <1>1, <1>5
  <2>2. px_idx' # Len(px_args')
    BY <1>1, <1>5
  <2>3. PxOn'
    BY <1>8, <1>9 DEF PxOn
  <2>. QED BY <1>1, <1>5, <2>1, <2>2, <2>3 DEF PxCalled, PxWaits, PxAfter
<1>. QED BY <1>6, <1>7, <1>10 DEF PxInv

(* A call returns.                                                         *)
LEMMA PxReturnInv ==
  ASSUME PxInv, ~ px_torn, PxReturn
  PROVE  PxInv'
<1>1. /\ px_pc' = "idle" /\ px_late' = FALSE /\ px_lost' = FALSE
      /\ UNCHANGED <<px_msg, px_num, px_icr, px_torn, px_isr, px_rwm, px_bus>>
  BY DEF PxReturn, PxElse, pxCursor
<1>2. PxType' /\ PxAsSlave'
  BY <1>1 DEF PxInv, PxType, PxAsSlave
<1>3. px_msg \in Nat /\ (px_msg = 0 <=> px_num = 0)
  BY PxMsgIs
<1>4. PxCalled'
  BY <1>1, <1>3 DEF PxCalled, PxWaits, PxAfter
<1>. QED BY <1>2, <1>4 DEF PxInv

(* Every step.                                                             *)
LEMMA PxStepInv ==
  ASSUME PxInv, [PxNext]_pxVars
  PROVE  PxInv'
<1>1. CASE UNCHANGED pxVars
  <2>1. UNCHANGED <<px_msg, px_msgs, px_num, px_idx, px_ptr, px_icr, px_isr, px_rwm, px_bus, px_db, px_wire, px_stored,
                    px_pc, px_args, px_ret, px_late, px_torn, px_lost>>
    BY <1>1 DEF pxVars, pxCursor, pxUnit, pxRecord, pxCaller
  <2>2. PxType' /\ (PxAsSlave => PxAsSlave')
    BY <2>1 DEF PxInv, PxType, PxAsSlave
  <2>3. PxDone => PxDone'
    BY <2>1 DEF PxDone, PxReady
  <2>4. PxThis' = PxThis /\ PxHead(px_args', px_msg') = PxHead(px_args, px_msg)
    BY <2>1 DEF PxThis
  <2>5. /\ PxStarting => PxStarting'
        /\ PxSending => PxSending'
        /\ PxReading => PxReading'
    <3>1. PxStarting => PxStarting'
      BY <2>1, <2>4 DEF PxStarting
    <3>2. PxSending => PxSending'
      BY <2>1, <2>4 DEF PxSending
    <3>3. PxReading => PxReading'
      BY <2>1, <2>4 DEF PxReading
    <3>. QED BY <3>1, <3>2, <3>3
  <2>6. \A j : (PxAt(j) => PxAt(j)') /\ (PxEnd(j) => PxEnd(j)')
    BY <2>1 DEF PxAt, PxEnd
  <2>7. PxAsking => PxAsking'
    BY <2>1, <2>4, <2>5, <2>6 DEF PxAsking, PxAskStart, PxAskSend, PxAskRead, PxAskLost
  <2>8. PxMoved => PxMoved'
    BY <2>1, <2>4, <2>5, <2>6 DEF PxMoved, PxMovedStart, PxMovedSend, PxMovedRead, PxMovedBad, PxEmptied
  <2>9. PxOn => PxOn'
    <3>1. PxWorking => PxWorking'
      BY <2>1, <2>7, <2>8 DEF PxWorking, PxDead, PxAddressedNow
    <3>2. PxPlace => PxPlace'
      BY <2>1 DEF PxPlace
    <3>. QED BY <3>1, <3>2 DEF PxOn
  <2>10. PxCalled => PxCalled'
    BY <2>1, <2>3, <2>9 DEF PxCalled
  <2>. QED BY <2>1, <2>2, <2>10 DEF PxInv
<1>2. CASE PxNext
  <2>1. ~ px_torn
    BY <1>2 DEF PxNext
  <2>2. CASE PxHandler
    BY <2>1, <2>2, PxSlaveStartInv, PxSlaveStopInv, PxSlaveByteInv, PxIgnoredInv, PxRefusedInv, PxReadFirstInv,
       PxWriteByteInv, PxWriteOnInv, PxWriteStartInv, PxWriteEndInv, PxReadByteInv DEF PxHandler
  <2>3. CASE PxWorld
    BY <2>1, <2>3, PxSentInv, PxReceivedInv, PxLoseInv, PxOthersInv DEF PxWorld
  <2>4. CASE PxXfer
    BY <2>1, <2>4, PxXferInv
  <2>5. CASE PxProcess
    BY <2>1, <2>5, PxQuietInv, PxIcrWriteInv, PxSetupInv, PxReturnInv DEF PxProcess
  <2>. QED BY <1>2, <2>2, <2>3, <2>4, <2>5 DEF PxNext
<1>. QED BY <1>1, <1>2

(* The invariant implies the property.                                     *)
LEMMA PxInvKept == PxInv => PxaKept
<1>. SUFFICES ASSUME PxInv, ~ px_torn PROVE PxFaithful /\ PxSomebodyWorks /\ PxSlaveGoesOn
  BY DEF PxaKept
<1>1. PxFaithful
  <2>. SUFFICES ASSUME px_pc = "done", px_ret = Len(px_args), PxServed(px_args), ~ px_late
                PROVE  px_wire = PxExpected(px_args) /\ px_stored = PxPlaces(px_args)
    BY DEF PxFaithful
  <2>1. PxDone
    BY DEF PxInv, PxCalled, PxAfter
  <2>. QED BY <2>1 DEF PxDone
<1>2. PxSomebodyWorks
  <2>. SUFFICES ASSUME px_pc = "wait", px_num # 0, ~ px_lost, ~ PxIrq, px_bus \notin {"other", "slave", "ending"}
                PROVE  PxReady /\ ("START" \in px_icr \/ px_bus = "ours")
    BY DEF PxSomebodyWorks
  <2>1. PxWorking
    BY PxMsgIs, PxPlaceIs
  <2>2. /\ "SAD" \notin px_isr /\ "SSD" \notin px_isr /\ "ITE" \notin px_isr /\ "IRF" \notin px_isr
    BY PxIrqIs
  <2>3. "SCLE" \in px_icr /\ PxAsking
    BY <2>1, <2>2 DEF PxWorking, PxAddressedNow, PxMoved, PxMovedStart, PxMovedSend, PxMovedRead, PxMovedBad,
                      PxEmptied, PxDead
  <2>4. "TB" \in px_icr /\ ("START" \in px_icr \/ px_bus = "ours")
    BY <2>3 DEF PxAsking, PxAskStart, PxStarting, PxAskSend, PxAskRead, PxAskLost
  <2>. QED BY <2>3, <2>4 DEF PxReady
<1>3. PxSlaveGoesOn
  BY PxIrqIs DEF PxSlaveGoesOn, PxInv, PxAsSlave
<1>. QED BY <1>1, <1>2, <1>3

(* The PXA's: likewise, with other masters that take the bus and address   *)
(* the unit as a slave, whom it never keeps waiting; as long as the        *)
(* handler has not changed ICR between the process's read and write of it. *)
THEOREM PxaServed == PxSpec => []PxaKept
<1>1. PxInit => PxInv
  BY PxInitInv
<1>2. PxInv /\ [PxNext]_pxVars => PxInv'
  BY PxStepInv
<1>3. PxInv => PxaKept
  BY PxInvKept
<1>. QED BY <1>1, <1>2, <1>3, PTL DEF PxSpec

-----------------------------------------------------------------------------
(* Whatever bus: what a driver reports as done was done.                   *)
THEOREM EveryBusServed == Spec /\ PxSpec /\ MvSpec /\ OcSpec => []BussesServed
BY SuccessIsWhole, PxaServed, MarvellServed, OpenCoresServed, PTL DEF BussesServed
=============================================================================
