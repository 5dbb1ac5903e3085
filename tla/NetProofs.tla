----------------------------- MODULE NetProofs ------------------------------
(***************************************************************************)
(* Proofs about the two network drivers: what they keep of their frames,   *)
(* their counts and their claims for rings of any size, any number of      *)
(* receive commands and frames of any length.                              *)
(***************************************************************************)
EXTENDS Elp3c505, Cs89x0, FiniteSetTheorems, SequenceTheorems, TLAPS

-----------------------------------------------------------------------------
(* The 3c505: the shapes of its state.                                     *)
ElTransfers == [dir : {"up", "down"}, frame : Nat]
ElBlocks == [cmd : {"rxdone", "rxbad", "txdone", "stats"}, frame : Nat]
ElAdapters ==
  [busy : BOOLEAN, dmaing : BOOLEAN, dir : {"up", "down"}, skb : Nat,
   rx_active : Nat, backlog : Seq(Nat), sem : {"no", "stats", "xmit"}]
ElCards ==
  [rx : Nat, want : Seq(ElTransfers), out : Seq(ElBlocks), done : BOOLEAN, air : Nat]
ElType ==
  /\ adapter \in ElAdapters /\ tx_pcb \in {"stats", "xmit"}
  /\ el_irq \in {"no", "top", "pcb"}
  /\ el_pc \in {"user", "filled", "sending", "acking", "waiting"}
  /\ el_running \in BOOLEAN /\ el_stopped \in BOOLEAN
  /\ el_card \in ElCards /\ el_armed \in {"no", "up", "down"}
  /\ el_left \in [events : Nat, tx : Nat, open : BOOLEAN]
  /\ el_arrived \in Seq(Nat) /\ el_delivered \in Seq(Nat)
  /\ el_sent \in Seq(Nat) /\ el_freed \in Seq(Nat)
  /\ el_odd \subseteq {"bad", "timeout", "squeeze", "mixed"}

(* What check_3c505_dma leaves.                                            *)
LEMMA ElCheckedType ==
  ASSUME ElType, NEW c \in ElChecked
  PROVE  /\ c.a \in ElAdapters /\ c.armed \in {"no", "up", "down"}
         /\ c.odd \subseteq {"bad", "timeout", "squeeze", "mixed"}
         /\ \/ c.a = adapter /\ c.armed = el_armed /\ c.odd = el_odd
            \/ /\ c.a.backlog = adapter.backlog /\ c.a.sem = adapter.sem /\ ~ c.a.dmaing /\ ~ c.a.busy
               /\ c.armed = "no" /\ el_odd = {} /\ c.odd = {"timeout"}
<1>. DEFINE k == IF adapter.rx_active > 0 THEN adapter.rx_active - 1 ELSE 0
            f == [adapter EXCEPT !.dmaing = FALSE, !.busy = FALSE, !.rx_active = k]
<1>1. adapter \in ElAdapters /\ k \in Nat
  BY DEF ElType, ElAdapters
<1>2. /\ f \in ElAdapters /\ f.backlog = adapter.backlog /\ f.sem = adapter.sem /\ f.skb = adapter.skb
      /\ f.dir = adapter.dir /\ f.rx_active = k /\ ~ f.dmaing /\ ~ f.busy
  <2>. HIDE DEF k
  <2>. QED BY <1>1 DEF ElAdapters
<1>3. \/ c = [a |-> adapter, armed |-> el_armed, odd |-> el_odd]
      \/ el_odd = {} /\ adapter.dmaing /\ c = [a |-> f, armed |-> "no", odd |-> el_odd \cup {"timeout"}]
  <2>1. f = [adapter EXCEPT !.dmaing = FALSE, !.busy = FALSE, !.rx_active = IF @ > 0 THEN @ - 1 ELSE 0]
    BY <1>1 DEF ElAdapters
  <2>. HIDE DEF f
  <2>. QED BY <2>1 DEF ElChecked
<1>. HIDE DEF f
<1>4. CASE c = [a |-> adapter, armed |-> el_armed, odd |-> el_odd]
  <2>1. c.a = adapter /\ c.armed = el_armed /\ c.odd = el_odd
    BY <1>4
  <2>. QED BY <2>1 DEF ElType
<1>5. CASE el_odd = {} /\ adapter.dmaing /\ c = [a |-> f, armed |-> "no", odd |-> el_odd \cup {"timeout"}]
  <2>1. c.a = f /\ c.armed = "no" /\ c.odd = {"timeout"}
    BY <1>5
  <2>. QED BY <1>2, <1>5, <2>1
<1>. QED BY <1>3, <1>4, <1>5

(* prime_rx posts as many commands as are missing, at the most.            *)
LEMMA ElPrimedType ==
  ASSUME NEW a \in ElAdapters, NEW k \in ElPrimed(a)
  PROVE  k \in Nat
BY ElpAssumption DEF ElPrimed, ElAdapters

(* receive_packet, from any adapter.                                       *)
LEMMA ElReceivePacketType ==
  ASSUME ElType, NEW a \in ElAdapters, ElReceivePacket(a)
  PROVE  /\ adapter' \in ElAdapters /\ el_armed' \in {"no", "up", "down"}
         /\ el_odd' \subseteq {"bad", "timeout", "squeeze", "mixed"}
         /\ adapter'.backlog = a.backlog /\ adapter'.sem = a.sem /\ adapter'.busy = a.busy
         /\ \/ /\ adapter'.dmaing /\ adapter'.dir = "up" /\ el_armed' = "up" /\ el_odd' = el_odd
               /\ adapter'.rx_active = IF a.rx_active > 0 THEN a.rx_active - 1 ELSE 0
            \/ adapter' = a /\ el_armed' = "no" /\ el_odd = {} /\ el_odd' = {"squeeze"}
<1>1. CASE adapter' = ElReceived(a) /\ el_armed' = "up" /\ UNCHANGED el_odd
  <2>. DEFINE k == IF a.rx_active > 0 THEN a.rx_active - 1 ELSE 0
              f == [a EXCEPT !.dmaing = TRUE, !.dir = "up", !.skb = 0, !.rx_active = k]
  <2>1. k \in Nat
    BY DEF ElAdapters
  <2>2. f = ElReceived(a)
    BY DEF ElReceived, ElAdapters
  <2>3. /\ f \in ElAdapters /\ f.backlog = a.backlog /\ f.sem = a.sem /\ f.busy = a.busy
        /\ f.dmaing /\ f.dir = "up" /\ f.rx_active = k
    <3>. HIDE DEF k
    <3>. QED BY <2>1 DEF ElAdapters
  <2>. HIDE DEF f
  <2>. QED BY <1>1, <2>2, <2>3 DEF ElType
<1>2. CASE adapter' = a /\ el_armed' = "no" /\ el_odd = {} /\ el_odd' = {"squeeze"}
  BY <1>2
<1>. QED BY <1>1, <1>2 DEF ElReceivePacket

(* The card's answer to a block.                                           *)
LEMMA ElAckType ==
  ASSUME ElType, el_card.out # <<>>
  PROVE  Head(el_card.out) \in ElBlocks /\ ElAck(Head(el_card.out)) \in ElCards
<1>. DEFINE out == el_card.out pcb == Head(out)
<1>1. /\ out \in Seq(ElBlocks) /\ out # <<>> /\ el_card.want \in Seq(ElTransfers)
      /\ el_card \in ElCards
  BY DEF ElType, ElCards
<1>2. pcb \in ElBlocks /\ Tail(out) \in Seq(ElBlocks)
  BY <1>1
<1>3. [dir |-> "up", frame |-> pcb.frame] \in ElTransfers
  BY <1>2 DEF ElTransfers, ElBlocks
<1>4. Append(el_card.want, [dir |-> "up", frame |-> pcb.frame]) \in Seq(ElTransfers)
  BY <1>1, <1>3
<1>. QED BY <1>1, <1>2, <1>4 DEF ElAck, ElCards

(* The initial state has these shapes.                                     *)
LEMMA ElTypeInit == ElInit => ElType
<1>. SUFFICES ASSUME ElInit PROVE ElType
  OBVIOUS
<1>1. ElOpened \in ElAdapters /\ ElCardReset \in ElCards
  BY ElpAssumption DEF ElOpened, ElCardReset, ElAdapters, ElCards
<1>2. el_left \in [events : Nat, tx : Nat, open : BOOLEAN]
  BY ElpAssumption DEF ElInit
<1>3. /\ el_arrived = <<>> /\ el_delivered = <<>> /\ el_sent = <<>> /\ el_freed = <<>>
      /\ adapter = ElOpened /\ el_card = ElCardReset /\ tx_pcb = "stats" /\ el_irq = "no"
      /\ el_pc = "user" /\ el_running \in BOOLEAN /\ el_stopped = FALSE /\ el_armed = "no" /\ el_odd = {}
  BY DEF ElInit
<1>4. <<>> \in Seq(Nat)
  OBVIOUS
<1>. QED BY <1>1, <1>2, <1>3, <1>4 DEF ElType

(* Every step keeps them.                                                  *)
LEMMA ElTypeNext == ElType /\ [ElNext]_elVars => ElType'
<1>. SUFFICES ASSUME ElType, [ElNext]_elVars PROVE ElType'
  OBVIOUS
<1>. USE DEF ElType, elHistory, elStack
<1>1. CASE UNCHANGED elVars
  BY <1>1 DEF elVars
<1>2. ASSUME NEW kind \in {"rxdone", "rxbad"}, ElArrive(kind) PROVE ElType'
  <2>1. [cmd |-> kind, frame |-> el_left.events] \in ElBlocks
    BY DEF ElBlocks
  <2>2. /\ el_card.rx - 1 \in Nat /\ el_left.events - 1 \in Nat
        /\ Append(el_card.out, [cmd |-> kind, frame |-> el_left.events]) \in Seq(ElBlocks)
        /\ Append(el_arrived, el_left.events) \in Seq(Nat)
    BY <1>2, <2>1 DEF ElArrive, ElCards
  <2>3. el_card' \in ElCards
    BY <1>2, <2>2 DEF ElArrive, ElCards
  <2>4. el_arrived' \in Seq(Nat) /\ el_odd' \subseteq {"bad", "timeout", "squeeze", "mixed"}
    BY <1>2, <2>2 DEF ElArrive
  <2>5. el_left' \in [events : Nat, tx : Nat, open : BOOLEAN]
    BY <1>2, <2>2 DEF ElArrive
  <2>. QED BY <1>2, <2>3, <2>4, <2>5 DEF ElArrive
<1>3. CASE ElTransfer
  <2>1. /\ Head(el_card.want) \in ElTransfers /\ Tail(el_card.want) \in Seq(ElTransfers)
    BY <1>3 DEF ElTransfer, ElCards
  <2>2. el_card' \in ElCards
    <3>. DEFINE k == el_card.air + (IF el_armed = "down" THEN 1 ELSE 0)
    <3>1. k \in Nat
      BY DEF ElCards
    <3>2. el_card' = [el_card EXCEPT !.done = TRUE, !.want = Tail(@), !.air = k]
      BY <1>3 DEF ElTransfer, ElCards
    <3>. HIDE DEF k
    <3>. QED BY <2>1, <3>1, <3>2 DEF ElCards
  <2>3. Head(el_card.want).frame \in Nat /\ adapter.skb \in Nat
    BY <2>1 DEF ElTransfers, ElAdapters
  <2>4. el_sent' \in Seq(Nat)
    BY <1>3, <2>3 DEF ElTransfer
  <2>5. adapter' \in ElAdapters
    BY <1>3, <2>3 DEF ElTransfer, ElAdapters
  <2>. QED BY <1>3, <2>2, <2>4, <2>5 DEF ElTransfer
<1>4. CASE ElAired
  <2>1. [cmd |-> "txdone", frame |-> 0] \in ElBlocks
    BY DEF ElBlocks
  <2>2. Append(el_card.out, [cmd |-> "txdone", frame |-> 0]) \in Seq(ElBlocks) /\ el_card.air - 1 \in Nat
    BY <1>4, <2>1 DEF ElAired, ElCards
  <2>3. el_card' \in ElCards
    BY <1>4, <2>2 DEF ElAired, ElCards
  <2>. QED BY <1>4, <2>3 DEF ElAired
<1>5. CASE ElInterrupt \/ ElTurn \/ ElTimeout \/ ElStatsEnd \/ ElDown
  BY <1>5 DEF ElInterrupt, ElTurn, ElTimeout, ElStatsEnd, ElDown
<1>6. CASE ElDmaDone
  <2>. DEFINE a == [adapter EXCEPT !.dmaing = FALSE] b == [a EXCEPT !.backlog = Tail(@)]
  <2>1. /\ a \in ElAdapters /\ a.backlog = adapter.backlog
        /\ a.backlog # <<>> => b \in ElAdapters
    <3>1. a \in ElAdapters /\ a.backlog = adapter.backlog
      BY DEF ElAdapters
    <3>2. a.backlog # <<>> => Tail(a.backlog) \in Seq(Nat)
      BY <3>1 DEF ElAdapters
    <3>. HIDE DEF a
    <3>. QED BY <3>1, <3>2 DEF ElAdapters
  <2>2. /\ adapter' \in ElAdapters /\ el_armed' \in {"no", "up", "down"}
        /\ el_odd' \subseteq {"bad", "timeout", "squeeze", "mixed"}
    <3>1. ElNextFrame(a)
      BY <1>6 DEF ElDmaDone
    <3>2. CASE a.backlog # <<>>
      <4>. HIDE DEF a, b, ElType
      <4>1. ElReceivePacket([a EXCEPT !.backlog = Tail(@)])
        BY <3>1, <3>2 DEF ElNextFrame
      <4>2. ElReceivePacket(b)
        BY <4>1 DEF b
      <4>. QED BY <2>1, <3>2, <4>2, ElReceivePacketType
    <3>3. CASE a.backlog = <<>>
      <4>. HIDE DEF a
      <4>. QED BY <2>1, <3>1, <3>3 DEF ElNextFrame, ElAdapters
    <3>. QED BY <3>2, <3>3
  <2>3. el_card' \in ElCards
    BY <1>6 DEF ElDmaDone, ElCards
  <2>4. el_freed' \in Seq(Nat) /\ el_delivered' \in Seq(Nat)
    <3>1. adapter.skb \in Nat
      BY DEF ElAdapters
    <3>2. Append(el_freed, adapter.skb) \in Seq(Nat) /\ Append(el_delivered, adapter.skb) \in Seq(Nat)
      BY <3>1
    <3>3. /\ el_freed' = el_freed \/ el_freed' = Append(el_freed, adapter.skb)
          /\ el_delivered' = el_delivered \/ el_delivered' = Append(el_delivered, adapter.skb)
      BY <1>6 DEF ElDmaDone
    <3>. QED BY <3>2, <3>3
  <2>. QED BY <1>6, <2>2, <2>3, <2>4 DEF ElDmaDone
<1>7. CASE ElDmaCheck
  <2>1. PICK c \in ElChecked : adapter' = c.a /\ el_armed' = c.armed /\ el_odd' = c.odd
    BY <1>7 DEF ElDmaCheck
  <2>2. c.a \in ElAdapters /\ c.armed \in {"no", "up", "down"} /\ c.odd \subseteq {"bad", "timeout", "squeeze", "mixed"}
    BY ElCheckedType
  <2>. QED BY <1>7, <2>1, <2>2 DEF ElDmaCheck
<1>8. CASE ElRxPcb
  <2>1. el_card' \in ElCards
    BY <1>8, ElAckType DEF ElRxPcb
  <2>2. /\ adapter' \in ElAdapters /\ el_armed' \in {"no", "up", "down"}
        /\ el_odd' \subseteq {"bad", "timeout", "squeeze", "mixed"}
    <3>. DEFINE pcb == Head(el_card.out) a == [adapter EXCEPT !.busy = TRUE]
    <3>1. pcb \in ElBlocks /\ a \in ElAdapters
      BY <1>8, ElAckType DEF ElRxPcb, ElAdapters
    <3>2. \/ UNCHANGED <<adapter, el_armed, el_odd>>
          \/ ElAnnounced(pcb)
          \/ adapter' = a /\ UNCHANGED <<el_armed, el_odd>>
      BY <1>8 DEF ElRxPcb
    <3>3. CASE ElAnnounced(pcb)
      <4>1. CASE adapter.busy
        <5>1. Append(adapter.backlog, pcb.frame) \in Seq(Nat)
          BY <3>1 DEF ElBlocks, ElAdapters
        <5>. QED BY <3>3, <4>1, <5>1 DEF ElAnnounced, ElAdapters
      <4>2. CASE ~ adapter.busy
        <5>. HIDE DEF a, pcb, ElType
        <5>1. ElReceivePacket(a)
          BY <3>3, <4>2 DEF ElAnnounced, a
        <5>. QED BY <3>1, <5>1, ElReceivePacketType
      <4>. QED BY <4>1, <4>2
    <3>. QED BY <3>1, <3>2, <3>3
  <2>. QED BY <1>8, <2>1, <2>2 DEF ElRxPcb
<1>9. CASE ElOtherPcb
  <2>1. Tail(el_card.out) \in Seq(ElBlocks)
    BY <1>9 DEF ElOtherPcb, ElCards
  <2>2. el_card' \in ElCards
    BY <1>9, <2>1 DEF ElOtherPcb, ElCards
  <2>3. el_stopped' \in BOOLEAN
    BY <1>9 DEF ElOtherPcb
  <2>. QED BY <1>9, <2>2, <2>3 DEF ElOtherPcb
<1>10. CASE ElIrqEnd
  <2>1. PICK k \in ElPrimed(adapter) : adapter' = [adapter EXCEPT !.rx_active = @ + k]
                                       /\ el_card' = [el_card EXCEPT !.rx = @ + k]
    BY <1>10 DEF ElIrqEnd
  <2>2. k \in Nat
    BY ElPrimedType
  <2>3. adapter.rx_active + k \in Nat /\ el_card.rx + k \in Nat
    BY <2>2 DEF ElAdapters, ElCards
  <2>4. adapter' \in ElAdapters
    BY <2>1, <2>3 DEF ElAdapters
  <2>5. el_card' \in ElCards
    BY <2>1, <2>3 DEF ElCards
  <2>. QED BY <1>10, <2>4, <2>5 DEF ElIrqEnd
<1>11. CASE ElXmit
  <2>1. PICK c \in ElChecked :
          /\ \/ (ElXmitBusy(c.a) \/ ElXmitRefused(c.a)) /\ el_armed' = c.armed
             \/ ElXmitTaken(c.a) /\ el_armed' = "down"
          /\ el_odd' = c.odd \cup IF tx_pcb' # tx_pcb THEN ElMixed ELSE {}
    BY <1>11 DEF ElXmit
  <2>2. c.a \in ElAdapters /\ c.armed \in {"no", "up", "down"} /\ c.odd \subseteq {"bad", "timeout", "squeeze", "mixed"}
    BY ElCheckedType
  <2>3. CASE ElXmitBusy(c.a) \/ ElXmitRefused(c.a)
    <3>1. adapter' \in ElAdapters
      BY <2>2, <2>3 DEF ElXmitBusy, ElXmitRefused, ElRefused, ElAdapters
    <3>2. /\ tx_pcb' \in {"stats", "xmit"} /\ el_stopped' \in BOOLEAN /\ UNCHANGED <<el_card, el_left>>
          /\ el_armed' \in {"no", "up", "down"}
      BY <2>1, <2>2, <2>3 DEF ElXmitBusy, ElXmitRefused, ElXmitTaken
    <3>. QED BY <1>11, <2>1, <2>2, <3>1, <3>2 DEF ElXmit, ElMixed
  <2>4. CASE ElXmitTaken(c.a)
    <3>. DEFINE b == [c.a EXCEPT !.busy = TRUE, !.dmaing = TRUE, !.dir = "down", !.skb = el_left.tx]
    <3>1. PICK k \in ElPrimed(b) :
            /\ adapter' = [b EXCEPT !.rx_active = @ + k]
            /\ el_card' = [el_card EXCEPT !.rx = @ + k,
                                          !.want = Append(@, [dir |-> "down", frame |-> el_left.tx])]
      BY <2>4 DEF ElXmitTaken
    <3>2. b \in ElAdapters
      BY <2>2 DEF ElAdapters
    <3>3. k \in Nat
      <4>. HIDE DEF b
      <4>. QED BY <3>2, ElPrimedType
    <3>4. adapter' \in ElAdapters
      <4>1. b.rx_active + k \in Nat
        <5>. HIDE DEF b
        <5>. QED BY <3>2, <3>3 DEF ElAdapters
      <4>. HIDE DEF b
      <4>. QED BY <3>1, <3>2, <4>1 DEF ElAdapters
    <3>5. [dir |-> "down", frame |-> el_left.tx] \in ElTransfers
      BY DEF ElTransfers
    <3>6. el_card' \in ElCards
      <4>1. /\ el_card.rx + k \in Nat
            /\ Append(el_card.want, [dir |-> "down", frame |-> el_left.tx]) \in Seq(ElTransfers)
        BY <3>3, <3>5 DEF ElCards
      <4>. QED BY <3>1, <4>1 DEF ElCards
    <3>7. el_left' \in [events : Nat, tx : Nat, open : BOOLEAN]
      <4>1. el_left.tx > 0 /\ el_left' = [el_left EXCEPT !.tx = @ - 1]
        BY <1>11, <2>4 DEF ElXmit, ElXmitTaken
      <4>2. el_left.tx - 1 \in Nat
        BY <4>1
      <4>. QED BY <4>1, <4>2
    <3>. QED BY <1>11, <2>1, <2>2, <2>4, <3>4, <3>6, <3>7 DEF ElXmit, ElXmitTaken, ElMixed
  <2>. QED BY <2>1, <2>3, <2>4
<1>12. CASE ElStats
  <2>1. el_left.events - 1 \in Nat
    BY <1>12 DEF ElStats
  <2>2. el_left' \in [events : Nat, tx : Nat, open : BOOLEAN]
    BY <1>12, <2>1 DEF ElStats
  <2>. QED BY <1>12, <2>2 DEF ElStats
<1>13. CASE ElSendFirst
  <2>1. PICK c \in ElChecked :
          /\ IF ElMaySend(c.a)
             THEN adapter' = [c.a EXCEPT !.sem = tx_pcb] /\ el_pc' = "sending"
             ELSE adapter' = c.a /\ el_pc' = "user"
          /\ el_armed' = c.armed /\ el_odd' = c.odd
    BY <1>13 DEF ElSendFirst
  <2>2. c.a \in ElAdapters /\ c.armed \in {"no", "up", "down"} /\ c.odd \subseteq {"bad", "timeout", "squeeze", "mixed"}
    BY ElCheckedType
  <2>. QED BY <1>13, <2>1, <2>2 DEF ElSendFirst, ElAdapters
<1>14. CASE ElSendRest
  <2>1. [cmd |-> "stats", frame |-> 0] \in ElBlocks /\ [dir |-> "down", frame |-> 0] \in ElTransfers
    BY DEF ElBlocks, ElTransfers
  <2>2. /\ Append(el_card.out, [cmd |-> "stats", frame |-> 0]) \in Seq(ElBlocks)
        /\ Append(el_card.want, [dir |-> "down", frame |-> 0]) \in Seq(ElTransfers)
    BY <2>1 DEF ElCards
  <2>3. el_card' \in ElCards
    BY <1>14, <2>2 DEF ElSendRest, ElCards
  <2>. QED BY <1>14, <2>3 DEF ElSendRest
<1>15. CASE ElSendEnd
  BY <1>15 DEF ElSendEnd, ElAdapters
<1>16. CASE ElClose
  BY <1>16 DEF ElClose
<1>17. CASE ElOpen
  <2>1. ElOpened \in ElAdapters /\ ElCardReset \in ElCards
    BY ElpAssumption DEF ElOpened, ElCardReset, ElAdapters, ElCards
  <2>2. el_left' \in [events : Nat, tx : Nat, open : BOOLEAN]
    BY <1>17 DEF ElOpen
  <2>3. /\ el_arrived' = <<>> /\ el_delivered' = <<>> /\ el_sent' = <<>> /\ el_freed' = <<>>
        /\ adapter' = ElOpened /\ el_card' = ElCardReset /\ el_running' /\ ~ el_stopped'
        /\ el_armed' = "no" /\ tx_pcb' = "stats" /\ el_odd' = {} /\ UNCHANGED <<el_irq, el_pc>>
        /\ el_running' = TRUE /\ el_stopped' = FALSE
    BY <1>17 DEF ElOpen
  <2>4. <<>> \in Seq(Nat)
    OBVIOUS
  <2>. QED BY <2>1, <2>2, <2>3, <2>4
<1>. QED BY <1>1, <1>2, <1>3, <1>4, <1>5, <1>6, <1>7, <1>8, <1>9, <1>10, <1>11, <1>12, <1>13,
            <1>14, <1>15, <1>16, <1>17 DEF ElNext
-----------------------------------------------------------------------------
(* What the longer steps do, field by field.                               *)

(* After a transfer: the next frame of the backlog, or a free adapter.     *)
LEMMA ElDmaDoneEffect ==
  ASSUME ElType, ElDmaDone
  PROVE  /\ el_card.done /\ ~ el_card'.done /\ el_card'.want = el_card.want
         /\ el_card'.out = el_card.out /\ el_card'.rx = el_card.rx
         /\ adapter'.sem = adapter.sem
         /\ \/ /\ adapter.backlog # <<>> /\ adapter'.backlog = Tail(adapter.backlog)
               /\ adapter'.busy = adapter.busy
               /\ \/ /\ adapter'.dmaing /\ adapter'.dir = "up" /\ el_armed' = "up" /\ el_odd' = el_odd
                     /\ adapter'.rx_active = IF adapter.rx_active > 0 THEN adapter.rx_active - 1 ELSE 0
                  \/ /\ ~ adapter'.dmaing /\ el_armed' = "no" /\ el_odd = {} /\ el_odd' = {"squeeze"}
            \/ /\ adapter.backlog = <<>> /\ adapter'.backlog = <<>> /\ ~ adapter'.busy
               /\ ~ adapter'.dmaing /\ el_armed' = "no" /\ el_odd' = el_odd
               /\ adapter'.rx_active = adapter.rx_active
<1>. DEFINE a == [adapter EXCEPT !.dmaing = FALSE]
<1>1. /\ a \in ElAdapters /\ a.backlog = adapter.backlog /\ a.busy = adapter.busy /\ ~ a.dmaing
      /\ a.sem = adapter.sem /\ a.rx_active = adapter.rx_active
  BY DEF ElType, ElAdapters
<1>2. /\ el_card.done /\ ~ el_card'.done /\ el_card'.want = el_card.want
      /\ el_card'.out = el_card.out /\ el_card'.rx = el_card.rx
  BY DEF ElDmaDone, ElType, ElCards
<1>3. ElNextFrame(a)
  BY DEF ElDmaDone
<1>. HIDE DEF a
<1>4. CASE a.backlog # <<>>
  <2>. DEFINE b == [a EXCEPT !.backlog = Tail(a.backlog)]
  <2>1. Tail(a.backlog) \in Seq(Nat)
    BY <1>1, <1>4 DEF ElAdapters
  <2>2. /\ b \in ElAdapters /\ b.backlog = Tail(a.backlog) /\ b.busy = a.busy /\ ~ b.dmaing
        /\ b.sem = a.sem /\ b.rx_active = a.rx_active
    BY <1>1, <2>1 DEF ElAdapters
  <2>3. ElReceivePacket(b)
    BY <1>3, <1>4 DEF ElNextFrame
  <2>. HIDE DEF b
  <2>. QED BY <1>1, <1>2, <1>4, <2>2, <2>3, ElReceivePacketType
<1>5. CASE a.backlog = <<>>
  BY <1>1, <1>2, <1>3, <1>5 DEF ElNextFrame, ElAdapters
<1>. QED BY <1>4, <1>5

(* A block that announces a frame: refused, or acknowledged and noted or   *)
(* fetched, or only acknowledged.                                          *)
LEMMA ElRxPcbEffect ==
  ASSUME ElType, ElRxPcb
  PROVE  /\ el_card'.done = el_card.done /\ el_card'.rx = el_card.rx /\ adapter'.sem = adapter.sem
         /\ el_card.out # <<>> /\ Head(el_card.out).cmd \in {"rxdone", "rxbad"}
         /\ \/ UNCHANGED <<adapter, el_card, el_armed, el_odd>>
            \/ /\ el_card'.out = Tail(el_card.out)
               /\ \/ /\ Head(el_card.out).cmd = "rxdone"
                     /\ el_card'.want = Append(el_card.want, [dir |-> "up", frame |-> Head(el_card.out).frame])
                  \/ Head(el_card.out).cmd = "rxbad" /\ el_card'.want = el_card.want
               /\ \/ /\ el_running /\ Head(el_card.out).cmd = "rxdone" /\ adapter.busy
                     /\ adapter'.busy /\ adapter'.dmaing = adapter.dmaing /\ adapter'.dir = adapter.dir
                     /\ adapter'.backlog = Append(adapter.backlog, Head(el_card.out).frame)
                     /\ adapter'.rx_active = adapter.rx_active /\ adapter'.skb = adapter.skb
                     /\ UNCHANGED <<el_armed, el_odd>>
                  \/ /\ el_running /\ Head(el_card.out).cmd = "rxdone" /\ ~ adapter.busy
                     /\ adapter'.busy /\ adapter'.backlog = adapter.backlog
                     /\ \/ /\ adapter'.dmaing /\ adapter'.dir = "up" /\ el_armed' = "up" /\ el_odd' = el_odd
                           /\ adapter'.rx_active = IF adapter.rx_active > 0 THEN adapter.rx_active - 1 ELSE 0
                        \/ /\ adapter'.dmaing = adapter.dmaing /\ el_armed' = "no"
                           /\ el_odd = {} /\ el_odd' = {"squeeze"}
                  \/ /\ ~ (el_running /\ Head(el_card.out).cmd = "rxdone")
                     /\ adapter'.busy /\ adapter'.dmaing = adapter.dmaing /\ adapter'.dir = adapter.dir
                     /\ adapter'.backlog = adapter.backlog /\ adapter'.rx_active = adapter.rx_active
                     /\ adapter'.skb = adapter.skb
                     /\ UNCHANGED <<el_armed, el_odd>>
<1>. DEFINE pcb == Head(el_card.out) a == [adapter EXCEPT !.busy = TRUE]
<1>1. /\ a \in ElAdapters /\ a.busy /\ a.dmaing = adapter.dmaing /\ a.dir = adapter.dir
      /\ a.backlog = adapter.backlog /\ a.sem = adapter.sem /\ a.rx_active = adapter.rx_active
      /\ a.skb = adapter.skb
  BY DEF ElType, ElAdapters
<1>2. el_card.out # <<>> /\ pcb.cmd \in {"rxdone", "rxbad"} /\ pcb \in ElBlocks
  BY ElAckType DEF ElRxPcb
<1>3. \/ UNCHANGED <<adapter, el_card, el_armed, el_odd>>
      \/ /\ el_card' = ElAck(pcb)
         /\ IF el_running /\ pcb.cmd = "rxdone" THEN ElAnnounced(pcb)
            ELSE adapter' = a /\ UNCHANGED <<el_armed, el_odd>>
  BY DEF ElRxPcb
<1>. HIDE DEF a, pcb
<1>4. CASE UNCHANGED <<adapter, el_card, el_armed, el_odd>>
  BY <1>2, <1>4 DEF pcb
<1>5. CASE /\ el_card' = ElAck(pcb)
           /\ IF el_running /\ pcb.cmd = "rxdone" THEN ElAnnounced(pcb)
              ELSE adapter' = a /\ UNCHANGED <<el_armed, el_odd>>
  <2>1. /\ el_card'.done = el_card.done /\ el_card'.rx = el_card.rx /\ el_card'.out = Tail(el_card.out)
        /\ el_card'.want = IF pcb.cmd = "rxbad" THEN el_card.want
                           ELSE Append(el_card.want, [dir |-> "up", frame |-> pcb.frame])
    BY <1>5 DEF ElAck, ElType, ElCards
  <2>2. CASE ~ (el_running /\ pcb.cmd = "rxdone")
    BY <1>1, <1>2, <1>5, <2>1, <2>2 DEF pcb
  <2>3. CASE el_running /\ pcb.cmd = "rxdone" /\ adapter.busy
    <3>1. adapter' = [adapter EXCEPT !.backlog = Append(@, pcb.frame)] /\ UNCHANGED <<el_armed, el_odd>>
      BY <1>5, <2>3 DEF ElAnnounced
    <3>2. /\ adapter'.busy /\ adapter'.dmaing = adapter.dmaing /\ adapter'.dir = adapter.dir
          /\ adapter'.backlog = Append(adapter.backlog, pcb.frame)
          /\ adapter'.rx_active = adapter.rx_active /\ adapter'.sem = adapter.sem
          /\ adapter'.skb = adapter.skb
      BY <2>3, <3>1 DEF ElType, ElAdapters
    <3>. QED BY <1>2, <2>1, <2>3, <3>1, <3>2 DEF pcb
  <2>4. CASE el_running /\ pcb.cmd = "rxdone" /\ ~ adapter.busy
    <3>1. ElReceivePacket(a)
      BY <1>5, <2>4 DEF ElAnnounced, a
    <3>2. /\ adapter'.backlog = a.backlog /\ adapter'.sem = a.sem /\ adapter'.busy = a.busy
          /\ \/ /\ adapter'.dmaing /\ adapter'.dir = "up" /\ el_armed' = "up" /\ el_odd' = el_odd
                /\ adapter'.rx_active = IF a.rx_active > 0 THEN a.rx_active - 1 ELSE 0
             \/ adapter' = a /\ el_armed' = "no" /\ el_odd = {} /\ el_odd' = {"squeeze"}
      BY <1>1, <3>1, ElReceivePacketType
    <3>. QED BY <1>1, <1>2, <2>1, <2>4, <3>2 DEF pcb
  <2>. QED BY <2>2, <2>3, <2>4
<1>. QED BY <1>3, <1>4, <1>5

(* A frame to be sent, unless a transfer timed out: refused, or its        *)
(* transfer is set up.                                                     *)
LEMMA ElXmitEffect ==
  ASSUME ElType, ElXmit
  PROVE  /\ el_running /\ el_left.open /\ tx_pcb' \in {tx_pcb, "xmit"}
         /\ el_left'.open /\ UNCHANGED <<el_irq, el_pc, el_running>>
         /\ el_card'.done = el_card.done /\ el_card'.out = el_card.out
         /\ \/ "timeout" \in el_odd'
            \/ /\ el_odd' = el_odd \cup IF tx_pcb' # tx_pcb THEN ElMixed ELSE {}
               /\ adapter'.sem = adapter.sem /\ adapter'.backlog = adapter.backlog
               /\ \/ /\ adapter'.busy = adapter.busy /\ adapter'.dmaing = adapter.dmaing
                     /\ adapter'.dir = adapter.dir /\ adapter'.rx_active = adapter.rx_active
                     /\ adapter'.skb = adapter.skb
                     /\ UNCHANGED <<el_armed, el_card>>
                  \/ /\ ~ adapter.busy /\ adapter'.busy /\ adapter'.dmaing /\ adapter'.dir = "down"
                     /\ el_armed' = "down"
                     /\ el_card'.want = Append(el_card.want, [dir |-> "down", frame |-> el_left.tx])
                     /\ \E k \in Nat : /\ adapter'.rx_active = adapter.rx_active + k
                                       /\ el_card'.rx = el_card.rx + k
<1>1. PICK c \in ElChecked :
        /\ \/ (ElXmitBusy(c.a) \/ ElXmitRefused(c.a)) /\ el_armed' = c.armed
           \/ ElXmitTaken(c.a) /\ el_armed' = "down"
        /\ el_odd' = c.odd \cup IF tx_pcb' # tx_pcb THEN ElMixed ELSE {}
  BY DEF ElXmit
<1>2. /\ c.a \in ElAdapters
      /\ \/ c.a = adapter /\ c.armed = el_armed /\ c.odd = el_odd
         \/ c.odd = {"timeout"}
  BY ElCheckedType
<1>3. el_running /\ el_left.open /\ UNCHANGED <<el_irq, el_pc, el_running>>
  BY DEF ElXmit
<1>4. CASE ElXmitBusy(c.a) \/ ElXmitRefused(c.a)
  <2>1. /\ adapter'.busy = c.a.busy /\ adapter'.dmaing = c.a.dmaing /\ adapter'.dir = c.a.dir
        /\ adapter'.rx_active = c.a.rx_active /\ adapter'.sem = c.a.sem /\ adapter'.backlog = c.a.backlog
        /\ adapter'.skb = c.a.skb
    BY <1>2, <1>4 DEF ElXmitBusy, ElXmitRefused, ElRefused, ElAdapters
  <2>2. UNCHANGED <<el_card, el_left>> /\ tx_pcb' \in {tx_pcb, "xmit"} /\ el_stopped'
    BY <1>4 DEF ElXmitBusy, ElXmitRefused
  <2>3. CASE c.odd = {"timeout"}
    BY <1>1, <1>3, <2>2, <2>3
  <2>4. CASE c.a = adapter /\ c.armed = el_armed /\ c.odd = el_odd
    <3>1. el_armed' = el_armed
      BY <1>1, <1>4, <2>2, <2>4 DEF ElXmitTaken
    <3>. QED BY <1>1, <1>3, <2>1, <2>2, <2>4, <3>1
  <2>. QED BY <1>2, <2>3, <2>4
<1>5. CASE ElXmitTaken(c.a)
  <2>. DEFINE b == [c.a EXCEPT !.busy = TRUE, !.dmaing = TRUE, !.dir = "down", !.skb = el_left.tx]
  <2>1. PICK k \in ElPrimed(b) :
          /\ adapter' = [b EXCEPT !.rx_active = @ + k]
          /\ el_card' = [el_card EXCEPT !.rx = @ + k,
                                        !.want = Append(@, [dir |-> "down", frame |-> el_left.tx])]
    BY <1>5 DEF ElXmitTaken
  <2>2. /\ b \in ElAdapters /\ b.busy /\ b.dmaing /\ b.dir = "down" /\ b.rx_active = c.a.rx_active
        /\ b.sem = c.a.sem /\ b.backlog = c.a.backlog
    BY <1>2 DEF ElAdapters, ElType
  <2>. HIDE DEF b
  <2>3. k \in Nat
    BY <2>2, ElPrimedType
  <2>4. /\ adapter'.busy /\ adapter'.dmaing /\ adapter'.dir = "down" /\ adapter'.rx_active = c.a.rx_active + k
        /\ adapter'.sem = c.a.sem /\ adapter'.backlog = c.a.backlog
    BY <2>1, <2>2 DEF ElAdapters
  <2>5. /\ el_card'.done = el_card.done /\ el_card'.out = el_card.out /\ el_card'.rx = el_card.rx + k
        /\ el_card'.want = Append(el_card.want, [dir |-> "down", frame |-> el_left.tx])
    BY <2>1 DEF ElType, ElCards
  <2>6. el_left'.open /\ tx_pcb' = "xmit" /\ ~ c.a.busy /\ ~ el_stopped'
    BY <1>3, <1>5 DEF ElXmitTaken, ElType
  <2>7. el_armed' = "down"
    BY <1>1, <2>6 DEF ElXmitBusy, ElXmitRefused
  <2>8. CASE c.odd = {"timeout"}
    BY <1>1, <1>3, <2>5, <2>6, <2>8
  <2>9. CASE c.a = adapter /\ c.armed = el_armed /\ c.odd = el_odd
    BY <1>1, <1>3, <2>3, <2>4, <2>5, <2>6, <2>7, <2>9
  <2>. QED BY <1>2, <2>8, <2>9
<1>. QED BY <1>1, <1>4, <1>5
-----------------------------------------------------------------------------
(* The DMA channel. While nothing timed out and no commands were mixed up, *)
(* the card waits for the transfer that is set up, if there is one, and    *)
(* then for those of the backlog, all of them frames it received. A free   *)
(* adapter has no backlog, and without a squeeze or a damaged frame a busy *)
(* one has a transfer.                                                     *)
ElTalking == "timeout" \notin el_odd /\ "mixed" \notin el_odd
ElAwaited == IF adapter.dmaing /\ ~ el_card.done THEN 1 ELSE 0
ElAllUp(want) == \A i \in 2 .. Len(want) : want[i].dir = "up"
ElCommands ==
  /\ el_pc = "filled" => tx_pcb = "stats"
  /\ el_pc = "sending" => adapter.sem = "stats"
  /\ \A i \in 1 .. Len(el_card.out) : el_card.out[i].cmd = "rxbad" => "bad" \in el_odd
ElWaitsFor ==
  /\ ElAllUp(el_card.want)
  /\ el_card.want # <<>> =>
       el_card.want[1].dir = IF el_armed = "down" /\ ~ el_card.done THEN "down" ELSE "up"
  /\ Len(el_card.want) >= ElAwaited + Len(adapter.backlog)
  /\ el_running /\ "squeeze" \notin el_odd => Len(el_card.want) = ElAwaited + Len(adapter.backlog)
ElSetUp ==
  /\ adapter.dmaing <=> el_armed # "no"
  /\ adapter.dmaing => adapter.busy /\ adapter.dir = el_armed
  /\ el_card.done => adapter.dmaing
  /\ adapter.backlog # <<>> => adapter.busy
  /\ "squeeze" \in el_odd => adapter.busy /\ ~ adapter.dmaing
  /\ el_odd = {} /\ el_running /\ adapter.busy => adapter.dmaing
ElPhases ==
  /\ el_running => el_left.open
  /\ ~ el_left.open => el_irq = "no" /\ el_pc = "user" /\ el_armed = "no"
ElChannelInv ==
  /\ ElPhases
  /\ el_left.open /\ ElTalking => ElCommands /\ ElWaitsFor /\ ElSetUp

(* The channel starts free.                                                *)
LEMMA ElChannelInit == ElInit => ElChannelInv
<1>. SUFFICES ASSUME ElInit PROVE ElChannelInv
  OBVIOUS
<1>1. /\ adapter.busy = FALSE /\ adapter.dmaing = FALSE /\ adapter.backlog = <<>>
      /\ el_card.want = <<>> /\ el_card.out = <<>> /\ ~ el_card.done
      /\ el_left.open = el_running /\ el_running \in BOOLEAN
  BY DEF ElInit, ElOpened, ElCardReset
<1>2. el_armed = "no" /\ el_irq = "no" /\ el_pc = "user" /\ el_odd = {}
  BY DEF ElInit
<1>3. ElWaitsFor
  BY <1>1 DEF ElWaitsFor, ElAllUp, ElAwaited
<1>4. ElCommands /\ ElSetUp
  BY <1>1, <1>2 DEF ElCommands, ElSetUp
<1>. QED BY <1>1, <1>2, <1>3, <1>4 DEF ElChannelInv, ElPhases

(* What is appended for a received frame comes last.                       *)
LEMMA ElAllUpAppend ==
  ASSUME NEW w \in Seq(ElTransfers), ElAllUp(w), NEW x \in ElTransfers, w # <<>> => x.dir = "up"
  PROVE  /\ ElAllUp(Append(w, x)) /\ Len(Append(w, x)) = Len(w) + 1 /\ Append(w, x) # <<>>
         /\ Append(w, x)[1] = IF w = <<>> THEN x ELSE w[1]
BY DEF ElAllUp

(* What is left when the first transfer is done.                           *)
LEMMA ElAllUpTail ==
  ASSUME NEW w \in Seq(ElTransfers), ElAllUp(w), w # <<>>
  PROVE  /\ ElAllUp(Tail(w)) /\ Len(Tail(w)) = Len(w) - 1
         /\ Tail(w) # <<>> => Tail(w)[1].dir = "up"
BY DEF ElAllUp

(* Blocks that leave, and a block that joins the others.                   *)
LEMMA ElOutTail ==
  ASSUME NEW o \in Seq(ElBlocks), o # <<>>, NEW x \in ElBlocks
  PROVE  /\ \A i \in 1 .. Len(Tail(o)) : i + 1 \in 1 .. Len(o) /\ Tail(o)[i] = o[i + 1]
         /\ \A i \in 1 .. Len(Append(o, x)) : Append(o, x)[i] = IF i \in 1 .. Len(o) THEN o[i] ELSE x
OBVIOUS
(* Every step leaves the channel to one owner.                             *)
LEMMA ElChannelNext ==
  ASSUME ElType, ElType', ElChannelInv, [ElNext]_elVars
  PROVE  ElChannelInv'
<1>. DEFINE Inv == ElCommands /\ ElWaitsFor /\ ElSetUp
<1>0. /\ adapter \in ElAdapters /\ adapter' \in ElAdapters /\ el_card \in ElCards /\ el_card' \in ElCards
      /\ el_card.want \in Seq(ElTransfers) /\ el_card.out \in Seq(ElBlocks) /\ adapter.backlog \in Seq(Nat)
      /\ adapter.busy \in BOOLEAN /\ adapter.dmaing \in BOOLEAN /\ el_card.done \in BOOLEAN
  BY DEF ElType, ElAdapters, ElCards
<1>. USE DEF ElChannelInv, ElTalking
<1>1. CASE UNCHANGED elVars
  BY <1>1 DEF elVars, elStack, elHistory, ElPhases, ElCommands, ElWaitsFor, ElSetUp, ElAwaited
<1>2. ASSUME NEW kind \in {"rxdone", "rxbad"}, ElArrive(kind) PROVE ElChannelInv'
  <2>. DEFINE x == [cmd |-> kind, frame |-> el_left.events]
  <2>1. /\ el_left.open /\ el_left'.open = el_left.open
        /\ el_card'.want = el_card.want /\ el_card'.done = el_card.done
        /\ el_card'.out = Append(el_card.out, x) /\ x \in ElBlocks /\ x.cmd = kind
        /\ UNCHANGED <<adapter, tx_pcb, el_irq, el_pc, el_running, el_armed>>
        /\ \/ kind = "rxbad" /\ el_odd = {} /\ el_odd' = {"bad"}
           \/ kind = "rxdone" /\ el_odd' = el_odd
    BY <1>0, <1>2 DEF ElArrive, ElType, ElCards, ElBlocks, elStack
  <2>. HIDE DEF x
  <2>2. ElPhases'
    BY <2>1 DEF ElPhases
  <2>3. ElTalking' => ElCommands'
    BY <1>0, <2>1, ElOutTail DEF ElCommands
  <2>4. ElTalking' => ElTalking /\ ElWaitsFor'
    BY <2>1 DEF ElWaitsFor, ElAwaited
  <2>5. ElTalking' => ElSetUp'
    BY <2>1 DEF ElSetUp
  <2>. QED BY <2>2, <2>3, <2>4, <2>5
<1>3. CASE ElTransfer
  <2>1. /\ el_card.want # <<>> /\ el_card'.want = Tail(el_card.want) /\ ~ el_card.done
        /\ el_card'.done = TRUE /\ el_card'.out = el_card.out /\ el_armed # "no"
        /\ adapter'.busy = adapter.busy /\ adapter'.dmaing = adapter.dmaing /\ adapter'.dir = adapter.dir
        /\ adapter'.backlog = adapter.backlog /\ adapter'.sem = adapter.sem
        /\ UNCHANGED <<tx_pcb, el_irq, el_pc, el_running, el_armed, el_left, el_odd>>
    BY <1>0, <1>3 DEF ElTransfer, ElAdapters, ElCards, elStack
  <2>2. ElPhases' /\ (ElTalking /\ el_left.open => ElCommands' /\ ElSetUp')
    BY <2>1 DEF ElPhases, ElCommands, ElSetUp
  <2>3. ASSUME ElTalking, el_left.open PROVE ElWaitsFor'
    <3>1. ElAllUp(el_card.want) /\ adapter.dmaing
      BY <2>1, <2>3 DEF ElWaitsFor, ElSetUp
    <3>2. /\ ElAllUp(el_card'.want) /\ Len(el_card'.want) = Len(el_card.want) - 1
          /\ el_card'.want # <<>> => el_card'.want[1].dir = "up"
      BY <1>0, <2>1, <3>1, ElAllUpTail
    <3>3. ElAwaited = 1 /\ ElAwaited' = 0
      BY <2>1, <3>1 DEF ElAwaited
    <3>4. Len(el_card.want) \in Nat /\ Len(adapter.backlog) \in Nat
      BY <1>0
    <3>. QED BY <2>1, <2>3, <3>2, <3>3, <3>4 DEF ElWaitsFor
  <2>. QED BY <2>1, <2>2, <2>3
<1>4. CASE ElAired
  <2>. DEFINE x == [cmd |-> "txdone", frame |-> 0]
  <2>1. /\ el_card'.want = el_card.want /\ el_card'.done = el_card.done
        /\ el_card'.out = Append(el_card.out, x) /\ x \in ElBlocks /\ x.cmd = "txdone"
        /\ UNCHANGED <<adapter, tx_pcb, el_irq, el_pc, el_running, el_armed, el_left, el_odd>>
    BY <1>0, <1>4 DEF ElAired, ElCards, ElBlocks, elStack
  <2>. HIDE DEF x
  <2>2. ElCommands => ElCommands'
    BY <1>0, <2>1, ElOutTail DEF ElCommands
  <2>. QED BY <2>1, <2>2 DEF ElPhases, ElWaitsFor, ElSetUp, ElAwaited
<1>5. CASE ElInterrupt \/ ElTurn \/ ElTimeout \/ ElStatsEnd \/ ElDown
  <2>1. /\ UNCHANGED <<adapter, tx_pcb, el_card, el_armed, el_left, el_odd>>
        /\ el_running' => el_running
        /\ el_irq' # "no" => el_irq # "no" \/ el_left.open
        /\ el_pc' = el_pc \/ el_pc' = "user"
    BY <1>5 DEF ElInterrupt, ElTurn, ElTimeout, ElStatsEnd, ElDown, elStack
  <2>. QED BY <2>1 DEF ElPhases, ElCommands, ElWaitsFor, ElSetUp, ElAwaited
<1>6. CASE ElDmaDone
  <2>1. el_irq = "top" /\ UNCHANGED <<tx_pcb, el_pc, el_running, el_left>> /\ el_left.open
    BY <1>6 DEF ElDmaDone, elStack, ElPhases
  <2>2. ElPhases'
    BY <2>1 DEF ElPhases
  <2>3. ASSUME ElTalking PROVE Inv'
    <3>1. ElCommands'
      BY <1>6, <2>1, <2>3, ElDmaDoneEffect DEF ElCommands
    <3>2. ElSetUp'
      BY <1>6, <2>1, <2>3, ElDmaDoneEffect DEF ElSetUp
    <3>3. ElWaitsFor'
      <4>1. el_card'.want = el_card.want /\ el_card.done /\ ~ el_card'.done /\ ElAwaited = 0 /\ el_armed' # "down"
        BY <1>6, ElDmaDoneEffect DEF ElAwaited
      <4>2. Len(el_card.want) \in Nat /\ Len(adapter.backlog) \in Nat
        BY <1>0
      <4>3. \/ Len(adapter.backlog) = ElAwaited' + Len(adapter'.backlog)
            \/ Len(adapter.backlog) >= ElAwaited' + Len(adapter'.backlog) /\ "squeeze" \in el_odd'
        <5>1. CASE adapter.backlog # <<>> /\ adapter'.backlog = Tail(adapter.backlog)
          <6>1. Len(adapter'.backlog) = Len(adapter.backlog) - 1
            BY <1>0, <5>1
          <6>2. ElAwaited' = 1 \/ (ElAwaited' = 0 /\ "squeeze" \in el_odd')
            BY <1>6, <5>1, ElDmaDoneEffect DEF ElAwaited
          <6>. QED BY <4>2, <6>1, <6>2
        <5>2. CASE adapter.backlog = <<>> /\ adapter'.backlog = <<>>
          BY <1>6, <5>2, ElDmaDoneEffect DEF ElAwaited
        <5>. QED BY <1>6, <5>1, <5>2, ElDmaDoneEffect
      <4>4. Len(adapter'.backlog) \in Nat /\ ElAwaited' \in {0, 1}
        BY <1>0 DEF ElAdapters, ElAwaited
      <4>5. "squeeze" \in el_odd => "squeeze" \in el_odd'
        BY <1>6, ElDmaDoneEffect
      <4>. QED BY <2>1, <2>3, <4>1, <4>2, <4>3, <4>4, <4>5 DEF ElWaitsFor
    <3>. QED BY <3>1, <3>2, <3>3
  <2>4. ElTalking' => ElTalking
    BY <1>6, ElDmaDoneEffect
  <2>. QED BY <2>1, <2>2, <2>3, <2>4
<1>7. CASE ElDmaCheck
  <2>1. PICK c \in ElChecked : adapter' = c.a /\ el_armed' = c.armed /\ el_odd' = c.odd
    BY <1>7 DEF ElDmaCheck
  <2>2. /\ el_irq = "top" /\ el_left.open /\ UNCHANGED <<tx_pcb, el_pc, el_running, el_card, el_left>>
    BY <1>7 DEF ElDmaCheck, elStack, ElPhases
  <2>3. UNCHANGED <<adapter, el_armed, el_odd>> \/ "timeout" \in el_odd'
    BY <2>1, ElCheckedType
  <2>. QED BY <2>2, <2>3 DEF ElPhases, ElCommands, ElWaitsFor, ElSetUp, ElAwaited
<1>8. CASE ElRxPcb
  <2>. DEFINE pcb == Head(el_card.out)
              x == [dir |-> "up", frame |-> pcb.frame]
  <2>1. el_irq = "pcb" /\ UNCHANGED <<tx_pcb, el_irq, el_pc, el_running, el_left>> /\ el_left.open
    BY <1>8 DEF ElRxPcb, elStack, ElPhases
  <2>2. ElPhases' /\ (ElTalking' => ElTalking)
    BY <1>8, <2>1, ElRxPcbEffect DEF ElPhases
  <2>3. x \in ElTransfers /\ x.dir = "up" /\ el_card.out # <<>> /\ pcb = el_card.out[1] /\ 1 \in 1 .. Len(el_card.out)
    BY <1>0, <1>8, ElAckType, ElRxPcbEffect DEF ElTransfers, ElBlocks
  <2>4. ASSUME ElTalking PROVE Inv'
    <3>1. CASE UNCHANGED <<adapter, el_card, el_armed, el_odd>>
      BY <2>1, <2>4, <3>1 DEF ElCommands, ElWaitsFor, ElSetUp, ElAwaited
    <3>2. CASE el_card'.out = Tail(el_card.out)
      <4>1. ElCommands'
        BY <1>0, <1>8, <2>1, <2>3, <2>4, <3>2, ElOutTail, ElRxPcbEffect DEF ElCommands
      <4>2. pcb.cmd = "rxbad" => "bad" \in el_odd
        BY <2>1, <2>3, <2>4 DEF ElCommands
      <4>3. ElSetUp'
        BY <1>8, <2>1, <2>4, <3>2, <4>2, ElRxPcbEffect DEF ElSetUp
      <4>4. ElWaitsFor'
        <5>1. /\ ElAllUp(el_card.want) /\ Len(el_card.want) \in Nat /\ Len(adapter.backlog) \in Nat
              /\ Len(adapter'.backlog) \in Nat /\ ElAwaited \in {0, 1} /\ ElAwaited' \in {0, 1}
          BY <1>0, <2>1, <2>4 DEF ElWaitsFor, ElAwaited, ElAdapters
        <5>0. el_armed = "down" /\ ~ el_card.done => el_card.want # <<>>
          <6>. SUFFICES ASSUME el_armed = "down", ~ el_card.done PROVE el_card.want # <<>>
            OBVIOUS
          <6>1. ElAwaited = 1
            BY <2>1, <2>4 DEF ElSetUp, ElAwaited
          <6>2. Len(el_card.want) # 0
            BY <2>1, <2>4, <5>1, <6>1 DEF ElWaitsFor
          <6>. QED BY <6>2
        <5>2. CASE pcb.cmd = "rxbad" /\ el_card'.want = el_card.want
          <6>1. UNCHANGED <<el_armed, el_odd>> /\ ElAwaited' = ElAwaited /\ adapter'.backlog = adapter.backlog
            BY <1>8, <3>2, <4>2, <5>2, ElRxPcbEffect DEF ElAwaited
          <6>. QED BY <1>8, <2>1, <2>4, <5>2, <6>1, ElRxPcbEffect DEF ElWaitsFor
        <5>3. CASE pcb.cmd = "rxdone" /\ el_card'.want = Append(el_card.want, x)
          <6>1. /\ ElAllUp(el_card'.want) /\ Len(el_card'.want) = Len(el_card.want) + 1
                /\ el_card'.want[1] = IF el_card.want = <<>> THEN x ELSE el_card.want[1]
            BY <1>0, <2>3, <5>1, <5>3, ElAllUpAppend
          <6>2. CASE el_running /\ adapter.busy
            <7>1. /\ Len(adapter'.backlog) = Len(adapter.backlog) + 1 /\ ElAwaited' = ElAwaited
                  /\ UNCHANGED <<el_armed, el_odd>> /\ el_card'.done = el_card.done
              BY <1>0, <1>8, <2>3, <3>2, <5>3, <6>2, ElRxPcbEffect DEF ElAwaited, ElBlocks
            <7>2. el_armed = "down" /\ ~ el_card.done => el_card.want # <<>>
              BY <5>0
            <7>. QED BY <2>1, <2>3, <2>4, <5>1, <6>1, <7>1, <7>2 DEF ElWaitsFor
          <6>3. CASE el_running /\ ~ adapter.busy
            <7>1. ~ adapter.dmaing /\ adapter.backlog = <<>> /\ "squeeze" \notin el_odd /\ ~ el_card.done
              BY <1>0, <2>1, <2>4, <6>3 DEF ElSetUp
            <7>2. Len(el_card.want) = 0
              BY <2>1, <2>4, <6>3, <7>1 DEF ElWaitsFor, ElAwaited
            <7>3. el_card.want = <<>>
              BY <1>0, <7>2
            <7>4. /\ adapter'.backlog = <<>> /\ el_armed' # "down"
                  /\ ElAwaited' = 1 \/ "squeeze" \in el_odd'
              BY <1>8, <3>2, <5>3, <6>3, <7>1, ElRxPcbEffect DEF ElAwaited
            <7>5. el_card'.want[1].dir = "up" /\ Len(el_card'.want) = 1 /\ Len(adapter'.backlog) = 0
              BY <2>3, <6>1, <7>2, <7>3, <7>4
            <7>6. Len(el_card'.want) >= ElAwaited' + Len(adapter'.backlog)
              <8>1. ElAwaited' = 0 \/ ElAwaited' = 1
                BY <5>1
              <8>. QED BY <7>5, <8>1
            <7>7. ElAwaited' = 1 => Len(el_card'.want) = ElAwaited' + Len(adapter'.backlog)
              BY <7>5
            <7>8. "squeeze" \notin el_odd' => ElAwaited' = 1
              BY <7>4
            <7>. QED BY <6>1, <7>4, <7>5, <7>6, <7>7, <7>8 DEF ElWaitsFor
          <6>4. CASE ~ el_running
            <7>1. /\ adapter'.backlog = adapter.backlog /\ ElAwaited' = ElAwaited
                  /\ UNCHANGED <<el_armed, el_odd>> /\ el_card'.done = el_card.done
              BY <1>8, <3>2, <5>3, <6>4, ElRxPcbEffect DEF ElAwaited
            <7>2. el_armed = "down" /\ ~ el_card.done => el_card.want # <<>>
              BY <5>0
            <7>. QED BY <2>1, <2>3, <2>4, <5>1, <6>1, <6>4, <7>1, <7>2 DEF ElWaitsFor
          <6>. QED BY <6>2, <6>3, <6>4
        <5>4. CASE UNCHANGED el_card /\ UNCHANGED <<adapter, el_armed, el_odd>>
          BY <2>1, <2>4, <5>4 DEF ElWaitsFor, ElAwaited
        <5>. QED BY <1>8, <5>2, <5>3, <5>4, ElRxPcbEffect
      <4>. QED BY <4>1, <4>3, <4>4
    <3>. QED BY <1>8, <3>1, <3>2, ElRxPcbEffect
  <2>. QED BY <2>1, <2>2, <2>4
<1>9. CASE ElOtherPcb
  <2>1. /\ el_card'.want = el_card.want /\ el_card'.done = el_card.done
        /\ el_card.out # <<>> /\ el_card'.out = Tail(el_card.out)
        /\ UNCHANGED <<adapter, tx_pcb, el_irq, el_pc, el_running, el_armed, el_left, el_odd>>
    BY <1>0, <1>9 DEF ElOtherPcb, ElCards
  <2>2. ElCommands => ElCommands'
    BY <1>0, <2>1, ElOutTail DEF ElCommands
  <2>. QED BY <2>1, <2>2 DEF ElPhases, ElWaitsFor, ElSetUp, ElAwaited
<1>10. CASE ElIrqEnd
  <2>1. /\ el_card'.want = el_card.want /\ el_card'.done = el_card.done /\ el_card'.out = el_card.out
        /\ adapter'.busy = adapter.busy /\ adapter'.dmaing = adapter.dmaing /\ adapter'.dir = adapter.dir
        /\ adapter'.backlog = adapter.backlog /\ adapter'.sem = adapter.sem
        /\ UNCHANGED <<tx_pcb, el_pc, el_running, el_armed, el_left, el_odd>> /\ el_irq' = "no"
    BY <1>0, <1>10 DEF ElIrqEnd, ElAdapters, ElCards, elStack
  <2>. QED BY <2>1 DEF ElPhases, ElCommands, ElWaitsFor, ElSetUp, ElAwaited
<1>11. CASE ElXmit
  <2>1. ElPhases' /\ (ElTalking' => ElTalking) /\ el_left.open /\ el_running
    BY <1>11, ElXmitEffect DEF ElPhases
  <2>. DEFINE x == [dir |-> "down", frame |-> el_left.tx]
  <2>2. x \in ElTransfers /\ x.dir = "down"
    BY DEF ElTransfers, ElType
  <2>3. ASSUME ElTalking' PROVE Inv'
    <3>1. ElCommands'
      BY <1>11, <2>1, <2>3, ElXmitEffect DEF ElCommands, ElMixed
    <3>2. ElSetUp'
      BY <1>11, <2>1, <2>3, ElXmitEffect DEF ElSetUp, ElMixed
    <3>3. ElWaitsFor'
      <4>1. CASE UNCHANGED <<el_armed, el_card>>
        <5>1. adapter'.backlog = adapter.backlog /\ adapter'.dmaing = adapter.dmaing /\ el_odd \subseteq el_odd'
          BY <1>11, <2>3, <4>1, ElXmitEffect
        <5>. QED BY <2>1, <2>3, <4>1, <5>1 DEF ElWaitsFor, ElAwaited
      <4>2. CASE el_card'.want = Append(el_card.want, x)
        <5>1. /\ ~ adapter.busy /\ adapter'.dmaing /\ el_armed' = "down" /\ adapter'.backlog = adapter.backlog
              /\ el_card'.done = el_card.done
          BY <1>0, <1>11, <2>3, <4>2, ElXmitEffect DEF ElSetUp
        <5>2. ~ adapter.dmaing /\ adapter.backlog = <<>> /\ "squeeze" \notin el_odd /\ ~ el_card.done
          BY <1>0, <2>1, <2>3, <5>1 DEF ElSetUp
        <5>3. ElAllUp(el_card.want) /\ Len(el_card.want) = 0
          BY <2>1, <2>3, <5>2 DEF ElWaitsFor, ElAwaited
        <5>4. el_card.want = <<>>
          BY <1>0, <5>3
        <5>5. ElAllUp(el_card'.want) /\ Len(el_card'.want) = 1 /\ el_card'.want[1] = x
          <6>. HIDE DEF x
          <6>1. el_card.want # <<>> => x.dir = "up"
            BY <5>4
          <6>2. /\ ElAllUp(Append(el_card.want, x)) /\ Len(Append(el_card.want, x)) = Len(el_card.want) + 1
                /\ Append(el_card.want, x)[1] = IF el_card.want = <<>> THEN x ELSE el_card.want[1]
            BY <1>0, <2>2, <5>3, <6>1, ElAllUpAppend
          <6>. QED BY <4>2, <5>3, <5>4, <6>2
        <5>6. ElAwaited' = 1 /\ Len(adapter'.backlog) = 0
          BY <5>1, <5>2 DEF ElAwaited
        <5>. QED BY <2>2, <5>1, <5>2, <5>5, <5>6 DEF ElWaitsFor
      <4>. QED BY <1>11, <2>3, <4>1, <4>2, ElXmitEffect
    <3>. QED BY <3>1, <3>2, <3>3
  <2>. QED BY <2>1, <2>3
<1>12. CASE ElStats
  <2>1. /\ el_running /\ el_left'.open = el_left.open /\ tx_pcb' = "stats" /\ el_pc' = "filled"
        /\ UNCHANGED <<adapter, el_irq, el_running, el_card, el_armed, el_odd>>
    BY <1>12 DEF ElStats, ElType, elStack
  <2>. QED BY <2>1 DEF ElPhases, ElCommands, ElWaitsFor, ElSetUp, ElAwaited
<1>13. CASE ElSendFirst
  <2>1. PICK c \in ElChecked :
          /\ IF ElMaySend(c.a)
             THEN adapter' = [c.a EXCEPT !.sem = tx_pcb] /\ el_pc' = "sending"
             ELSE adapter' = c.a /\ el_pc' = "user"
          /\ el_armed' = c.armed /\ el_odd' = c.odd
    BY <1>13 DEF ElSendFirst
  <2>2. /\ el_pc = "filled" /\ el_left.open /\ UNCHANGED <<tx_pcb, el_irq, el_running, el_card, el_left>>
    BY <1>13 DEF ElSendFirst, elStack, ElPhases
  <2>3. c.a \in ElAdapters /\ ((c.a = adapter /\ c.armed = el_armed /\ c.odd = el_odd) \/ c.odd = {"timeout"})
    BY ElCheckedType
  <2>4. CASE c.a = adapter /\ c.armed = el_armed /\ c.odd = el_odd
    <3>1. /\ adapter'.busy = adapter.busy /\ adapter'.dmaing = adapter.dmaing /\ adapter'.dir = adapter.dir
          /\ adapter'.backlog = adapter.backlog /\ UNCHANGED <<el_armed, el_odd>>
          /\ (el_pc' = "sending" /\ adapter'.sem = tx_pcb) \/ el_pc' = "user"
      BY <1>0, <2>1, <2>4 DEF ElAdapters
    <3>. QED BY <2>2, <3>1 DEF ElPhases, ElCommands, ElWaitsFor, ElSetUp, ElAwaited
  <2>5. CASE c.odd = {"timeout"}
    BY <2>1, <2>2, <2>5 DEF ElPhases
  <2>. QED BY <2>3, <2>4, <2>5
<1>14. CASE ElSendRest
  <2>. DEFINE x == [cmd |-> "stats", frame |-> 0]
  <2>1. /\ el_pc = "sending" /\ el_pc' = "acking" /\ el_left.open
        /\ UNCHANGED <<adapter, tx_pcb, el_irq, el_running, el_armed, el_left, el_odd>>
    BY <1>14 DEF ElSendRest, elStack, ElPhases
  <2>2. ASSUME ElTalking PROVE Inv'
    <3>1. adapter.sem = "stats"
      BY <2>1, <2>2 DEF ElCommands
    <3>2. /\ el_card'.want = el_card.want /\ el_card'.done = el_card.done
          /\ el_card'.out = Append(el_card.out, x) /\ x \in ElBlocks /\ x.cmd = "stats"
      BY <1>0, <1>14, <3>1 DEF ElSendRest, ElCards, ElBlocks
    <3>. HIDE DEF x
    <3>3. ElCommands'
      BY <1>0, <2>1, <2>2, <3>2, ElOutTail DEF ElCommands
    <3>. QED BY <2>1, <2>2, <3>2, <3>3 DEF ElWaitsFor, ElSetUp, ElAwaited
  <2>. QED BY <2>1, <2>2 DEF ElPhases
<1>15. CASE ElSendEnd
  <2>1. /\ adapter'.busy = adapter.busy /\ adapter'.dmaing = adapter.dmaing /\ adapter'.dir = adapter.dir
        /\ adapter'.backlog = adapter.backlog
        /\ el_pc # "user" /\ el_pc' \in {"waiting", "user"}
        /\ UNCHANGED <<tx_pcb, el_irq, el_running, el_card, el_armed, el_left, el_odd>>
    BY <1>0, <1>15 DEF ElSendEnd, ElAdapters, elStack
  <2>. QED BY <2>1 DEF ElPhases, ElCommands, ElWaitsFor, ElSetUp, ElAwaited
<1>16. CASE ElClose
  <2>1. /\ ~ el_running /\ el_irq = "no" /\ el_pc = "user" /\ el_armed' = "no" /\ ~ el_left'.open
        /\ UNCHANGED <<el_irq, el_pc, el_running>>
    BY <1>16 DEF ElClose, ElType
  <2>. QED BY <2>1 DEF ElPhases
<1>17. CASE ElOpen
  <2>1. /\ adapter'.busy = FALSE /\ adapter'.dmaing = FALSE /\ adapter'.backlog = <<>>
        /\ el_card'.want = <<>> /\ el_card'.out = <<>> /\ ~ el_card'.done
    BY <1>17 DEF ElOpen, ElOpened, ElCardReset
  <2>2. /\ ~ el_left.open /\ el_left'.open /\ UNCHANGED <<el_irq, el_pc>> /\ el_armed' = "no" /\ el_odd' = {}
    BY <1>17 DEF ElOpen, ElType
  <2>3. ElWaitsFor'
    BY <2>1, <2>2 DEF ElWaitsFor, ElAllUp, ElAwaited
  <2>4. ElCommands' /\ ElSetUp' /\ ElPhases'
    BY <2>1, <2>2 DEF ElCommands, ElSetUp, ElPhases
  <2>. QED BY <2>3, <2>4
<1>. QED BY <1>1, <1>2, <1>3, <1>4, <1>5, <1>6, <1>7, <1>8, <1>9, <1>10, <1>11, <1>12, <1>13,
            <1>14, <1>15, <1>16, <1>17 DEF ElNext

(* ElType and the channel's invariant, in every state.                     *)
LEMMA ElInvariant == ElSpec => [](ElType /\ ElChannelInv)
<1>1. ElType /\ ElChannelInv /\ [ElNext]_elVars => (ElType /\ ElChannelInv)'
  BY ElTypeNext, ElChannelNext
<1>. QED BY <1>1, ElTypeInit, ElChannelInit, PTL DEF ElSpec

(* The DMA channel is set up for the transfer the card waits for, the      *)
(* adapter is busy while it is and no longer, and what was announced       *)
(* meanwhile has a transfer before it that will fetch it when it is done.  *)
THEOREM ElChannelOwnedAlways == ElSpec => []ElChannelOwned
<1>1. ElType /\ ElChannelInv => ElChannelOwned
  <2>. SUFFICES ASSUME ElType, ElChannelInv PROVE ElChannelOwned
    OBVIOUS
  <2>1. /\ adapter.busy \in BOOLEAN /\ adapter.dmaing \in BOOLEAN /\ el_card.want \in Seq(ElTransfers)
        /\ adapter.backlog \in Seq(Nat) /\ el_armed \in {"no", "up", "down"} /\ el_left.open \in BOOLEAN
    BY DEF ElType, ElAdapters, ElCards
  <2>2. ASSUME ElTalking, el_armed # "no", ~ el_card.done
        PROVE  el_card.want # <<>> /\ Head(el_card.want).dir = el_armed
    <3>1. ElAwaited = 1 /\ ElWaitsFor
      BY <2>1, <2>2 DEF ElChannelInv, ElPhases, ElSetUp, ElAwaited
    <3>2. Len(el_card.want) # 0
      BY <2>1, <3>1 DEF ElWaitsFor
    <3>3. el_card.want # <<>>
      BY <3>2
    <3>4. Head(el_card.want) = el_card.want[1]
      BY <2>1, <3>3
    <3>. QED BY <2>1, <2>2, <3>1, <3>3, <3>4 DEF ElWaitsFor
  <2>3. ASSUME el_odd = {}, el_running
        PROVE  /\ adapter.busy = adapter.dmaing /\ adapter.dmaing = (el_armed # "no")
               /\ adapter.backlog # <<>> => adapter.dmaing
    BY <2>1, <2>3 DEF ElChannelInv, ElPhases, ElSetUp, ElTalking
  <2>. QED BY <2>2, <2>3 DEF ElChannelOwned, ElTalking
<1>. QED BY <1>1, ElInvariant, PTL
-----------------------------------------------------------------------------
(* Places in a sequence of length n, and how many come before each.        *)
Rank(S, i) == Cardinality({j \in S : j <= i})

(* Ranks are numbers from 1 to the number of places.                       *)
LEMMA RankType ==
  ASSUME NEW n \in Nat, NEW S \in SUBSET (1 .. n)
  PROVE  /\ IsFiniteSet(S) /\ Cardinality(S) \in Nat
         /\ \A i \in S : Rank(S, i) \in 1 .. Cardinality(S)
<1>0. IsFiniteSet(1 .. n)
  BY FS_Interval
<1>1. IsFiniteSet(S) /\ Cardinality(S) \in Nat
  BY <1>0, FS_Subset, FS_CardinalityType
<1>2. ASSUME NEW i \in S PROVE Rank(S, i) \in 1 .. Cardinality(S)
  <2>. DEFINE R == {j \in S : j <= i}
  <2>1. IsFiniteSet(R) /\ Cardinality(R) <= Cardinality(S) /\ Cardinality(R) \in Nat
    BY <1>1, FS_Subset, FS_CardinalityType
  <2>2. i \in R
    BY <1>2
  <2>3. Cardinality(R) # 0
    BY <2>1, <2>2, FS_EmptySet
  <2>. QED BY <1>1, <2>1, <2>3 DEF Rank
<1>. QED BY <1>1, <1>2

(* A place behind the others is the last.                                  *)
LEMMA RankAppend ==
  ASSUME NEW n \in Nat, NEW S \in SUBSET (1 .. n)
  PROVE  /\ Cardinality(S \cup {n + 1}) = Cardinality(S) + 1
         /\ \A i \in S : Rank(S \cup {n + 1}, i) = Rank(S, i)
         /\ Rank(S \cup {n + 1}, n + 1) = Cardinality(S) + 1
<1>1. IsFiniteSet(S)
  BY RankType
<1>2. Cardinality(S \cup {n + 1}) = Cardinality(S) + 1
  <2>1. n + 1 \notin S
    OBVIOUS
  <2>. QED BY <1>1, <2>1, FS_AddElement
<1>3. ASSUME NEW i \in S PROVE Rank(S \cup {n + 1}, i) = Rank(S, i)
  <2>1. {j \in S \cup {n + 1} : j <= i} = {j \in S : j <= i}
    OBVIOUS
  <2>. QED BY <2>1 DEF Rank
<1>4. {j \in S \cup {n + 1} : j <= n + 1} = S \cup {n + 1}
  <2>1. \A j \in S \cup {n + 1} : j <= n + 1
    OBVIOUS
  <2>. QED BY <2>1
<1>. QED BY <1>2, <1>3, <1>4 DEF Rank

(* Places that all move up by one keep their number.                       *)
LEMMA ShiftCount ==
  ASSUME NEW n \in Nat, NEW S \in SUBSET (2 .. n + 1), NEW T,
         T = {i \in 1 .. n : i + 1 \in S}
  PROVE  Cardinality(T) = Cardinality(S)
<1>. DEFINE f == [i \in S |-> i - 1]
<1>0. IsFiniteSet(2 .. n + 1)
  BY FS_Interval
<1>1. IsFiniteSet(S)
  BY <1>0, FS_Subset
<1>2. f \in [S -> T]
  OBVIOUS
<1>3. f \in Injection(S, T)
  BY <1>2 DEF Injection, IsInjective
<1>4. \A t \in T : t + 1 \in S /\ f[t + 1] = t
  OBVIOUS
<1>5. f \in Surjection(S, T)
  BY <1>2, <1>4 DEF Surjection
<1>6. ExistsBijection(S, T)
  BY <1>3, <1>5 DEF ExistsBijection, Bijection
<1>. QED BY <1>1, <1>6, FS_Bijection

(* When the first of a sequence leaves, the places move up, and there is   *)
(* one less if the first was one.                                          *)
LEMMA RankTail ==
  ASSUME NEW n \in Nat, NEW S \in SUBSET (1 .. n + 1), NEW T \in SUBSET (1 .. n),
         \A i \in 1 .. n : i \in T <=> i + 1 \in S
  PROVE  /\ Cardinality(T) = Cardinality(S \ {1})
         /\ \A i \in T : Rank(T, i) = Rank(S, i + 1) - (IF 1 \in S THEN 1 ELSE 0)
         /\ 1 \in S => Rank(S, 1) = 1
<1>0. n + 1 \in Nat /\ T = {i \in 1 .. n : i + 1 \in S}
  <2>1. \A i : i \in T <=> i \in 1 .. n /\ i + 1 \in S
    OBVIOUS
  <2>. QED BY <2>1
<1>1. IsFiniteSet(S) /\ Cardinality(S) \in Nat
  BY <1>0, RankType
<1>. DEFINE one == IF 1 \in S THEN 1 ELSE 0
<1>2. ASSUME NEW R \in SUBSET (1 .. n + 1)
      PROVE  Cardinality({i \in 1 .. n : i + 1 \in R}) = Cardinality(R) - (IF 1 \in R THEN 1 ELSE 0)
  <2>1. IsFiniteSet(R) /\ Cardinality(R) \in Nat
    BY <1>0, RankType
  <2>2. {i \in 1 .. n : i + 1 \in R} = {i \in 1 .. n : i + 1 \in R \ {1}}
    OBVIOUS
  <2>3. R \ {1} \in SUBSET (2 .. n + 1)
    OBVIOUS
  <2>4. Cardinality({i \in 1 .. n : i + 1 \in R}) = Cardinality(R \ {1})
    <3>. DEFINE Q == R \ {1}
    <3>. HIDE DEF Q
    <3>1. Cardinality({i \in 1 .. n : i + 1 \in Q}) = Cardinality(Q)
      BY <2>3, ShiftCount DEF Q
    <3>. QED BY <2>2, <3>1 DEF Q
  <2>5. Cardinality(R \ {1}) = IF 1 \in R THEN Cardinality(R) - 1 ELSE Cardinality(R)
    BY <2>1, FS_RemoveElement
  <2>. QED BY <2>1, <2>4, <2>5
<1>3. ASSUME NEW i \in T PROVE Rank(T, i) = Rank(S, i + 1) - one
  <2>. DEFINE R == {j \in S : j <= i + 1}
  <2>1. {j \in T : j <= i} = {j \in 1 .. n : j + 1 \in R}
    BY <1>0
  <2>2. 1 \in R <=> 1 \in S
    OBVIOUS
  <2>3. R \in SUBSET (1 .. n + 1)
    OBVIOUS
  <2>. HIDE DEF R
  <2>4. Cardinality({j \in 1 .. n : j + 1 \in R}) = Cardinality(R) - one
    BY <1>2, <2>2, <2>3
  <2>. QED BY <2>1, <2>4 DEF Rank, R
<1>4. ASSUME 1 \in S PROVE Rank(S, 1) = 1
  <2>1. \A j \in S : j <= 1 <=> j = 1
    OBVIOUS
  <2>2. {j \in S : j <= 1} = {1}
    BY <1>4, <2>1
  <2>. QED BY <2>2, FS_Singleton DEF Rank
<1>5. Cardinality(T) = Cardinality(S \ {1})
  <2>1. Cardinality({i \in 1 .. n : i + 1 \in S}) = Cardinality(S) - (IF 1 \in S THEN 1 ELSE 0)
    BY <1>2
  <2>2. Cardinality(S \ {1}) = IF 1 \in S THEN Cardinality(S) - 1 ELSE Cardinality(S)
    BY <1>1, FS_RemoveElement
  <2>. QED BY <1>0, <1>1, <2>1, <2>2
<1>. QED BY <1>3, <1>4, <1>5
-----------------------------------------------------------------------------
(* The places of a sequence with a member of a set: those of the announced *)
(* frames among the card's blocks, those of the transfers to the host.     *)
Places(s, T) == {i \in DOMAIN s : s[i] \in T}
Announced == {x \in ElBlocks : x.cmd = "rxdone"}
Upwards == {x \in ElTransfers : x.dir = "up"}
Coming(o) == Places(o, Announced)

(* They are places of the sequence.                                        *)
LEMMA PlacesType ==
  ASSUME NEW U, NEW T \in SUBSET U, NEW s \in Seq(U)
  PROVE  Places(s, T) \in SUBSET (1 .. Len(s)) /\ Cardinality(Places(s, T)) \in Nat
<1>1. Places(s, T) \in SUBSET (1 .. Len(s)) /\ Len(s) \in Nat
  BY DEF Places
<1>. QED BY <1>1, RankType

(* What is appended adds a place if it belongs to the set,                 *)
LEMMA PlacesAppend ==
  ASSUME NEW U, NEW T \in SUBSET U, NEW s \in Seq(U), NEW x \in T
  PROVE  /\ Places(Append(s, x), T) = Places(s, T) \cup {Len(s) + 1}
         /\ Cardinality(Places(Append(s, x), T)) = Cardinality(Places(s, T)) + 1
<1>1. DOMAIN Append(s, x) = DOMAIN s \cup {Len(s) + 1} /\ DOMAIN s = 1 .. Len(s) /\ Len(s) \in Nat
  OBVIOUS
<1>2. Append(s, x)[Len(s) + 1] = x /\ \A i \in DOMAIN s : Append(s, x)[i] = s[i]
  OBVIOUS
<1>3. Places(Append(s, x), T) = Places(s, T) \cup {Len(s) + 1}
  BY <1>1, <1>2 DEF Places
<1>4. Places(s, T) \in SUBSET (1 .. Len(s))
  BY PlacesType
<1>5. Cardinality(Places(s, T) \cup {Len(s) + 1}) = Cardinality(Places(s, T)) + 1
  BY <1>1, <1>4, RankAppend
<1>. QED BY <1>3, <1>5

(* and none if it does not.                                                *)
LEMMA PlacesOther ==
  ASSUME NEW U, NEW T \in SUBSET U, NEW s \in Seq(U), NEW x \in U, x \notin T
  PROVE  Places(Append(s, x), T) = Places(s, T)
<1>1. DOMAIN Append(s, x) = DOMAIN s \cup {Len(s) + 1} /\ DOMAIN s = 1 .. Len(s) /\ Len(s) \in Nat
  OBVIOUS
<1>2. Append(s, x)[Len(s) + 1] = x /\ \A i \in DOMAIN s : Append(s, x)[i] = s[i]
  OBVIOUS
<1>. QED BY <1>1, <1>2 DEF Places

(* When the first leaves, the others move up.                              *)
LEMMA PlacesTail ==
  ASSUME NEW U, NEW T \in SUBSET U, NEW s \in Seq(U), s # <<>>
  PROVE  /\ Len(s) - 1 \in Nat /\ Places(s, T) \in SUBSET (1 .. (Len(s) - 1) + 1)
         /\ Places(Tail(s), T) \in SUBSET (1 .. Len(s) - 1)
         /\ \A i \in 1 .. Len(s) - 1 : i \in Places(Tail(s), T) <=> i + 1 \in Places(s, T)
         /\ 1 \in Places(s, T) <=> Head(s) \in T
         /\ Head(s) \in T => Cardinality(Places(Tail(s), T)) = Cardinality(Places(s, T)) - 1
         /\ Head(s) \notin T => Cardinality(Places(Tail(s), T)) = Cardinality(Places(s, T))
<1>1. /\ Len(s) - 1 \in Nat /\ DOMAIN Tail(s) = 1 .. Len(s) - 1 /\ DOMAIN s = 1 .. Len(s)
      /\ Head(s) = s[1] /\ \A i \in DOMAIN Tail(s) : Tail(s)[i] = s[i + 1] /\ i + 1 \in DOMAIN s
  OBVIOUS
<1>2. /\ Places(Tail(s), T) \in SUBSET (1 .. Len(s) - 1)
      /\ \A i \in 1 .. Len(s) - 1 : i \in Places(Tail(s), T) <=> i + 1 \in Places(s, T)
  BY <1>1 DEF Places
<1>3. Places(s, T) \in SUBSET (1 .. (Len(s) - 1) + 1) /\ (1 \in Places(s, T) <=> Head(s) \in T)
  BY <1>1 DEF Places
<1>. DEFINE P == Places(s, T) Q == Places(Tail(s), T) m == Len(s) - 1
<1>4. /\ m \in Nat /\ P \in SUBSET (1 .. m + 1) /\ Q \in SUBSET (1 .. m)
      /\ \A i \in 1 .. m : i \in Q <=> i + 1 \in P
  BY <1>1, <1>2, <1>3
<1>5. /\ 1 \in P => Cardinality(Q) = Cardinality(P) - 1
      /\ 1 \notin P => Cardinality(Q) = Cardinality(P)
  <2>. HIDE DEF P, Q, m
  <2>1. Cardinality(Q) = Cardinality(P \ {1})
    BY <1>4, RankTail
  <2>2. m + 1 \in Nat
    BY <1>4
  <2>3. IsFiniteSet(P)
    BY <1>4, <2>2, RankType
  <2>4. Cardinality(P \ {1}) = IF 1 \in P THEN Cardinality(P) - 1 ELSE Cardinality(P)
    BY <2>3, FS_RemoveElement
  <2>. QED BY <2>1, <2>4
<1>. QED BY <1>1, <1>2, <1>3, <1>5

(* The announcements: their places,                                        *)
LEMMA ComingType ==
  ASSUME NEW o \in Seq(ElBlocks)
  PROVE  Coming(o) \in SUBSET (1 .. Len(o)) /\ Cardinality(Coming(o)) \in Nat
<1>1. Announced \in SUBSET ElBlocks
  BY DEF Announced
<1>. QED BY <1>1, PlacesType DEF Coming
(* one more of them,                                                       *)
LEMMA ComingAppend ==
  ASSUME NEW o \in Seq(ElBlocks), NEW x \in ElBlocks
  PROVE  /\ x.cmd = "rxdone" => Cardinality(Coming(Append(o, x))) = Cardinality(Coming(o)) + 1
         /\ x.cmd # "rxdone" => Coming(Append(o, x)) = Coming(o)
<1>1. Announced \in SUBSET ElBlocks /\ (x \in Announced <=> x.cmd = "rxdone")
  BY DEF Announced
<1>2. CASE x \in Announced
  <2>1. Cardinality(Places(Append(o, x), Announced)) = Cardinality(Places(o, Announced)) + 1
    BY <1>1, <1>2, PlacesAppend
  <2>. QED BY <1>1, <1>2, <2>1 DEF Coming
<1>3. CASE x \notin Announced
  <2>1. Places(Append(o, x), Announced) = Places(o, Announced)
    BY <1>1, <1>3, PlacesOther
  <2>. QED BY <1>1, <1>3, <2>1 DEF Coming
<1>. QED BY <1>2, <1>3
(* and one less.                                                           *)
LEMMA ComingTail ==
  ASSUME NEW o \in Seq(ElBlocks), o # <<>>
  PROVE  /\ Head(o).cmd = "rxdone" => Cardinality(Coming(Tail(o))) = Cardinality(Coming(o)) - 1
         /\ Head(o).cmd # "rxdone" => Cardinality(Coming(Tail(o))) = Cardinality(Coming(o))
<1>1. Head(o) \in ElBlocks
  OBVIOUS
<1>2. Announced \in SUBSET ElBlocks /\ (Head(o) \in Announced <=> Head(o).cmd = "rxdone")
  BY <1>1 DEF Announced
<1>. QED BY <1>2, PlacesTail DEF Coming

(* The receive commands on the card, the announcements and the backlog are *)
(* rx_active, or one more for the command of the reset.                    *)
ElCounted ==
  el_odd \subseteq {"mixed"} /\ el_running =>
    el_card.rx + Cardinality(Coming(el_card.out)) + Len(adapter.backlog) - adapter.rx_active \in {0, 1}

(* The count stays when a frame is noted or fetched, and when a receive    *)
(* command is posted or used up.                                           *)
LEMMA CountStep ==
  ASSUME NEW r \in Nat, NEW b \in Nat, NEW n \in Nat, NEW a \in Nat, r + b + n - a \in {0, 1},
         NEW b1 \in Nat, NEW n1 \in Nat, NEW k \in Nat
  PROVE  /\ b1 + n1 = b + n - 1 => r + b1 + n1 - (IF a > 0 THEN a - 1 ELSE 0) \in {0, 1}
         /\ b1 + n1 = b + n => r + b1 + n1 - a \in {0, 1}
         /\ r + k + b + n - (a + k) \in {0, 1}
<1>1. CASE a > 0
  BY <1>1
<1>2. CASE a = 0
  BY <1>2
<1>. QED BY <1>1, <1>2

(* Every step keeps count.                                                 *)
LEMMA ElCountedNext ==
  ASSUME ElType, ElType', ElCounted, [ElNext]_elVars
  PROVE  ElCounted'
<1>0. /\ el_card.rx \in Nat /\ el_card.out \in Seq(ElBlocks) /\ adapter.rx_active \in Nat
      /\ adapter.backlog \in Seq(Nat) /\ Len(adapter.backlog) \in Nat
      /\ Cardinality(Coming(el_card.out)) \in Nat /\ adapter \in ElAdapters /\ el_card \in ElCards
  BY ComingType DEF ElType, ElAdapters, ElCards
<1>. DEFINE blocks == Cardinality(Coming(el_card.out))
            rx == el_card.rx
            noted == Len(adapter.backlog)
            active == adapter.rx_active
            fine == el_odd \subseteq {"mixed"} /\ el_running
            Even == fine => rx + blocks + noted - active \in {0, 1}
<1>b. /\ rx \in Nat /\ blocks \in Nat /\ noted \in Nat /\ active \in Nat
      /\ rx' \in Nat /\ blocks' \in Nat /\ noted' \in Nat /\ active' \in Nat
  <2>2. rx \in Nat /\ blocks \in Nat /\ noted \in Nat /\ active \in Nat
    BY <1>0
  <2>3. /\ el_card' \in ElCards /\ adapter' \in ElAdapters
        /\ el_card'.out \in Seq(ElBlocks) /\ adapter'.backlog \in Seq(Nat)
    BY DEF ElType, ElCards, ElAdapters
  <2>4. rx' \in Nat /\ noted' \in Nat /\ active' \in Nat
    BY <2>3 DEF ElCards, ElAdapters
  <2>5. blocks' \in Nat
    BY <2>3, ComingType
  <2>. QED BY <2>2, <2>4, <2>5
<1>a. Even /\ (Even' => ElCounted')
  BY DEF ElCounted
<1>1. CASE UNCHANGED elVars
  BY <1>1 DEF elVars, elStack, ElCounted
<1>2. ASSUME NEW kind \in {"rxdone", "rxbad"}, ElArrive(kind) PROVE ElCounted'
  <2>. DEFINE x == [cmd |-> kind, frame |-> el_left.events]
  <2>1. /\ el_card'.rx = el_card.rx - 1 /\ x \in ElBlocks /\ x.cmd = kind
        /\ el_card'.out = Append(el_card.out, x) /\ UNCHANGED <<adapter, el_running>>
        /\ \/ kind = "rxbad" /\ el_odd' = {"bad"}
           \/ kind = "rxdone" /\ el_odd' = el_odd
    BY <1>0, <1>2 DEF ElArrive, ElType, ElCards, ElBlocks, elStack
  <2>. HIDE DEF x
  <2>2. kind = "rxdone" => blocks' = blocks + 1
    BY <1>0, <2>1, ComingAppend
  <2>3. rx' = rx - 1 /\ noted' = noted /\ active' = active /\ (fine' => fine /\ blocks' = blocks + 1)
    BY <2>1, <2>2
  <2>. HIDE DEF blocks, rx, noted, active, fine
  <2>4. Even'
    BY <1>a, <1>b, <2>3
  <2>. QED BY <1>a, <2>4
<1>3. CASE ElTransfer
  <2>1. /\ el_card'.rx = el_card.rx /\ el_card'.out = el_card.out
        /\ adapter'.rx_active = adapter.rx_active /\ adapter'.backlog = adapter.backlog
        /\ UNCHANGED <<el_running, el_odd>>
    BY <1>0, <1>3 DEF ElTransfer, ElAdapters, ElCards, elStack
  <2>. QED BY <2>1 DEF ElCounted
<1>4. CASE ElAired \/ ElSendRest
  <2>. DEFINE x(cmd) == [cmd |-> cmd, frame |-> 0]
  <2>1. \A cmd \in {"txdone", "stats"} : x(cmd) \in ElBlocks /\ x(cmd).cmd = cmd
    BY DEF ElBlocks
  <2>2. /\ el_card'.rx = el_card.rx /\ UNCHANGED <<adapter, el_running, el_odd>>
        /\ \/ el_card'.out = el_card.out
           \/ el_card'.out = Append(el_card.out, x("txdone"))
           \/ el_card'.out = Append(el_card.out, x("stats"))
    BY <1>0, <1>4 DEF ElAired, ElSendRest, ElCards, elStack
  <2>. HIDE DEF x
  <2>3. Coming(el_card'.out) = Coming(el_card.out)
    BY <1>0, <2>1, <2>2, ComingAppend
  <2>. QED BY <2>2, <2>3 DEF ElCounted
<1>5. CASE ElInterrupt \/ ElTurn \/ ElTimeout \/ ElStatsEnd \/ ElStats \/ ElClose \/ ElDown
  <2>1. UNCHANGED <<adapter, el_card, el_odd>> /\ (el_running' => el_running)
    BY <1>5 DEF ElInterrupt, ElTurn, ElTimeout, ElStatsEnd, ElStats, ElClose, ElDown, elStack
  <2>. QED BY <2>1 DEF ElCounted
<1>6. CASE ElDmaDone
  <2>1. UNCHANGED el_running
    BY <1>6 DEF ElDmaDone, elStack
  <2>2. /\ el_card'.out = el_card.out /\ el_card'.rx = el_card.rx
        /\ \/ el_odd' = {"squeeze"}
           \/ /\ el_odd' = el_odd /\ Len(adapter'.backlog) = Len(adapter.backlog) - 1
              /\ adapter'.rx_active = IF adapter.rx_active > 0 THEN adapter.rx_active - 1 ELSE 0
           \/ /\ el_odd' = el_odd /\ adapter'.backlog = adapter.backlog
              /\ adapter'.rx_active = adapter.rx_active
    <3>1. adapter.backlog # <<>> => Len(Tail(adapter.backlog)) = Len(adapter.backlog) - 1
      BY <1>0
    <3>. QED BY <1>6, <3>1, ElDmaDoneEffect
  <2>3. /\ rx' = rx /\ blocks' = blocks
        /\ \/ ~ fine'
           \/ (fine' => fine) /\ noted' = noted - 1 /\ active' = IF active > 0 THEN active - 1 ELSE 0
           \/ (fine' => fine) /\ noted' = noted /\ active' = active
    BY <2>1, <2>2
  <2>. HIDE DEF blocks, rx, noted, active, fine
  <2>4. ASSUME fine' PROVE rx' + blocks' + noted' - active' \in {0, 1}
    <3>1. fine /\ rx + blocks + noted - active \in {0, 1}
      BY <1>a, <2>3, <2>4
    <3>2. CASE noted' = noted - 1 /\ active' = IF active > 0 THEN active - 1 ELSE 0
      <4>1. blocks' + noted' = blocks + noted - 1
        BY <1>b, <2>3, <3>2
      <4>. QED BY <1>b, <2>3, <3>1, <3>2, <4>1, CountStep
    <3>3. CASE noted' = noted /\ active' = active
      BY <2>3, <3>1, <3>3
    <3>. QED BY <2>3, <2>4, <3>2, <3>3
  <2>. QED BY <1>a, <2>4
<1>7. CASE ElDmaCheck
  <2>1. PICK c \in ElChecked : adapter' = c.a /\ el_armed' = c.armed /\ el_odd' = c.odd
    BY <1>7 DEF ElDmaCheck
  <2>2. UNCHANGED <<el_running, el_card>>
    BY <1>7 DEF ElDmaCheck, elStack
  <2>3. UNCHANGED <<adapter, el_odd>> \/ "timeout" \in el_odd'
    BY <2>1, ElCheckedType
  <2>. QED BY <2>2, <2>3 DEF ElCounted
<1>8. CASE ElRxPcb
  <2>1. UNCHANGED el_running
    BY <1>8 DEF ElRxPcb, elStack
  <2>2. CASE UNCHANGED <<adapter, el_card, el_armed, el_odd>>
    BY <2>1, <2>2 DEF ElCounted
  <2>3. CASE el_card'.out = Tail(el_card.out) /\ el_running
    <3>1. /\ el_card.out # <<>> /\ el_card'.rx = el_card.rx
          /\ Head(el_card.out) \in ElBlocks /\ Head(el_card.out).frame \in Nat
      BY <1>8, ElAckType, ElRxPcbEffect DEF ElBlocks
    <3>3. \/ UNCHANGED <<adapter, el_card, el_armed, el_odd>>
          \/ el_odd' = {"squeeze"}
          \/ /\ el_odd' = el_odd /\ Head(el_card.out).cmd = "rxdone"
             /\ adapter'.backlog = Append(adapter.backlog, Head(el_card.out).frame)
             /\ adapter'.rx_active = adapter.rx_active
          \/ /\ el_odd' = el_odd /\ Head(el_card.out).cmd = "rxdone" /\ adapter'.backlog = adapter.backlog
             /\ adapter'.rx_active = IF adapter.rx_active > 0 THEN adapter.rx_active - 1 ELSE 0
          \/ /\ el_odd' = el_odd /\ Head(el_card.out).cmd # "rxdone"
             /\ adapter'.backlog = adapter.backlog /\ adapter'.rx_active = adapter.rx_active
      BY <1>8, <2>3, ElRxPcbEffect
    <3>4. Len(Append(adapter.backlog, Head(el_card.out).frame)) = Len(adapter.backlog) + 1
      BY <1>0, <3>1
    <3>5. /\ Head(el_card.out).cmd = "rxdone" => blocks' = blocks - 1
          /\ Head(el_card.out).cmd # "rxdone" => blocks' = blocks
      BY <1>0, <2>3, <3>1, ComingTail
    <3>6. rx' = rx
      BY <3>1
    <3>8. \/ UNCHANGED <<adapter, el_card, el_armed, el_odd>>
          \/ ~ fine'
          \/ (fine' => fine) /\ blocks' = blocks - 1 /\ noted' = noted + 1 /\ active' = active
          \/ /\ (fine' => fine) /\ blocks' = blocks - 1 /\ noted' = noted
             /\ active' = IF active > 0 THEN active - 1 ELSE 0
          \/ (fine' => fine) /\ blocks' = blocks /\ noted' = noted /\ active' = active
      <4>. HIDE DEF blocks
      <4>. QED BY <2>1, <3>3, <3>4, <3>5
    <3>. HIDE DEF blocks, rx, noted, active, fine
    <3>7. CASE ~ UNCHANGED <<adapter, el_card, el_armed, el_odd>>
      <4>1. ASSUME fine' PROVE rx' + blocks' + noted' - active' \in {0, 1}
        <5>1. fine /\ rx + blocks + noted - active \in {0, 1}
          BY <1>a, <3>7, <3>8, <4>1
        <5>2. CASE blocks' = blocks - 1 /\ noted' = noted + 1 /\ active' = active
          <6>1. blocks' + noted' = blocks + noted
            BY <1>b, <5>2
          <6>. QED BY <1>b, <3>6, <5>1, <5>2, <6>1, CountStep
        <5>3. CASE /\ blocks' = blocks - 1 /\ noted' = noted
                   /\ active' = IF active > 0 THEN active - 1 ELSE 0
          <6>1. blocks' + noted' = blocks + noted - 1
            BY <1>b, <5>3
          <6>. QED BY <1>b, <3>6, <5>1, <5>3, <6>1, CountStep
        <5>4. CASE blocks' = blocks /\ noted' = noted /\ active' = active
          BY <3>6, <5>1, <5>4
        <5>. QED BY <3>7, <3>8, <4>1, <5>2, <5>3, <5>4
      <4>. QED BY <1>a, <4>1
    <3>. QED BY <2>2, <3>7
  <2>4. CASE ~ el_running
    BY <2>1, <2>4 DEF ElCounted
  <2>. QED BY <1>8, <2>2, <2>3, <2>4, ElRxPcbEffect
<1>9. CASE ElOtherPcb
  <2>1. /\ el_card'.rx = el_card.rx /\ el_card.out # <<>> /\ el_card'.out = Tail(el_card.out)
        /\ Head(el_card.out).cmd # "rxdone" /\ UNCHANGED <<adapter, el_running, el_odd>>
    BY <1>0, <1>9 DEF ElOtherPcb, ElCards
  <2>2. blocks' = blocks
    BY <1>0, <1>b, <2>1, ComingTail
  <2>. QED BY <2>1, <2>2 DEF ElCounted
<1>10. CASE ElIrqEnd
  <2>1. PICK k \in ElPrimed(adapter) : adapter' = [adapter EXCEPT !.rx_active = @ + k]
                                       /\ el_card' = [el_card EXCEPT !.rx = @ + k]
    BY <1>10 DEF ElIrqEnd
  <2>2. k \in Nat
    BY <1>0, ElPrimedType
  <2>3. /\ adapter'.rx_active = adapter.rx_active + k /\ adapter'.backlog = adapter.backlog
        /\ el_card'.rx = el_card.rx + k /\ el_card'.out = el_card.out
    BY <1>0, <2>1 DEF ElAdapters, ElCards
  <2>4. UNCHANGED <<el_running, el_odd>>
    BY <1>10 DEF ElIrqEnd, elStack
  <2>5. (fine' => fine) /\ rx' = rx + k /\ blocks' = blocks /\ noted' = noted /\ active' = active + k
    BY <2>3, <2>4
  <2>. HIDE DEF blocks, rx, noted, active, fine
  <2>6. Even'
    BY <1>a, <1>b, <2>2, <2>5
  <2>. QED BY <1>a, <2>6
<1>11. CASE ElXmit
  <2>1. UNCHANGED el_running /\ el_card'.out = el_card.out
    BY <1>11, ElXmitEffect
  <2>2. CASE "timeout" \in el_odd'
    BY <2>2 DEF ElCounted
  <2>3. CASE "timeout" \notin el_odd'
    <3>1. /\ el_odd \subseteq el_odd' /\ adapter'.backlog = adapter.backlog
          /\ \/ adapter'.rx_active = adapter.rx_active /\ el_card' = el_card
             \/ \E k \in Nat : /\ adapter'.rx_active = adapter.rx_active + k
                              /\ el_card'.rx = el_card.rx + k
      BY <1>11, <2>3, ElXmitEffect
    <3>2. /\ fine' => fine
          /\ blocks' = blocks /\ noted' = noted
          /\ \/ active' = active /\ rx' = rx
             \/ \E k \in Nat : active' = active + k /\ rx' = rx + k
      BY <2>1, <3>1
    <3>. HIDE DEF blocks, rx, noted, active, fine
    <3>3. ASSUME fine' PROVE rx' + blocks' + noted' - active' \in {0, 1}
      <4>1. fine /\ rx + blocks + noted - active \in {0, 1}
        BY <1>a, <3>2, <3>3
      <4>2. CASE active' = active /\ rx' = rx
        BY <3>2, <4>1, <4>2
      <4>3. ASSUME NEW k \in Nat, active' = active + k, rx' = rx + k
            PROVE  rx' + blocks' + noted' - active' \in {0, 1}
        <5>1. rx + k + blocks + noted - (active + k) \in {0, 1}
          BY <1>b, <4>1, CountStep
        <5>. QED BY <3>2, <4>3, <5>1
      <4>. QED BY <3>2, <4>2, <4>3
    <3>. QED BY <1>a, <3>3
  <2>. QED BY <2>2, <2>3
<1>12. CASE ElSendFirst
  <2>1. PICK c \in ElChecked :
          /\ adapter' = [c.a EXCEPT !.sem = tx_pcb] \/ adapter' = c.a
          /\ el_odd' = c.odd
    BY <1>12 DEF ElSendFirst
  <2>2. UNCHANGED <<el_running, el_card>>
    BY <1>12 DEF ElSendFirst, elStack
  <2>3. (c.a = adapter /\ c.odd = el_odd) \/ c.odd = {"timeout"}
    BY ElCheckedType
  <2>4. CASE c.a = adapter /\ c.odd = el_odd
    <3>1. adapter'.rx_active = adapter.rx_active /\ adapter'.backlog = adapter.backlog
      BY <1>0, <2>1, <2>4 DEF ElAdapters
    <3>. QED BY <2>1, <2>2, <2>4, <3>1 DEF ElCounted
  <2>. QED BY <2>1, <2>3, <2>4 DEF ElCounted
<1>13. CASE ElSendEnd
  <2>1. /\ adapter'.rx_active = adapter.rx_active /\ adapter'.backlog = adapter.backlog
        /\ UNCHANGED <<el_running, el_card, el_odd>>
    BY <1>0, <1>13 DEF ElSendEnd, ElAdapters, elStack
  <2>. QED BY <2>1 DEF ElCounted
<1>14. CASE ElOpen
  <2>1. /\ el_card'.rx = ELP_RX_PCBS + 1 /\ el_card'.out = <<>>
        /\ adapter'.rx_active = ELP_RX_PCBS /\ adapter'.backlog = <<>>
    BY <1>14 DEF ElOpen, ElOpened, ElCardReset
  <2>2. Cardinality(Coming(el_card'.out)) = 0
    <3>1. Coming(<<>>) = {}
      BY DEF Coming, Places
    <3>. QED BY <2>1, <3>1, FS_EmptySet
  <2>. QED BY <2>1, <2>2, ElpAssumption DEF ElCounted
<1>. QED BY <1>1, <1>2, <1>3, <1>4, <1>5, <1>6, <1>7, <1>8, <1>9, <1>10, <1>11, <1>12, <1>13,
            <1>14 DEF ElNext

(* The driver never counts more receive commands than the card has, or the *)
(* receiver would run dry, nor fewer than that less the one of the reset.  *)
THEOREM ElReceivesCountedAlways == ElSpec => []ElReceivesCounted
<1>1. ElInit => ElCounted
  <2>. SUFFICES ASSUME ElInit PROVE ElCounted
    OBVIOUS
  <2>1. /\ el_card.rx = ELP_RX_PCBS + 1 /\ el_card.out = <<>>
        /\ adapter.rx_active = ELP_RX_PCBS /\ adapter.backlog = <<>>
    BY DEF ElInit, ElOpened, ElCardReset
  <2>2. Cardinality(Coming(el_card.out)) = 0
    <3>1. Coming(<<>>) = {}
      BY DEF Coming, Places
    <3>. QED BY <2>1, <3>1, FS_EmptySet
  <2>. QED BY <2>1, <2>2, ElpAssumption DEF ElCounted
<1>2. ElType /\ ElType' /\ ElCounted /\ [ElNext]_elVars => ElCounted'
  BY ElCountedNext
<1>3. ElType /\ ElCounted => ElReceivesCounted
  <2>1. ElType => ElComing = Coming(el_card.out)
    <3>. SUFFICES ASSUME ElType PROVE ElComing = Coming(el_card.out)
      OBVIOUS
    <3>1. el_card.out \in Seq(ElBlocks)
      BY DEF ElType, ElCards
    <3>2. \A i \in DOMAIN el_card.out : el_card.out[i] \in ElBlocks
      BY <3>1
    <3>. QED BY <3>2 DEF Coming, ElComing, Places, Announced
  <2>. QED BY <2>1 DEF ElCounted, ElReceivesCounted
<1>. QED BY <1>1, <1>2, <1>3, ElInvariant, PTL DEF ElSpec
-----------------------------------------------------------------------------
(* The frames of s that belong to T are those that arrived after n others, *)
(* in the same order.                                                      *)
Follow(arr, n, s, T) ==
  \A i \in Places(s, T) : arr[n + Rank(Places(s, T), i)] = s[i].frame

(* What is appended to s follows if it is the next that arrived.           *)
LEMMA FollowAppend ==
  ASSUME NEW U, NEW T \in SUBSET U, NEW s \in Seq(U), NEW x \in U, NEW arr, NEW n \in Nat,
         Follow(arr, n, s, T), x \in T => arr[n + Cardinality(Places(s, T)) + 1] = x.frame
  PROVE  Follow(arr, n, Append(s, x), T)
<1>. DEFINE P == Places(s, T)
<1>1. P \in SUBSET (1 .. Len(s)) /\ Cardinality(P) \in Nat /\ Len(s) \in Nat
  BY PlacesType
<1>2. \A i \in P : Append(s, x)[i] = s[i]
  BY <1>1
<1>3. CASE x \notin T
  <2>1. Places(Append(s, x), T) = P
    BY <1>3, PlacesOther
  <2>. QED BY <1>2, <2>1 DEF Follow
<1>4. CASE x \in T
  <2>1. Places(Append(s, x), T) = P \cup {Len(s) + 1} /\ Append(s, x)[Len(s) + 1] = x
    BY <1>4, PlacesAppend
  <2>2. /\ \A i \in P : Rank(P \cup {Len(s) + 1}, i) = Rank(P, i)
        /\ Rank(P \cup {Len(s) + 1}, Len(s) + 1) = Cardinality(P) + 1
    BY <1>1, RankAppend
  <2>3. arr[n + (Cardinality(P) + 1)] = x.frame
    BY <1>1, <1>4
  <2>. QED BY <1>2, <2>1, <2>2, <2>3 DEF Follow
<1>. QED BY <1>3, <1>4

(* When the first of s leaves, it is the next that arrived if it counts.   *)
LEMMA FollowTail ==
  ASSUME NEW U, NEW T \in SUBSET U, NEW s \in Seq(U), s # <<>>, NEW arr, NEW n \in Nat,
         Follow(arr, n, s, T)
  PROVE  /\ Head(s) \in T => arr[n + 1] = Head(s).frame /\ Follow(arr, n + 1, Tail(s), T)
         /\ Head(s) \notin T => Follow(arr, n, Tail(s), T)
<1>. DEFINE P == Places(s, T) Q == Places(Tail(s), T) m == Len(s) - 1
<1>1. /\ m \in Nat /\ P \in SUBSET (1 .. m + 1) /\ Q \in SUBSET (1 .. m)
      /\ \A i \in 1 .. m : i \in Q <=> i + 1 \in P
      /\ 1 \in P <=> Head(s) \in T
  BY PlacesTail
<1>2. /\ \A i \in Q : Rank(Q, i) = Rank(P, i + 1) - (IF 1 \in P THEN 1 ELSE 0)
      /\ 1 \in P => Rank(P, 1) = 1
  <2>. HIDE DEF P, Q, m
  <2>. QED BY <1>1, RankTail
<1>3. \A i \in P : Rank(P, i) \in Nat
  <2>. HIDE DEF P, Q, m
  <2>1. m + 1 \in Nat
    BY <1>1
  <2>2. Cardinality(P) \in Nat /\ \A i \in P : Rank(P, i) \in 1 .. Cardinality(P)
    BY <1>1, <2>1, RankType
  <2>. QED BY <2>2
<1>4. \A i \in Q : Tail(s)[i] = s[i + 1] /\ i + 1 \in P
  BY <1>1
<1>5. ASSUME NEW i \in Q PROVE arr[n + Rank(P, i + 1)] = Tail(s)[i].frame
  BY <1>4, <1>5 DEF Follow
<1>6. CASE Head(s) \in T
  <2>1. arr[n + 1] = Head(s).frame
    BY <1>1, <1>2, <1>6 DEF Follow
  <2>2. ASSUME NEW i \in Q PROVE n + 1 + Rank(Q, i) = n + Rank(P, i + 1)
    BY <1>1, <1>2, <1>3, <1>4, <1>6
  <2>. QED BY <1>5, <1>6, <2>1, <2>2 DEF Follow
<1>7. CASE Head(s) \notin T
  <2>2. ASSUME NEW i \in Q PROVE n + Rank(Q, i) = n + Rank(P, i + 1)
    BY <1>1, <1>2, <1>3, <1>4, <1>7
  <2>. QED BY <1>5, <1>7, <2>2 DEF Follow
<1>. QED BY <1>6, <1>7

(* Those that arrive later change nothing for the others.                  *)
LEMMA FollowMore ==
  ASSUME NEW U, NEW T \in SUBSET U, NEW s \in Seq(U), NEW arr \in Seq(Nat), NEW f \in Nat, NEW n \in Nat,
         Follow(arr, n, s, T), n + Cardinality(Places(s, T)) <= Len(arr)
  PROVE  Follow(Append(arr, f), n, s, T)
<1>0. Places(s, T) \in SUBSET (1 .. Len(s)) /\ Len(s) \in Nat
  BY PlacesType
<1>1. \A i \in Places(s, T) : Rank(Places(s, T), i) \in 1 .. Cardinality(Places(s, T))
  BY <1>0, RankType
<1>2. Cardinality(Places(s, T)) \in Nat
  BY PlacesType
<1>3. \A i \in Places(s, T) : n + Rank(Places(s, T), i) \in 1 .. Len(arr)
  BY <1>1, <1>2
<1>4. \A k \in 1 .. Len(arr) : Append(arr, f)[k] = arr[k]
  OBVIOUS
<1>. QED BY <1>3, <1>4 DEF Follow

(* The frames that arrived: those taken, those wanted, those coming.       *)
Account(arr, t, w, o) ==
  /\ Len(arr) = Len(t) + Cardinality(Places(w, Upwards)) + Cardinality(Places(o, Announced))
  /\ \A i \in DOMAIN t : arr[i] = t[i]
  /\ Follow(arr, Len(t), w, Upwards)
  /\ Follow(arr, Len(t) + Cardinality(Places(w, Upwards)), o, Announced)

(* What it is about.                                                       *)
LEMMA AccountType ==
  ASSUME NEW t \in Seq(Nat), NEW w \in Seq(ElTransfers), NEW o \in Seq(ElBlocks)
  PROVE  /\ Upwards \in SUBSET ElTransfers /\ Announced \in SUBSET ElBlocks
         /\ Len(t) \in Nat /\ Cardinality(Places(w, Upwards)) \in Nat
         /\ Cardinality(Places(o, Announced)) \in Nat
<1>1. Upwards \in SUBSET ElTransfers /\ Announced \in SUBSET ElBlocks
  BY DEF Upwards, Announced
<1>2. Cardinality(Places(w, Upwards)) \in Nat
  BY <1>1, PlacesType
<1>3. Cardinality(Places(o, Announced)) \in Nat
  BY <1>1, PlacesType
<1>. QED BY <1>1, <1>2, <1>3

(* A frame arrives.                                                        *)
LEMMA AccountArrive ==
  ASSUME NEW arr \in Seq(Nat), NEW t \in Seq(Nat), NEW w \in Seq(ElTransfers), NEW o \in Seq(ElBlocks),
         Account(arr, t, w, o), NEW x \in Announced, x.frame \in Nat
  PROVE  Account(Append(arr, x.frame), t, w, Append(o, x))
<1>. DEFINE n == Len(t) k == Cardinality(Places(w, Upwards)) c == Cardinality(Places(o, Announced))
            arr1 == Append(arr, x.frame)
<1>1. /\ Upwards \in SUBSET ElTransfers /\ Announced \in SUBSET ElBlocks
      /\ n \in Nat /\ k \in Nat /\ c \in Nat /\ n + k \in Nat
  BY AccountType
<1>2. /\ Len(arr) = n + k + c /\ Len(arr) \in Nat
      /\ \A i \in DOMAIN t : arr[i] = t[i]
      /\ Follow(arr, n, w, Upwards) /\ Follow(arr, n + k, o, Announced)
  BY DEF Account
<1>3. /\ Len(arr1) = Len(arr) + 1 /\ arr1[Len(arr) + 1] = x.frame
      /\ \A i \in 1 .. Len(arr) : arr1[i] = arr[i]
  OBVIOUS
<1>4. x \in ElBlocks /\ Cardinality(Places(Append(o, x), Announced)) = c + 1
  BY <1>1, PlacesAppend
<1>5. Follow(arr1, n, w, Upwards)
  <2>1. n + k <= Len(arr)
    BY <1>1, <1>2
  <2>. QED BY <1>1, <1>2, <2>1, FollowMore
<1>6. Follow(arr1, n + k, o, Announced)
  <2>1. (n + k) + c <= Len(arr)
    BY <1>1, <1>2
  <2>. QED BY <1>1, <1>2, <2>1, FollowMore
<1>7. Follow(arr1, n + k, Append(o, x), Announced)
  <2>1. arr1[(n + k) + c + 1] = x.frame
    BY <1>1, <1>2, <1>3
  <2>. HIDE DEF arr1
  <2>. QED BY <1>1, <1>4, <1>6, <2>1, FollowAppend
<1>8. \A i \in DOMAIN t : arr1[i] = t[i]
  <2>1. \A i \in DOMAIN t : i \in 1 .. Len(arr)
    <3>1. DOMAIN t = 1 .. n
      OBVIOUS
    <3>. HIDE DEF n, k, c
    <3>. QED BY <1>1, <1>2, <3>1
  <2>. QED BY <1>2, <1>3, <2>1
<1>9. Len(arr1) = n + k + (c + 1)
  <2>. HIDE DEF n, k, c, arr1
  <2>. QED BY <1>1, <1>2, <1>3
<1>. QED BY <1>4, <1>5, <1>7, <1>8, <1>9 DEF Account

(* An announcement is acknowledged, and the card waits for the transfer.   *)
LEMMA AccountAnnounced ==
  ASSUME NEW arr, NEW t \in Seq(Nat), NEW w \in Seq(ElTransfers), NEW o \in Seq(ElBlocks),
         Account(arr, t, w, o), o # <<>>, Head(o) \in Announced,
         NEW x \in Upwards, x.frame = Head(o).frame
  PROVE  Account(arr, t, Append(w, x), Tail(o))
<1>. DEFINE n == Len(t) k == Cardinality(Places(w, Upwards)) c == Cardinality(Places(o, Announced))
<1>1. /\ Upwards \in SUBSET ElTransfers /\ Announced \in SUBSET ElBlocks /\ x \in ElTransfers
      /\ n \in Nat /\ k \in Nat /\ c \in Nat /\ n + k \in Nat
  BY AccountType
<1>2. /\ Len(arr) = n + k + c
      /\ \A i \in DOMAIN t : arr[i] = t[i]
      /\ Follow(arr, n, w, Upwards) /\ Follow(arr, n + k, o, Announced)
  BY DEF Account
<1>3. arr[(n + k) + 1] = Head(o).frame /\ Follow(arr, (n + k) + 1, Tail(o), Announced)
  BY <1>1, <1>2, FollowTail
<1>4. Cardinality(Places(Append(w, x), Upwards)) = k + 1
  BY <1>1, PlacesAppend
<1>5. Cardinality(Places(Tail(o), Announced)) = c - 1
  BY <1>1, PlacesTail
<1>6. Follow(arr, n, Append(w, x), Upwards)
  BY <1>1, <1>2, <1>3, FollowAppend
<1>. DEFINE w1 == Append(w, x) o1 == Tail(o)
<1>7. n + (k + 1) = (n + k) + 1 /\ n + k + c = n + (k + 1) + (c - 1)
  <2>. HIDE DEF n, k, c
  <2>. QED BY <1>1
<1>. HIDE DEF w1, o1
<1>. QED BY <1>2, <1>3, <1>4, <1>5, <1>6, <1>7 DEF Account, w1, o1

(* The frame the card waited with is taken.                                *)
LEMMA AccountTaken ==
  ASSUME NEW arr, NEW t \in Seq(Nat), NEW w \in Seq(ElTransfers), NEW o \in Seq(ElBlocks),
         Account(arr, t, w, o), w # <<>>, Head(w) \in Upwards
  PROVE  Account(arr, Append(t, Head(w).frame), Tail(w), o)
<1>. DEFINE n == Len(t) k == Cardinality(Places(w, Upwards)) c == Cardinality(Places(o, Announced))
            t1 == Append(t, Head(w).frame)
<1>1. /\ Upwards \in SUBSET ElTransfers /\ Announced \in SUBSET ElBlocks
      /\ n \in Nat /\ k \in Nat /\ c \in Nat /\ n + k \in Nat
  BY AccountType
<1>2. /\ Len(arr) = n + k + c
      /\ \A i \in DOMAIN t : arr[i] = t[i]
      /\ Follow(arr, n, w, Upwards) /\ Follow(arr, n + k, o, Announced)
  BY DEF Account
<1>3. arr[n + 1] = Head(w).frame /\ Follow(arr, n + 1, Tail(w), Upwards)
  BY <1>1, <1>2, FollowTail
<1>4. Cardinality(Places(Tail(w), Upwards)) = k - 1
  BY <1>1, PlacesTail
<1>5. Head(w).frame \in Nat
  <2>1. Head(w) \in ElTransfers
    OBVIOUS
  <2>. QED BY <2>1 DEF ElTransfers
<1>6. /\ Len(t1) = n + 1 /\ DOMAIN t1 = DOMAIN t \cup {n + 1} /\ t1[n + 1] = Head(w).frame
      /\ \A i \in DOMAIN t : t1[i] = t[i]
  BY <1>5
<1>7. \A i \in DOMAIN t1 : arr[i] = t1[i]
  BY <1>2, <1>3, <1>6
<1>8. (n + 1) + (k - 1) = n + k
  <2>. HIDE DEF n, k, c
  <2>. QED BY <1>1
<1>. HIDE DEF t1
<1>. QED BY <1>2, <1>3, <1>4, <1>6, <1>7, <1>8 DEF Account, t1

(* What else is asked of the card or said by it changes nothing.           *)
LEMMA AccountOther ==
  ASSUME NEW arr, NEW t \in Seq(Nat), NEW w \in Seq(ElTransfers), NEW o \in Seq(ElBlocks),
         Account(arr, t, w, o)
  PROVE  /\ \A x \in ElTransfers \ Upwards : Account(arr, t, Append(w, x), o)
         /\ \A x \in ElBlocks \ Announced : Account(arr, t, w, Append(o, x))
         /\ w # <<>> /\ Head(w) \notin Upwards => Account(arr, t, Tail(w), o)
         /\ o # <<>> /\ Head(o) \notin Announced => Account(arr, t, w, Tail(o))
<1>. DEFINE n == Len(t) k == Cardinality(Places(w, Upwards)) c == Cardinality(Places(o, Announced))
<1>1. /\ Upwards \in SUBSET ElTransfers /\ Announced \in SUBSET ElBlocks
      /\ n \in Nat /\ k \in Nat /\ c \in Nat /\ n + k \in Nat
  BY AccountType
<1>2. /\ Len(arr) = n + k + c
      /\ \A i \in DOMAIN t : arr[i] = t[i]
      /\ Follow(arr, n, w, Upwards) /\ Follow(arr, n + k, o, Announced)
  BY DEF Account
<1>3. ASSUME NEW x \in ElTransfers \ Upwards PROVE Account(arr, t, Append(w, x), o)
  <2>1. Places(Append(w, x), Upwards) = Places(w, Upwards)
    BY <1>1, PlacesOther
  <2>2. Follow(arr, n, Append(w, x), Upwards)
    BY <1>1, <1>2, FollowAppend
  <2>. DEFINE w1 == Append(w, x)
  <2>. HIDE DEF w1
  <2>. QED BY <1>2, <2>1, <2>2 DEF Account, w1
<1>4. ASSUME NEW x \in ElBlocks \ Announced PROVE Account(arr, t, w, Append(o, x))
  <2>1. Places(Append(o, x), Announced) = Places(o, Announced)
    BY <1>1, PlacesOther
  <2>2. Follow(arr, n + k, Append(o, x), Announced)
    BY <1>1, <1>2, FollowAppend
  <2>. QED BY <1>2, <2>1, <2>2 DEF Account
<1>5. ASSUME w # <<>>, Head(w) \notin Upwards PROVE Account(arr, t, Tail(w), o)
  <2>1. Cardinality(Places(Tail(w), Upwards)) = k
    BY <1>1, <1>5, PlacesTail
  <2>2. Follow(arr, n, Tail(w), Upwards)
    BY <1>1, <1>2, <1>5, FollowTail
  <2>. QED BY <1>2, <2>1, <2>2 DEF Account
<1>6. ASSUME o # <<>>, Head(o) \notin Announced PROVE Account(arr, t, w, Tail(o))
  <2>1. Cardinality(Places(Tail(o), Announced)) = c
    BY <1>1, <1>6, PlacesTail
  <2>2. Follow(arr, n + k, Tail(o), Announced)
    BY <1>1, <1>2, <1>6, FollowTail
  <2>. QED BY <1>2, <2>1, <2>2 DEF Account
<1>. QED BY <1>3, <1>4, <1>5, <1>6

(* Nothing arrived, nothing is kept.                                       *)
LEMMA ElKeptEmpty == Account(<<>>, <<>> \o <<>>, <<>>, <<>>) /\ <<>> = <<>> \o <<>>
<1>1. <<>> \o <<>> = <<>>
  OBVIOUS
<1>2. Places(<<>>, Upwards) = {} /\ Places(<<>>, Announced) = {} /\ Cardinality({}) = 0
  BY FS_EmptySet DEF Places
<1>3. Account(<<>>, <<>>, <<>>, <<>>)
  <2>. DEFINE e == <<>>
  <2>1. Len(e) = 0 /\ DOMAIN e = {}
    OBVIOUS
  <2>2. Places(e, Upwards) = {} /\ Places(e, Announced) = {}
    BY <1>2
  <2>. HIDE DEF e
  <2>3. \A n \in Nat : Follow(e, n, e, Upwards) /\ Follow(e, n, e, Announced)
    BY <2>2 DEF Follow
  <2>4. Account(e, e, e, e)
    BY <1>2, <2>1, <2>2, <2>3 DEF Account
  <2>. QED BY <2>4 DEF e
<1>. QED BY <1>1, <1>3

(* A frame that joins a history.                                           *)
LEMMA LastFrame ==
  ASSUME NEW s \in Seq(Nat), NEW f \in Nat
  PROVE  s \o <<>> = s /\ s \o <<f>> = Append(s, f) /\ Append(s, f) \in Seq(Nat)
OBVIOUS

(* The frames of the 3c505 while nothing went wrong.                       *)
ElTaken == el_delivered \o ElDone("up")
ElKept ==
  el_odd = {} /\ el_running =>
    /\ Account(el_arrived, ElTaken, el_card.want, el_card.out)
    /\ el_sent = el_freed \o ElDone("down")

(* A frame that was transferred is in no history yet.                      *)
LEMMA ElDoneCases ==
  ASSUME NEW dir, NEW s \in Seq(Nat), adapter.skb \in Nat
  PROVE  /\ el_card.done /\ adapter.dir = dir => s \o ElDone(dir) = Append(s, adapter.skb)
         /\ ~ (el_card.done /\ adapter.dir = dir) => s \o ElDone(dir) = s
<1>1. s \o <<>> = s /\ s \o <<adapter.skb>> = Append(s, adapter.skb)
  BY LastFrame
<1>. QED BY <1>1 DEF ElDone

(* Every step keeps the frames.                                            *)
LEMMA ElKeptNext ==
  ASSUME ElType, ElType', ElChannelInv, ElKept, [ElNext]_elVars
  PROVE  ElKept'
<1>0. /\ el_card.out \in Seq(ElBlocks) /\ el_card.want \in Seq(ElTransfers)
      /\ el_delivered \in Seq(Nat) /\ el_freed \in Seq(Nat) /\ el_arrived \in Seq(Nat)
      /\ adapter.skb \in Nat /\ adapter \in ElAdapters /\ el_card \in ElCards
      /\ adapter.dmaing \in BOOLEAN /\ adapter.busy \in BOOLEAN /\ el_card.done \in BOOLEAN
      /\ el_armed \in {"no", "up", "down"}
  BY DEF ElType, ElAdapters, ElCards
<1>a. /\ adapter'.skb \in Nat /\ el_delivered' \in Seq(Nat) /\ el_freed' \in Seq(Nat)
      /\ adapter' \in ElAdapters /\ el_card' \in ElCards
  BY DEF ElType, ElAdapters
<1>b. ElTaken \in Seq(Nat)
  <2>1. ElTaken = el_delivered \/ ElTaken = Append(el_delivered, adapter.skb)
    BY <1>0, ElDoneCases DEF ElTaken
  <2>. QED BY <1>0, <2>1, LastFrame
<1>c. ASSUME el_odd = {}, el_running
      PROVE  /\ ElCommands /\ ElWaitsFor /\ ElSetUp
             /\ Account(el_arrived, ElTaken, el_card.want, el_card.out)
             /\ el_sent = el_freed \o ElDone("down")
  BY <1>c DEF ElChannelInv, ElPhases, ElTalking, ElKept
(* A step that leaves the transferred frame alone.                         *)
<1>d. ASSUME el_card'.done = el_card.done,
             el_card.done => adapter'.dir = adapter.dir /\ adapter'.skb = adapter.skb
      PROVE  \A dir : ElDone(dir)' = ElDone(dir)
  BY <1>d DEF ElDone
<1>1. CASE UNCHANGED elVars
  <2>1. UNCHANGED <<el_odd, el_running, el_arrived, el_delivered, el_card, adapter, el_sent, el_freed>>
    BY <1>1 DEF elVars, elStack, elHistory
  <2>. QED BY <2>1 DEF ElKept, ElTaken, ElDone
<1>2. ASSUME NEW kind \in {"rxdone", "rxbad"}, ElArrive(kind) PROVE ElKept'
  <2>. DEFINE x == [cmd |-> kind, frame |-> el_left.events]
  <2>1. /\ x \in ElBlocks /\ x.cmd = kind /\ x.frame = el_left.events /\ x.frame \in Nat
        /\ el_card'.out = Append(el_card.out, x) /\ el_card'.want = el_card.want
        /\ el_card'.done = el_card.done
        /\ UNCHANGED <<adapter, el_running, el_delivered, el_sent, el_freed>>
        /\ \/ kind = "rxbad" /\ el_odd' = {"bad"}
           \/ kind = "rxdone" /\ el_odd' = el_odd /\ el_arrived' = Append(el_arrived, x.frame)
    BY <1>0, <1>2 DEF ElArrive, ElType, ElCards, ElBlocks, elStack
  <2>. HIDE DEF x
  <2>2. ElTaken' = ElTaken /\ ElDone("down")' = ElDone("down")
    BY <1>d, <2>1 DEF ElTaken
  <2>3. kind = "rxdone" => x \in Announced
    BY <2>1 DEF Announced
  <2>. SUFFICES ASSUME el_odd' = {}, el_running'
       PROVE  /\ Account(el_arrived, ElTaken, el_card.want, el_card.out)'
              /\ (el_sent = el_freed \o ElDone("down"))'
    BY DEF ElKept
  <2>4. kind = "rxdone" /\ el_odd = {} /\ el_running /\ el_arrived' = Append(el_arrived, x.frame)
    BY <2>1
  <2>5. Account(Append(el_arrived, x.frame), ElTaken, el_card.want, Append(el_card.out, x))
    BY <1>0, <1>b, <1>c, <2>1, <2>3, <2>4, AccountArrive
  <2>. QED BY <1>c, <2>1, <2>2, <2>4, <2>5
<1>3. CASE ElTransfer
  <2>. DEFINE w == el_card.want
  <2>1. /\ el_armed # "no" /\ ~ el_card.done /\ w # <<>> /\ Head(w).dir = el_armed
        /\ Head(w) \in ElTransfers /\ Head(w).frame \in Nat
        /\ el_card'.done /\ el_card'.want = Tail(w) /\ el_card'.out = el_card.out
        /\ el_sent' = IF el_armed = "down" THEN Append(el_sent, adapter.skb) ELSE el_sent
        /\ adapter'.dir = adapter.dir
        /\ adapter'.skb = IF el_armed = "up" THEN Head(w).frame ELSE adapter.skb
        /\ UNCHANGED <<el_running, el_odd, el_arrived, el_delivered, el_freed>>
    <3>1. el_armed # "no" /\ ~ el_card.done /\ w # <<>> /\ Head(w).dir = el_armed
      BY <1>3 DEF ElTransfer
    <3>2. Head(w) \in ElTransfers
      BY <1>0, <3>1
    <3>. QED BY <1>0, <1>3, <3>1, <3>2 DEF ElTransfer, ElAdapters, ElCards, ElTransfers, elStack
  <2>. SUFFICES ASSUME el_odd' = {}, el_running'
       PROVE  /\ Account(el_arrived, ElTaken, el_card.want, el_card.out)'
              /\ (el_sent = el_freed \o ElDone("down"))'
    BY DEF ElKept
  <2>2. el_odd = {} /\ el_running
    BY <2>1
  <2>3. adapter.dmaing /\ adapter.dir = el_armed
    BY <1>0, <1>c, <2>1, <2>2 DEF ElSetUp
  <2>4. ElTaken = el_delivered /\ el_sent = el_freed
    <3>1. el_sent = el_freed \o ElDone("down")
      BY <1>c, <2>2
    <3>. QED BY <1>0, <2>1, <3>1, ElDoneCases DEF ElTaken
  <2>5. Account(el_arrived, el_delivered, w, el_card.out)
    BY <1>c, <2>2, <2>4
  <2>6. CASE el_armed = "up"
    <3>1. Head(w) \in Upwards
      BY <2>1, <2>6 DEF Upwards
    <3>2. ElDone("up")' = <<Head(w).frame>> /\ ElDone("down")' = <<>>
      BY <2>1, <2>3, <2>6 DEF ElDone
    <3>3. ElTaken' = Append(el_delivered, Head(w).frame)
      BY <1>0, <2>1, <3>2, LastFrame DEF ElTaken
    <3>4. Account(el_arrived, Append(el_delivered, Head(w).frame), Tail(w), el_card.out)
      BY <1>0, <2>1, <2>5, <3>1, AccountTaken
    <3>5. el_freed' \o ElDone("down")' = el_sent'
      BY <1>0, <2>1, <2>4, <2>6, <3>2, LastFrame
    <3>. QED BY <2>1, <3>3, <3>4, <3>5
  <2>7. CASE el_armed = "down"
    <3>1. Head(w) \notin Upwards
      BY <2>1, <2>7 DEF Upwards
    <3>2. ElDone("up")' = <<>> /\ ElDone("down")' = <<adapter.skb>>
      BY <2>1, <2>3, <2>7 DEF ElDone
    <3>3. ElTaken' = el_delivered
      BY <1>0, <2>1, <3>2, LastFrame DEF ElTaken
    <3>4. Account(el_arrived, el_delivered, Tail(w), el_card.out)
      BY <1>0, <2>1, <2>5, <3>1, AccountOther
    <3>5. el_freed' \o ElDone("down")' = el_sent'
      BY <1>0, <2>1, <2>4, <2>7, <3>2, LastFrame
    <3>. QED BY <2>1, <3>3, <3>4, <3>5
  <2>. QED BY <1>0, <2>1, <2>6, <2>7
<1>4. CASE ElAired \/ ElSendRest
  <2>. DEFINE x(cmd) == [cmd |-> cmd, frame |-> 0]
              y == [dir |-> "down", frame |-> 0]
  <2>1. \A cmd \in {"txdone", "stats"} : x(cmd) \in ElBlocks \ Announced
    BY DEF ElBlocks, Announced
  <2>2. y \in ElTransfers \ Upwards
    BY DEF ElTransfers, Upwards
  <2>3. /\ el_card'.done = el_card.done
        /\ UNCHANGED <<adapter, el_running, el_odd, el_arrived, el_delivered, el_sent, el_freed>>
        /\ \/ el_card'.out = el_card.out /\ el_card'.want = Append(el_card.want, y)
           \/ el_card'.out = Append(el_card.out, x("txdone")) /\ el_card'.want = el_card.want
           \/ el_card'.out = Append(el_card.out, x("stats")) /\ el_card'.want = el_card.want
    BY <1>0, <1>4 DEF ElAired, ElSendRest, ElCards, elStack, elHistory
  <2>. HIDE DEF x, y
  <2>4. ElTaken' = ElTaken /\ ElDone("down")' = ElDone("down")
    BY <1>d, <2>3 DEF ElTaken
  <2>. SUFFICES ASSUME el_odd' = {}, el_running'
       PROVE  /\ Account(el_arrived, ElTaken, el_card.want, el_card.out)'
              /\ (el_sent = el_freed \o ElDone("down"))'
    BY DEF ElKept
  <2>5. Account(el_arrived, ElTaken, el_card.want, el_card.out) /\ el_sent = el_freed \o ElDone("down")
    BY <1>c, <2>3
  <2>6. /\ Account(el_arrived, ElTaken, Append(el_card.want, y), el_card.out)
        /\ Account(el_arrived, ElTaken, el_card.want, Append(el_card.out, x("txdone")))
        /\ Account(el_arrived, ElTaken, el_card.want, Append(el_card.out, x("stats")))
    BY <1>0, <1>b, <2>1, <2>2, <2>5, AccountOther
  <2>. QED BY <2>3, <2>4, <2>5, <2>6
<1>5. CASE ElInterrupt \/ ElTurn \/ ElTimeout \/ ElStatsEnd \/ ElStats \/ ElClose \/ ElDown
  <2>1. /\ UNCHANGED <<adapter, el_card, el_odd, el_arrived, el_delivered, el_sent, el_freed>>
        /\ el_running' => el_running
    BY <1>5 DEF ElInterrupt, ElTurn, ElTimeout, ElStatsEnd, ElStats, ElClose, ElDown, elStack, elHistory
  <2>. QED BY <2>1 DEF ElKept, ElTaken, ElDone
<1>6. CASE ElDmaDone
  <2>1. /\ el_card.done /\ ~ el_card'.done /\ el_card'.want = el_card.want /\ el_card'.out = el_card.out
        /\ el_odd' = {} => el_odd = {}
    <3>1. el_odd' = el_odd \/ el_odd' = {"squeeze"}
      BY <1>6, ElDmaDoneEffect
    <3>. QED BY <1>6, <3>1, ElDmaDoneEffect
  <2>2. /\ UNCHANGED <<el_running, el_arrived, el_sent>>
        /\ adapter.dir = "down" => el_freed' = Append(el_freed, adapter.skb) /\ el_delivered' = el_delivered
        /\ adapter.dir # "down" => el_delivered' = Append(el_delivered, adapter.skb) /\ el_freed' = el_freed
    BY <1>6 DEF ElDmaDone, elStack
  <2>3. ElTaken' = el_delivered' /\ el_freed' \o ElDone("down")' = el_freed'
    <3>1. ElDone("up")' = <<>> /\ ElDone("down")' = <<>>
      BY <2>1 DEF ElDone
    <3>. QED BY <1>a, <3>1 DEF ElTaken
  <2>4. adapter.dir \in {"up", "down"}
    BY <1>0 DEF ElAdapters
  <2>5. ElTaken = el_delivered' /\ el_freed \o ElDone("down") = el_freed'
    <3>1. CASE adapter.dir = "up"
      <4>1. el_delivered \o ElDone("up") = Append(el_delivered, adapter.skb)
        BY <1>0, <2>1, <3>1, ElDoneCases
      <4>2. el_freed \o ElDone("down") = el_freed
        BY <1>0, <3>1, ElDoneCases
      <4>. QED BY <2>2, <3>1, <4>1, <4>2 DEF ElTaken
    <3>2. CASE adapter.dir = "down"
      <4>1. el_freed \o ElDone("down") = Append(el_freed, adapter.skb)
        BY <1>0, <2>1, <3>2, ElDoneCases
      <4>2. el_delivered \o ElDone("up") = el_delivered
        BY <1>0, <3>2, ElDoneCases
      <4>. QED BY <2>2, <3>2, <4>1, <4>2 DEF ElTaken
    <3>. QED BY <2>4, <3>1, <3>2
  <2>. QED BY <1>c, <2>1, <2>2, <2>3, <2>5 DEF ElKept
<1>7. CASE ElDmaCheck \/ ElSendFirst
  <2>1. PICK c \in ElChecked :
          /\ adapter' = [c.a EXCEPT !.sem = tx_pcb] \/ adapter' = c.a
          /\ el_odd' = c.odd
    BY <1>7 DEF ElDmaCheck, ElSendFirst
  <2>2. UNCHANGED <<el_running, el_card, elHistory>>
    BY <1>7 DEF ElDmaCheck, ElSendFirst, elStack
  <2>3. (c.a = adapter /\ c.odd = el_odd) \/ c.odd = {"timeout"}
    BY ElCheckedType
  <2>4. CASE c.a = adapter /\ c.odd = el_odd
    <3>1. adapter'.skb = adapter.skb /\ adapter'.dir = adapter.dir
      BY <1>0, <2>1, <2>4 DEF ElAdapters
    <3>. QED BY <2>1, <2>2, <2>4, <3>1 DEF ElKept, ElTaken, ElDone, elHistory
  <2>. QED BY <2>1, <2>3, <2>4 DEF ElKept
<1>8. CASE ElRxPcb
  <2>. DEFINE pcb == Head(el_card.out)
              x == [dir |-> "up", frame |-> pcb.frame]
  <2>1. UNCHANGED <<el_running, el_arrived, el_delivered, el_sent, el_freed>>
    BY <1>8 DEF ElRxPcb, elStack, elHistory
  <2>2. CASE UNCHANGED <<adapter, el_card, el_armed, el_odd>>
    BY <2>1, <2>2 DEF ElKept, ElTaken, ElDone
  <2>3. CASE ~ UNCHANGED <<adapter, el_card, el_armed, el_odd>>
    <3>. SUFFICES ASSUME el_odd' = {}, el_running'
         PROVE  /\ Account(el_arrived, ElTaken, el_card.want, el_card.out)'
                /\ (el_sent = el_freed \o ElDone("down"))'
      BY DEF ElKept
    <3>1. /\ el_odd = {} /\ el_running /\ el_card.out # <<>> /\ el_card'.out = Tail(el_card.out)
          /\ el_card'.done = el_card.done
          /\ \/ pcb.cmd = "rxdone" /\ el_card'.want = Append(el_card.want, x)
             \/ pcb.cmd = "rxbad"
      BY <1>8, <2>1, <2>3, ElRxPcbEffect
    <3>2. ElSetUp /\ ElCommands /\ Account(el_arrived, ElTaken, el_card.want, el_card.out)
          /\ el_sent = el_freed \o ElDone("down")
      BY <1>c, <3>1
    <3>3. pcb \in ElBlocks /\ pcb = el_card.out[1] /\ 1 \in 1 .. Len(el_card.out)
      BY <1>0, <3>1
    <3>4. pcb.cmd = "rxdone"
      BY <3>1, <3>2, <3>3 DEF ElCommands
    <3>5. pcb \in Announced /\ x \in Upwards /\ x.frame = pcb.frame
      BY <3>3, <3>4 DEF Announced, Upwards, ElBlocks, ElTransfers
    <3>6. el_card.done => adapter'.dir = adapter.dir /\ adapter'.skb = adapter.skb
      <4>1. el_card.done => adapter.busy
        BY <3>2 DEF ElSetUp
      <4>. QED BY <1>8, <2>3, <3>1, <3>4, <4>1, ElRxPcbEffect
    <3>7. ElTaken' = ElTaken /\ ElDone("down")' = ElDone("down")
      BY <1>d, <2>1, <3>1, <3>6 DEF ElTaken
    <3>. HIDE DEF x, pcb
    <3>8. Account(el_arrived, ElTaken, Append(el_card.want, x), Tail(el_card.out))
      BY <1>0, <1>b, <3>1, <3>2, <3>5, AccountAnnounced DEF pcb
    <3>9. el_card'.want = Append(el_card.want, x)
      BY <3>1, <3>4
    <3>. QED BY <2>1, <3>1, <3>2, <3>7, <3>8, <3>9
  <2>. QED BY <2>2, <2>3
<1>9. CASE ElOtherPcb
  <2>1. /\ el_card.out # <<>> /\ el_card'.out = Tail(el_card.out) /\ el_card'.want = el_card.want
        /\ el_card'.done = el_card.done /\ Head(el_card.out).cmd # "rxdone"
        /\ UNCHANGED <<adapter, el_running, el_odd, el_arrived, el_delivered, el_sent, el_freed>>
    BY <1>0, <1>9 DEF ElOtherPcb, ElCards, elHistory
  <2>2. Head(el_card.out) \notin Announced
    BY <2>1 DEF Announced
  <2>3. ElTaken' = ElTaken /\ ElDone("down")' = ElDone("down")
    BY <1>d, <2>1 DEF ElTaken
  <2>4. ASSUME Account(el_arrived, ElTaken, el_card.want, el_card.out)
        PROVE  Account(el_arrived, ElTaken, el_card.want, Tail(el_card.out))
    BY <1>0, <1>b, <2>1, <2>2, <2>4, AccountOther
  <2>. QED BY <1>c, <2>1, <2>3, <2>4 DEF ElKept
<1>10. CASE ElIrqEnd
  <2>1. /\ adapter'.skb = adapter.skb /\ adapter'.dir = adapter.dir
        /\ el_card'.want = el_card.want /\ el_card'.out = el_card.out /\ el_card'.done = el_card.done
        /\ UNCHANGED <<el_running, el_odd, el_arrived, el_delivered, el_sent, el_freed>>
    BY <1>0, <1>10 DEF ElIrqEnd, ElAdapters, ElCards, elStack, elHistory
  <2>. QED BY <2>1 DEF ElKept, ElTaken, ElDone
<1>11. CASE ElXmit
  <2>1. /\ UNCHANGED <<el_running, el_arrived, el_delivered, el_sent, el_freed>>
        /\ el_card'.out = el_card.out /\ el_card'.done = el_card.done
    <3>1. UNCHANGED elHistory
      BY <1>11 DEF ElXmit
    <3>. QED BY <1>11, <3>1, ElXmitEffect DEF elHistory
  <2>2. CASE "timeout" \in el_odd'
    BY <2>2 DEF ElKept
  <2>3. CASE "timeout" \notin el_odd'
    <3>. DEFINE y == [dir |-> "down", frame |-> el_left.tx]
    <3>1. /\ el_odd \subseteq el_odd'
          /\ \/ UNCHANGED el_card /\ adapter'.dir = adapter.dir /\ adapter'.skb = adapter.skb
             \/ ~ adapter.busy /\ el_card'.want = Append(el_card.want, y)
      BY <1>11, <2>3, ElXmitEffect
    <3>2. y \in ElTransfers \ Upwards
      BY DEF ElTransfers, Upwards, ElType
    <3>. HIDE DEF y
    <3>. SUFFICES ASSUME el_odd' = {}, el_running'
         PROVE  /\ Account(el_arrived, ElTaken, el_card.want, el_card.out)'
                /\ (el_sent = el_freed \o ElDone("down"))'
      BY DEF ElKept
    <3>3. /\ el_odd = {} /\ el_running /\ ElSetUp
          /\ Account(el_arrived, ElTaken, el_card.want, el_card.out) /\ el_sent = el_freed \o ElDone("down")
      BY <1>c, <2>1, <3>1
    <3>4. el_card.done => adapter'.dir = adapter.dir /\ adapter'.skb = adapter.skb
      BY <1>0, <3>1, <3>3 DEF ElSetUp
    <3>5. ElTaken' = ElTaken /\ ElDone("down")' = ElDone("down")
      BY <1>d, <2>1, <3>4 DEF ElTaken
    <3>6. Account(el_arrived, ElTaken, Append(el_card.want, y), el_card.out)
      BY <1>0, <1>b, <3>2, <3>3, AccountOther
    <3>. QED BY <2>1, <3>1, <3>3, <3>5, <3>6
  <2>. QED BY <2>2, <2>3
<1>12. CASE ElSendEnd
  <2>1. /\ adapter'.skb = adapter.skb /\ adapter'.dir = adapter.dir
        /\ UNCHANGED <<el_running, el_card, el_odd, el_arrived, el_delivered, el_sent, el_freed>>
    BY <1>0, <1>12 DEF ElSendEnd, ElAdapters, elStack, elHistory
  <2>. QED BY <2>1 DEF ElKept, ElTaken, ElDone
<1>13. CASE ElOpen
  <2>1. /\ el_arrived' = <<>> /\ el_delivered' = <<>> /\ el_sent' = <<>> /\ el_freed' = <<>>
        /\ el_card'.want = <<>> /\ el_card'.out = <<>> /\ ~ el_card'.done
    BY <1>13 DEF ElOpen, ElCardReset
  <2>. QED BY <2>1, ElKeptEmpty DEF ElKept, ElTaken, ElDone
<1>. QED BY <1>1, <1>2, <1>3, <1>4, <1>5, <1>6, <1>7, <1>8, <1>9, <1>10, <1>11, <1>12, <1>13 DEF ElNext

(* Every frame the card took up is passed on, once and in order, and every *)
(* frame that was sent is given back once: through backlogs, refusals and  *)
(* whoever else talks to the card, while nothing is damaged, times out or  *)
(* runs out of memory and the device is up.                                *)
THEOREM ElFramesKeptAlways == ElSpec => []ElFramesKept
<1>1. ElInit => ElKept
  <2>. SUFFICES ASSUME ElInit PROVE ElKept
    OBVIOUS
  <2>1. /\ el_arrived = <<>> /\ el_delivered = <<>> /\ el_sent = <<>> /\ el_freed = <<>>
        /\ el_card.want = <<>> /\ el_card.out = <<>> /\ ~ el_card.done
    BY DEF ElInit, ElCardReset
  <2>. QED BY <2>1, ElKeptEmpty DEF ElKept, ElTaken, ElDone
<1>2. ElType /\ ElType' /\ ElChannelInv /\ ElKept /\ [ElNext]_elVars => ElKept'
  BY ElKeptNext
<1>3. ElType /\ ElKept => ElFramesKept
  <2>. SUFFICES ASSUME ElType, ElKept, el_odd = {}, el_running PROVE ElFramesKept
    BY DEF ElFramesKept
  <2>1. el_card.out \in Seq(ElBlocks) /\ el_card.want \in Seq(ElTransfers)
    BY DEF ElType, ElCards
  <2>2. ElComing = Places(el_card.out, Announced) /\ ElWanted = Places(el_card.want, Upwards)
    <3>1. /\ \A i \in DOMAIN el_card.out : el_card.out[i] \in ElBlocks
          /\ \A i \in DOMAIN el_card.want : el_card.want[i] \in ElTransfers
      BY <2>1
    <3>. QED BY <3>1 DEF ElComing, ElWanted, Places, Announced, Upwards
  <2>3. Account(el_arrived, ElTaken, el_card.want, el_card.out) /\ el_sent = el_freed \o ElDone("down")
    BY DEF ElKept
  <2>. QED BY <2>2, <2>3 DEF ElFramesKept, ElFollow, Account, Follow, Rank, ElTaken
<1>. QED BY <1>1, <1>2, <1>3, ElInvariant, PTL DEF ElSpec
-----------------------------------------------------------------------------
(* The CS89x0: places and sizes in the ring are multiples of CsAlign.      *)
Multiples == {n * CsAlign : n \in Nat}

(* They are closed under what the driver does with them, and the next one  *)
(* is CsAlign away.                                                        *)
LEMMA MultiplesType ==
  ASSUME NEW x \in Multiples, NEW y \in Multiples
  PROVE  /\ x \in Nat /\ y \in Nat /\ x + y \in Multiples /\ x + CsAlign \in Multiples
         /\ y <= x => x - y \in Multiples
         /\ x < y => x + CsAlign <= y
<1>0. CsAlign \in Nat /\ CsAlign >= 1
  BY Cs89x0Assumption
<1>1. PICK a \in Nat : x = a * CsAlign
  BY DEF Multiples
<1>2. PICK b \in Nat : y = b * CsAlign
  BY DEF Multiples
<1>3. x \in Nat /\ y \in Nat
  BY <1>0, <1>1, <1>2
<1>4. x + y = (a + b) * CsAlign /\ x + CsAlign = (a + 1) * CsAlign /\ a + b \in Nat /\ a + 1 \in Nat
  BY <1>0, <1>1, <1>2
<1>5. y <= x => b <= a
  <2>1. a < b => (a + 1) * CsAlign <= b * CsAlign
    BY <1>0
  <2>. QED BY <1>0, <1>1, <1>2, <2>1
<1>6. x < y => a + 1 <= b
  <2>1. b <= a => b * CsAlign <= a * CsAlign
    BY <1>0
  <2>. QED BY <1>0, <1>1, <1>2, <2>1
<1>7. y <= x => x - y = (a - b) * CsAlign /\ a - b \in Nat
  BY <1>0, <1>1, <1>2, <1>5
<1>8. x < y => x + CsAlign <= y
  <2>1. a + 1 <= b => (a + 1) * CsAlign <= b * CsAlign
    BY <1>0
  <2>. QED BY <1>1, <1>2, <1>4, <1>6, <2>1
<1>. QED BY <1>3, <1>4, <1>7, <1>8 DEF Multiples

(* The ring, and what a frame takes of it: its bytes and its header fit.   *)
LEMMA SizeType ==
  /\ CsAlign \in Multiples /\ CsAlign \in Nat /\ CsAlign >= 1
  /\ CsRing \in Multiples /\ CsRing \in Nat /\ 2 * CsAlign <= CsRing
  /\ \A len \in CsLens : CsPadded(len) \in Multiples /\ len \in Nat /\ len >= 1 /\ len <= CsPadded(len)
<1>0. CsAlign \in Nat /\ CsAlign >= 1 /\ CsAlign = 1 * CsAlign
  BY Cs89x0Assumption
<1>1. PICK n \in 2 .. CsRing : CsRing = n * CsAlign
  BY Cs89x0Assumption
<1>2. CsRing \in Nat /\ 2 * CsAlign <= CsRing /\ n \in Nat
  <2>1. CsRing \in Int
    BY <1>0, <1>1
  <2>2. n \in Nat /\ n >= 2
    BY <1>1, <2>1
  <2>3. 2 * CsAlign <= n * CsAlign
    BY <1>0, <2>2
  <2>. QED BY <1>0, <1>1, <2>1, <2>2, <2>3
<1>3. ASSUME NEW len \in CsLens
      PROVE  CsPadded(len) \in Multiples /\ len \in Nat /\ len >= 1 /\ len <= CsPadded(len)
  <2>1. len \in Nat /\ len >= 1
    BY Cs89x0Assumption
  <2>. DEFINE x == len + CsAlign - 1  q == x \div CsAlign
  <2>2. x \in Nat /\ x >= CsAlign
    BY <1>0, <2>1
  <2>. HIDE DEF x
  <2>3. q \in Int /\ x % CsAlign \in 0 .. CsAlign - 1 /\ x = CsAlign * q + (x % CsAlign)
    BY <1>0, <2>2
  <2>. HIDE DEF q
  <2>4. q >= 0
    <3>1. q < 0 => CsAlign * q <= 0 - CsAlign
      BY <1>0, <2>3
    <3>. QED BY <1>0, <2>2, <2>3, <3>1
  <2>5. q \in Nat /\ q * CsAlign \in Nat /\ q * CsAlign = CsAlign * q
    BY <1>0, <2>3, <2>4
  <2>6. len <= q * CsAlign
    <3>1. CsAlign * q > x - CsAlign
      BY <1>0, <2>2, <2>3, <2>5
    <3>. QED BY <1>0, <2>1, <2>5, <3>1 DEF x
  <2>. QED BY <2>1, <2>5, <2>6 DEF Multiples, CsPadded, q, x
<1>. QED BY <1>0, <1>1, <1>2, <1>3 DEF Multiples

(* The place x bytes from the start of the ring, less than twice its size. *)
Wrap(x) == IF x >= CsRing THEN x - CsRing ELSE x

(* That is what the card's arithmetic computes.                            *)
LEMMA WrapMod ==
  ASSUME NEW x \in Nat, x < 2 * CsRing
  PROVE  x % CsRing = Wrap(x) /\ Wrap(x) \in 0 .. CsRing - 1
<1>0. CsRing \in Nat /\ CsRing >= 1
  BY SizeType
<1>. DEFINE q == x \div CsRing  r == x % CsRing
<1>1. q \in Int /\ r \in 0 .. CsRing - 1 /\ x = CsRing * q + r
  BY <1>0
<1>. HIDE DEF q, r
<1>2. q >= 0 /\ q < 2
  <2>1. q < 0 => CsRing * q <= 0 - CsRing
    BY <1>0, <1>1
  <2>2. q >= 2 => CsRing * q >= 2 * CsRing
    BY <1>0, <1>1
  <2>. QED BY <1>0, <1>1, <2>1, <2>2
<1>3. q = 0 \/ q = 1
  BY <1>1, <1>2
<1>4. r = Wrap(x)
  BY <1>0, <1>1, <1>3 DEF Wrap
<1>. QED BY <1>1, <1>4 DEF r

(* The frames due lie in the ring one behind the other, from the host's    *)
(* place rx to the card's place d: the i-th begins off[i] bytes from rx.   *)
CsFrames == [no : Nat, len : CsLens]
Offsets(due) == [1 .. Len(due) + 1 -> Nat]
Lined(due, off) ==
  /\ off[1] = 0
  /\ \A i \in 1 .. Len(due) : off[i + 1] = off[i] + CsSize(due[i])
  /\ \A i \in 1 .. Len(due) : \A k \in i + 1 .. Len(due) + 1 : off[i] + CsSize(due[i]) <= off[k]
Placed(ring, rx, d, due, off) ==
  /\ Lined(due, off)
  /\ off[Len(due) + 1] <= CsRing /\ d = Wrap(rx + off[Len(due) + 1])
  /\ \A i \in 1 .. Len(due) : \A j \in 0 .. CsSize(due[i]) - 1 :
       ring[Wrap(rx + off[i] + j)] = CsCell(due[i], j)
Laid(ring, rx, d, due) == \E off \in Offsets(due) : Placed(ring, rx, d, due, off)

(* How many bytes a frame takes.                                           *)
LEMMA FrameSize ==
  ASSUME NEW f \in CsFrames
  PROVE  /\ CsSize(f) = CsAlign + CsPadded(f.len) /\ CsSize(f) \in Multiples /\ CsSize(f) \in Nat
         /\ f.len \in Nat /\ f.len >= 1 /\ f.len <= CsPadded(f.len) /\ CsPadded(f.len) \in Nat
         /\ CsSize(f) >= CsAlign /\ CsSize(f) >= 1
<1>1. f.len \in CsLens
  BY DEF CsFrames
<1>2. /\ CsPadded(f.len) \in Multiples /\ f.len \in Nat /\ f.len >= 1 /\ f.len <= CsPadded(f.len)
      /\ CsAlign \in Multiples /\ CsAlign \in Nat /\ CsAlign >= 1
  BY <1>1, SizeType
<1>3. CsPadded(f.len) \in Nat /\ CsAlign + CsPadded(f.len) \in Multiples
  BY <1>2, MultiplesType
<1>. QED BY <1>2, <1>3 DEF CsSize

(* No frames, whichever place it is.                                       *)
LEMMA LaidEmpty ==
  ASSUME NEW ring, NEW rx \in 0 .. CsRing - 1
  PROVE  Laid(ring, rx, rx, <<>>)
<1>. DEFINE e == <<>> off == [i \in 1 .. Len(e) + 1 |-> 0]
<1>1. Len(e) = 0
  OBVIOUS
<1>. HIDE DEF e
<1>2. off \in Offsets(e) /\ off[1] = 0 /\ off[Len(e) + 1] = 0
  BY <1>1 DEF Offsets
<1>3. rx \in Nat /\ Wrap(rx + 0) = rx /\ 0 <= CsRing
  BY SizeType DEF Wrap
<1>. HIDE DEF off
<1>4. Placed(ring, rx, rx, e, off)
  BY <1>1, <1>2, <1>3 DEF Placed, Lined
<1>5. Laid(ring, rx, rx, e)
  BY <1>2, <1>4 DEF Laid
<1>. QED BY <1>5 DEF e

(* The oldest frame lies at the host's place, whole.                       *)
LEMMA LaidHead ==
  ASSUME NEW ring, NEW rx \in 0 .. CsRing - 1, NEW d, NEW due \in Seq(CsFrames), due # <<>>,
         Laid(ring, rx, d, due)
  PROVE  /\ CsSize(due[1]) <= CsRing /\ Head(due) = due[1] /\ due[1] \in CsFrames
         /\ \A j \in 0 .. CsSize(due[1]) - 1 : ring[Wrap(rx + j)] = CsCell(due[1], j)
<1>1. PICK off \in Offsets(due) : Placed(ring, rx, d, due, off)
  BY DEF Laid
<1>2. Len(due) \in Nat /\ Len(due) >= 1 /\ Head(due) = due[1] /\ due[1] \in CsFrames
  OBVIOUS
<1>3. off[1] = 0 /\ off[1] + CsSize(due[1]) <= off[Len(due) + 1] /\ off[Len(due) + 1] <= CsRing
  BY <1>1, <1>2 DEF Placed, Lined
<1>4. off[Len(due) + 1] \in Nat /\ CsSize(due[1]) \in Nat /\ CsRing \in Nat
  <2>1. Len(due) + 1 \in 1 .. Len(due) + 1
    BY <1>2
  <2>2. off[Len(due) + 1] \in Nat
    BY <2>1 DEF Offsets
  <2>. QED BY <1>2, <2>2, FrameSize, SizeType
<1>5. CsSize(due[1]) <= CsRing
  BY <1>3, <1>4
<1>6. ASSUME NEW j \in 0 .. CsSize(due[1]) - 1 PROVE ring[Wrap(rx + j)] = CsCell(due[1], j)
  <2>1. ring[Wrap(rx + off[1] + j)] = CsCell(due[1], j)
    BY <1>1, <1>2, <1>6 DEF Placed
  <2>2. rx + off[1] + j = rx + j
    BY <1>3, <1>4
  <2>. QED BY <2>1, <2>2
<1>. QED BY <1>2, <1>5, <1>6

(* The same place, counted from one further on.                            *)
LEMMA WrapAgain ==
  ASSUME NEW rx \in 0 .. CsRing - 1, NEW n \in Nat, NEW u \in Nat, n <= u, u <= CsRing
  PROVE  Wrap(Wrap(rx + n) + (u - n)) = Wrap(rx + u)
BY SizeType DEF Wrap

(* When it is taken, the others lie from the next place.                   *)
LEMMA LaidTail ==
  ASSUME NEW ring, NEW rx \in 0 .. CsRing - 1, NEW d, NEW due \in Seq(CsFrames), due # <<>>,
         Laid(ring, rx, d, due)
  PROVE  /\ Wrap(rx + CsSize(due[1])) \in 0 .. CsRing - 1
         /\ Laid(ring, Wrap(rx + CsSize(due[1])), d, Tail(due))
<1>1. PICK off \in Offsets(due) : Placed(ring, rx, d, due, off)
  BY DEF Laid
<1>. DEFINE L == Len(due) m == Len(Tail(due)) n == CsSize(due[1]) rx1 == Wrap(rx + n)
            off1 == [i \in 1 .. m + 1 |-> off[i + 1] - n]
<1>2. /\ L \in Nat /\ L >= 1 /\ m \in Nat /\ m + 1 = L /\ due[1] \in CsFrames
      /\ \A i \in 1 .. m : Tail(due)[i] = due[i + 1] /\ i + 1 \in 1 .. L
      /\ \A i \in 1 .. L : due[i] \in CsFrames
  OBVIOUS
<1>3. n \in Nat /\ n >= 1 /\ n <= CsRing /\ CsRing \in Nat
  BY <1>2, FrameSize, SizeType, LaidHead
<1>. HIDE DEF n
<1>4. /\ \A i \in 1 .. L + 1 : off[i] \in Nat
      /\ off[1] = 0 /\ off[2] = n /\ \A k \in 2 .. L + 1 : n <= off[k]
      /\ off[L + 1] <= CsRing /\ d = Wrap(rx + off[L + 1])
  <2>1. \A i \in 1 .. L + 1 : off[i] \in Nat
    BY DEF Offsets
  <2>2. off[1] = 0 /\ off[L + 1] <= CsRing /\ d = Wrap(rx + off[L + 1])
    BY <1>1 DEF Placed, Lined
  <2>3. 1 \in 1 .. L
    BY <1>2
  <2>4. off[1 + 1] = off[1] + n /\ \A k \in 1 + 1 .. L + 1 : off[1] + n <= off[k]
    BY <1>1, <2>3 DEF Placed, Lined, n
  <2>. QED BY <1>3, <2>1, <2>2, <2>4
<1>5. rx1 \in 0 .. CsRing - 1
  BY <1>3 DEF Wrap
<1>6. \A i \in 1 .. m + 1 : off1[i] = off[i + 1] - n /\ off[i + 1] \in Nat /\ off1[i] \in Nat
  BY <1>2, <1>3, <1>4
<1>7. off1 \in Offsets(Tail(due))
  BY <1>6 DEF Offsets
<1>. HIDE DEF off1, m
<1>8. Lined(Tail(due), off1)
  <2>1. off1[1] = 0
    BY <1>2, <1>4, <1>6, <1>3
  <2>2. ASSUME NEW i \in 1 .. m
        PROVE  /\ off1[i + 1] = off1[i] + CsSize(Tail(due)[i])
               /\ \A k \in i + 1 .. m + 1 : off1[i] + CsSize(Tail(due)[i]) <= off1[k]
    <3>1. i + 1 \in 1 .. L /\ Tail(due)[i] = due[i + 1] /\ due[i + 1] \in CsFrames
          /\ i \in 1 .. m + 1 /\ i + 1 \in 1 .. m + 1
      BY <1>2
    <3>2. off[(i + 1) + 1] = off[i + 1] + CsSize(due[i + 1]) /\ CsSize(due[i + 1]) \in Nat
      BY <1>1, <3>1, FrameSize DEF Placed, Lined
    <3>3. ASSUME NEW k \in i + 1 .. m + 1 PROVE off1[i] + CsSize(Tail(due)[i]) <= off1[k]
      <4>1. k + 1 \in (i + 1) + 1 .. L + 1 /\ k \in 1 .. m + 1
        BY <1>2, <3>3
      <4>2. off[i + 1] + CsSize(due[i + 1]) <= off[k + 1]
        BY <1>1, <3>1, <4>1 DEF Placed, Lined
      <4>. QED BY <1>3, <1>6, <3>1, <3>2, <4>1, <4>2
    <3>. QED BY <1>3, <1>6, <3>1, <3>2, <3>3
  <2>. QED BY <2>1, <2>2 DEF Lined, m
<1>9. off1[m + 1] <= CsRing /\ d = Wrap(rx1 + off1[m + 1])
  <2>1. off1[m + 1] = off[L + 1] - n /\ off[L + 1] \in Nat /\ n <= off[L + 1]
    BY <1>2, <1>4, <1>6
  <2>2. Wrap(Wrap(rx + n) + (off[L + 1] - n)) = Wrap(rx + off[L + 1])
    BY <1>3, <1>4, <2>1, WrapAgain
  <2>. QED BY <1>3, <1>4, <2>1, <2>2
<1>10. ASSUME NEW i \in 1 .. m, NEW j \in 0 .. CsSize(Tail(due)[i]) - 1
       PROVE  ring[Wrap(rx1 + off1[i] + j)] = CsCell(Tail(due)[i], j)
  <2>1. i + 1 \in 1 .. L /\ Tail(due)[i] = due[i + 1] /\ due[i + 1] \in CsFrames /\ i \in 1 .. m + 1
    BY <1>2
  <2>2. CsSize(due[i + 1]) \in Nat /\ j \in 0 .. CsSize(due[i + 1]) - 1 /\ j \in Nat /\ j < CsSize(due[i + 1])
    BY <1>10, <2>1, FrameSize
  <2>3. ring[Wrap(rx + off[i + 1] + j)] = CsCell(due[i + 1], j)
    BY <1>1, <2>1, <2>2 DEF Placed
  <2>4. off[i + 1] + CsSize(due[i + 1]) <= off[L + 1]
    <3>1. L + 1 \in (i + 1) + 1 .. L + 1
      BY <1>2, <2>1
    <3>. QED BY <1>1, <2>1, <3>1 DEF Placed, Lined
  <2>5. off1[i] = off[i + 1] - n /\ off[i + 1] \in Nat /\ n <= off[i + 1] /\ off[L + 1] \in Nat
    BY <1>2, <1>4, <1>6, <2>1
  <2>6. Wrap(rx1 + off1[i] + j) = Wrap(rx + off[i + 1] + j)
    <3>. DEFINE u == off[i + 1] + j
    <3>1. u \in Nat /\ n <= u /\ u <= CsRing
      <4>. DEFINE a == off[i + 1] b == off[L + 1] z == CsSize(due[i + 1])
      <4>1. /\ a \in Nat /\ b \in Nat /\ z \in Nat /\ j \in Nat /\ n \in Nat /\ CsRing \in Nat
            /\ n <= a /\ j < z /\ a + z <= b /\ b <= CsRing
        BY <1>3, <1>4, <2>2, <2>4, <2>5
      <4>. HIDE DEF a, b, z
      <4>2. a + j \in Nat /\ n <= a + j /\ a + j <= CsRing
        BY <4>1
      <4>. QED BY <4>2 DEF a
    <3>2. Wrap(Wrap(rx + n) + (u - n)) = Wrap(rx + u)
      <4>. HIDE DEF u
      <4>. QED BY <1>3, <3>1, WrapAgain
    <3>3. rx1 + off1[i] + j = Wrap(rx + n) + (u - n) /\ rx + off[i + 1] + j = rx + u
      <4>1. rx1 \in Nat
        BY <1>5
      <4>. QED BY <1>3, <2>2, <2>5, <4>1
    <3>. QED BY <3>2, <3>3
  <2>. QED BY <2>1, <2>3, <2>6
<1>11. Placed(ring, rx1, d, Tail(due), off1)
  BY <1>8, <1>9, <1>10 DEF Placed, m
<1>. QED BY <1>5, <1>7, <1>11 DEF Laid, n

(* The card's arithmetic tells how many bytes of the ring are taken.       *)
LEMMA LaidOccupied ==
  ASSUME NEW ring, NEW rx \in 0 .. CsRing - 1, NEW d, NEW due \in Seq(CsFrames),
         NEW off \in Offsets(due), Placed(ring, rx, d, due, off)
  PROVE  /\ off[Len(due) + 1] = IF due = <<>> THEN 0 ELSE 1 + ((d - rx - 1 + CsRing) % CsRing)
         /\ off[Len(due) + 1] \in 0 .. CsRing /\ d \in 0 .. CsRing - 1
<1>. DEFINE T == off[Len(due) + 1]
<1>1. CsRing \in Nat /\ CsRing >= 1 /\ Len(due) \in Nat /\ T \in Nat /\ T <= CsRing /\ d = Wrap(rx + T)
  BY SizeType DEF Offsets, Placed
<1>2. CASE due = <<>>
  <2>1. T = 0
    <3>1. Len(due) = 0
      BY <1>2
    <3>. QED BY <3>1 DEF Placed, Lined
  <2>. QED BY <1>1, <1>2, <2>1 DEF Wrap
<1>3. CASE due # <<>>
  <2>1. T >= 1
    <3>1. Len(due) >= 1 /\ due[1] \in CsFrames
      BY <1>3
    <3>2. off[1] = 0 /\ off[1] + CsSize(due[1]) <= T
      BY <1>1, <3>1 DEF Placed, Lined
    <3>. QED BY <1>1, <3>1, <3>2, FrameSize
  <2>. DEFINE x == d - rx - 1 + CsRing
  <2>2. x \in Nat /\ x < 2 * CsRing /\ Wrap(x) = T - 1
    <3>. HIDE DEF T
    <3>. QED BY <1>1, <2>1 DEF Wrap
  <2>. HIDE DEF x
  <2>3. x % CsRing = T - 1
    BY <2>2, WrapMod
  <2>4. T = 1 + (x % CsRing)
    <3>. HIDE DEF T
    <3>. QED BY <1>1, <2>1, <2>3
  <2>5. d \in 0 .. CsRing - 1
    <3>. HIDE DEF T
    <3>. QED BY <1>1 DEF Wrap
  <2>. QED BY <1>1, <1>3, <2>4, <2>5 DEF x
<1>. QED BY <1>2, <1>3

(* A frame that fits is laid behind the others and overwrites none.        *)
LEMMA LaidArrive ==
  ASSUME NEW ring, NEW rx \in 0 .. CsRing - 1, NEW d, NEW due \in Seq(CsFrames), NEW f \in CsFrames,
         Laid(ring, rx, d, due),
         (IF due = <<>> THEN 0 ELSE 1 + ((d - rx - 1 + CsRing) % CsRing)) + CsSize(f) <= CsRing,
         NEW ring1,
         ring1 = [a \in 0 .. CsRing - 1 |->
                    IF (a - d + CsRing) % CsRing < CsSize(f) THEN CsCell(f, (a - d + CsRing) % CsRing)
                    ELSE ring[a]]
  PROVE  Laid(ring1, rx, (d + CsSize(f)) % CsRing, Append(due, f))
<1>1. PICK off \in Offsets(due) : Placed(ring, rx, d, due, off)
  BY DEF Laid
<1>. DEFINE L == Len(due) T == off[L + 1] n == CsSize(f) due1 == Append(due, f)
            off1 == [i \in 1 .. L + 2 |-> IF i = L + 2 THEN T + n ELSE off[i]]
<1>2. /\ L \in Nat /\ Len(due1) = L + 1 /\ due1[L + 1] = f
      /\ \A i \in 1 .. L : due1[i] = due[i] /\ due[i] \in CsFrames
  OBVIOUS
<1>3. CsRing \in Nat /\ CsRing >= 1 /\ n \in Nat /\ n >= 1
  BY SizeType, FrameSize
<1>4. T \in 0 .. CsRing /\ d \in 0 .. CsRing - 1 /\ T + n <= CsRing /\ d = Wrap(rx + T)
  <2>1. /\ T = IF due = <<>> THEN 0 ELSE 1 + ((d - rx - 1 + CsRing) % CsRing)
        /\ T \in 0 .. CsRing /\ d \in 0 .. CsRing - 1
    BY <1>1, LaidOccupied
  <2>2. d = Wrap(rx + T)
    BY <1>1 DEF Placed
  <2>. HIDE DEF T, n
  <2>3. T + CsSize(f) <= CsRing
    BY <2>1
  <2>. QED BY <2>1, <2>2, <2>3 DEF n
<1>5. \A i \in 1 .. L + 1 : off[i] \in Nat
  BY DEF Offsets
<1>6. /\ \A i \in 1 .. L + 1 : off1[i] = off[i] /\ i # L + 2
      /\ off1[L + 2] = T + n /\ off1 \in [1 .. L + 2 -> Nat]
  <2>1. /\ \A i \in 1 .. L + 1 : i \in 1 .. L + 2 /\ i # L + 2
        /\ L + 2 \in 1 .. L + 2
        /\ \A i \in 1 .. L + 2 : i # L + 2 => i \in 1 .. L + 1
    BY <1>2
  <2>. HIDE DEF T, n, L
  <2>2. T + n \in Nat
    BY <1>3, <1>4
  <2>. QED BY <1>5, <2>1, <2>2
<1>7. Len(due1) + 1 = L + 2 /\ off1 \in Offsets(due1)
  <2>1. Len(due1) + 1 = L + 2
    BY <1>2
  <2>. HIDE DEF off1
  <2>. QED BY <1>6, <2>1 DEF Offsets
<1>8. \A i \in 1 .. L : off[i] + CsSize(due[i]) <= T /\ CsSize(due[i]) \in Nat
  <2>1. \A i \in 1 .. L : L + 1 \in i + 1 .. L + 1
    BY <1>2
  <2>. QED BY <1>1, <1>2, <2>1, FrameSize DEF Placed, Lined
<1>. HIDE DEF off1, due1, n
<1>9. Lined(due1, off1)
  <2>1. off1[1] = 0
    <3>1. off[1] = 0 /\ 1 \in 1 .. L + 1
      BY <1>1, <1>2 DEF Placed, Lined
    <3>. QED BY <1>6, <3>1
  <2>2. ASSUME NEW i \in 1 .. L + 1
        PROVE  /\ off1[i + 1] = off1[i] + CsSize(due1[i])
               /\ \A k \in i + 1 .. L + 2 : off1[i] + CsSize(due1[i]) <= off1[k]
    <3>1. CASE i = L + 1
      <4>1. off1[i] = T /\ i + 1 = L + 2 /\ CsSize(due1[i]) = n
        BY <1>2, <1>6, <3>1 DEF n
      <4>2. \A k \in i + 1 .. L + 2 : k = L + 2
        BY <1>2, <3>1
      <4>3. T + n <= off1[L + 2] /\ off1[L + 2] = T + n
        <5>. HIDE DEF T
        <5>. QED BY <1>3, <1>4, <1>6
      <4>. QED BY <4>1, <4>2, <4>3
    <3>2. CASE i \in 1 .. L
      <4>1. off1[i] = off[i] /\ off1[i + 1] = off[i + 1] /\ due1[i] = due[i] /\ i + 1 \in 1 .. L + 1
        BY <1>2, <1>6, <3>2
      <4>2. off[i + 1] = off[i] + CsSize(due[i])
        BY <1>1, <3>2 DEF Placed, Lined
      <4>3. ASSUME NEW k \in i + 1 .. L + 2 PROVE off[i] + CsSize(due[i]) <= off1[k]
        <5>1. CASE k = L + 2
          <6>. DEFINE b == off[i] z == CsSize(due[i])
          <6>1. b \in Nat /\ z \in Nat /\ b + z <= T
            BY <1>5, <1>8, <3>2, <1>2
          <6>. HIDE DEF T, b, z
          <6>2. b + z <= T + n
            BY <1>3, <1>4, <6>1
          <6>. QED BY <1>6, <5>1, <6>2 DEF b, z
        <5>2. CASE k # L + 2
          <6>1. k \in i + 1 .. L + 1 /\ k \in 1 .. L + 1
            BY <1>2, <3>2, <4>3, <5>2
          <6>. QED BY <1>1, <1>6, <3>2, <6>1 DEF Placed, Lined
        <5>. QED BY <5>1, <5>2
      <4>. QED BY <4>1, <4>2, <4>3
    <3>. QED BY <1>2, <3>1, <3>2
  <2>. QED BY <1>2, <1>7, <2>1, <2>2 DEF Lined
<1>10. off1[Len(due1) + 1] <= CsRing /\ (d + CsSize(f)) % CsRing = Wrap(rx + off1[Len(due1) + 1])
  <2>. HIDE DEF T
  <2>1. d + n \in Nat /\ d + n < 2 * CsRing
    <3>1. T \in Nat /\ d \in Nat /\ n \in Nat /\ d < CsRing /\ T + n <= CsRing
      BY <1>3, <1>4
    <3>2. n <= CsRing
      BY <1>3, <3>1
    <3>. QED BY <1>3, <3>1, <3>2
  <2>2. (d + n) % CsRing = Wrap(d + n)
    BY <2>1, WrapMod
  <2>3. Wrap(d + n) = Wrap(rx + (T + n))
    BY <1>3, <1>4 DEF Wrap
  <2>. QED BY <1>4, <1>6, <1>7, <2>2, <2>3 DEF n
(* How far a place of the ring is behind the card's.                       *)
<1>11. ASSUME NEW u \in 0 .. CsRing - 1
       PROVE  /\ Wrap(rx + u) \in 0 .. CsRing - 1
              /\ (Wrap(rx + u) - d + CsRing) % CsRing = IF u < T THEN u - T + CsRing ELSE u - T
  <2>. DEFINE y == Wrap(rx + u) - d + CsRing
  <2>. HIDE DEF T
  <2>1. Wrap(rx + u) \in 0 .. CsRing - 1 /\ y \in Nat /\ y < 2 * CsRing
    BY <1>3, <1>4 DEF Wrap
  <2>2. Wrap(y) = IF u < T THEN u - T + CsRing ELSE u - T
    <3>1. d = Wrap(rx + T)
      BY <1>4
    <3>2. T \in Nat /\ T <= CsRing /\ u \in Nat /\ u < CsRing /\ rx \in Nat /\ rx < CsRing
      BY <1>3, <1>4
    <3>3. CASE rx + T >= CsRing
      BY <1>3, <3>1, <3>2, <3>3 DEF Wrap
    <3>4. CASE ~ (rx + T >= CsRing)
      BY <1>3, <3>1, <3>2, <3>4 DEF Wrap
    <3>. QED BY <3>3, <3>4
  <2>. HIDE DEF y
  <2>3. y % CsRing = Wrap(y)
    BY <2>1, WrapMod
  <2>. QED BY <2>1, <2>2, <2>3 DEF y
<1>12. ASSUME NEW i \in 1 .. L + 1, NEW j \in 0 .. CsSize(due1[i]) - 1
       PROVE  ring1[Wrap(rx + off1[i] + j)] = CsCell(due1[i], j)
  <2>1. CASE i = L + 1
    <3>1. off1[i] = T /\ due1[i] = f /\ j \in Nat /\ j < n
      BY <1>2, <1>3, <1>6, <1>12, <2>1 DEF n
    <3>. DEFINE u == T + j
    <3>. HIDE DEF T
    <3>2. u \in 0 .. CsRing - 1 /\ ~ (u < T) /\ u - T = j /\ rx + T + j = rx + u
      BY <1>3, <1>4, <3>1
    <3>. HIDE DEF u
    <3>3. Wrap(rx + u) \in 0 .. CsRing - 1 /\ (Wrap(rx + u) - d + CsRing) % CsRing = j
      BY <1>11, <3>2
    <3>4. ring1[Wrap(rx + u)] = CsCell(f, j)
      BY <3>1, <3>3 DEF n
    <3>. QED BY <3>1, <3>2, <3>4
  <2>2. CASE i \in 1 .. L
    <3>1. /\ off1[i] = off[i] /\ due1[i] = due[i] /\ off[i] \in Nat /\ CsSize(due[i]) \in Nat
          /\ off[i] + CsSize(due[i]) <= T
      BY <1>2, <1>5, <1>6, <1>8, <2>2
    <3>2. j \in 0 .. CsSize(due[i]) - 1 /\ j \in Nat /\ j < CsSize(due[i])
      BY <1>12, <3>1
    <3>. DEFINE u == off[i] + j
    <3>3. ring[Wrap(rx + u)] = CsCell(due[i], j)
      <4>1. ring[Wrap(rx + off[i] + j)] = CsCell(due[i], j)
        BY <1>1, <2>2, <3>2 DEF Placed
      <4>2. rx + off[i] + j = rx + u
        BY <3>1, <3>2
      <4>. QED BY <4>1, <4>2
    <3>. HIDE DEF T
    <3>4. u \in Nat /\ u < T /\ rx + off[i] + j = rx + u
      <4>. DEFINE z == CsSize(due[i]) b == off[i]
      <4>1. b \in Nat /\ z \in Nat /\ b + z <= T /\ j \in Nat /\ j < z
        BY <3>1, <3>2
      <4>. HIDE DEF z, b
      <4>2. b + j \in Nat /\ b + j < T /\ rx + b + j = rx + (b + j)
        BY <1>4, <4>1
      <4>. QED BY <4>2 DEF b
    <3>. HIDE DEF u
    <3>5. u \in 0 .. CsRing - 1 /\ u - T + CsRing >= n /\ ~ (u - T + CsRing < n)
      BY <1>3, <1>4, <3>4
    <3>6. Wrap(rx + u) \in 0 .. CsRing - 1 /\ (Wrap(rx + u) - d + CsRing) % CsRing = u - T + CsRing
      BY <1>11, <3>4, <3>5
    <3>7. ring1[Wrap(rx + u)] = ring[Wrap(rx + u)]
      BY <3>5, <3>6 DEF n
    <3>. QED BY <3>1, <3>3, <3>4, <3>7
  <2>. QED BY <1>2, <2>1, <2>2
<1>13. Placed(ring1, rx, (d + CsSize(f)) % CsRing, due1, off1)
  BY <1>2, <1>9, <1>10, <1>12 DEF Placed
<1>. QED BY <1>7, <1>13 DEF Laid, due1

(* Two pieces of a function make one.                                      *)
LEMMA TwoPieces ==
  ASSUME NEW a \in Nat, NEW b \in Nat, NEW F, NEW G, NEW H,
         F = [i \in 1 .. a |-> H[i]], G = [i \in 1 .. b |-> H[a + i]]
  PROVE  F \o G = [i \in 1 .. a + b |-> H[i]]
OBVIOUS

(* What dma_rx copies is what arrived, and where it goes on is behind it.  *)
LEMMA CopyWhole ==
  ASSUME NEW rx \in 0 .. CsRing - 1, rx \in Multiples, NEW f \in CsFrames, CsSize(f) <= CsRing,
         \A j \in 0 .. CsSize(f) - 1 : cs_ring[Wrap(rx + j)] = CsCell(f, j)
  PROVE  /\ cs_ring[rx] = <<f.no, 0>> /\ CsCopy(CsPastHeader(rx), f.len) = CsBytes(f)
         /\ CsSkip(CsPastHeader(rx), f.len) = Wrap(rx + CsSize(f))
         /\ Wrap(rx + CsSize(f)) \in Multiples
<1>. DEFINE n == CsSize(f) len == f.len pad == CsPadded(f.len) bp == rx + CsAlign
<1>1. /\ n = CsAlign + pad /\ n \in Multiples /\ n \in Nat /\ len \in Nat /\ len >= 1 /\ len <= pad
      /\ pad \in Nat /\ CsAlign \in Nat /\ CsAlign >= 1 /\ CsRing \in Nat /\ CsRing \in Multiples
  BY FrameSize, SizeType
<1>2. rx \in Nat /\ rx < CsRing /\ bp \in Nat /\ bp <= CsRing /\ rx + n \in Multiples
  BY <1>1, MultiplesType
<1>3. Wrap(rx + n) \in Multiples
  <2>. HIDE DEF n
  <2>1. CsRing <= rx + n => rx + n - CsRing \in Multiples
    BY <1>1, <1>2, MultiplesType
  <2>2. rx + n \in Nat
    BY <1>1, <1>2
  <2>. QED BY <1>1, <1>2, <2>1, <2>2 DEF Wrap
<1>. HIDE DEF n, pad
<1>4. cs_ring[rx] = <<f.no, 0>>
  <2>1. 0 \in 0 .. n - 1 /\ Wrap(rx + 0) = rx
    BY <1>1, <1>2 DEF Wrap
  <2>2. CsCell(f, 0) = <<f.no, 0>>
    BY <1>1 DEF CsCell
  <2>. QED BY <2>1, <2>2 DEF n
<1>5. ASSUME NEW i \in 1 .. len PROVE cs_ring[Wrap(bp + i - 1)] = <<f.no, i>>
  <2>. DEFINE j == CsAlign + i - 1
  <2>1. i \in Nat /\ i >= 1 /\ i <= len
    BY <1>1
  <2>2. j \in 0 .. n - 1 /\ rx + j = bp + i - 1 /\ ~ (j < CsAlign) /\ j - CsAlign + 1 = i
    BY <1>1, <1>2, <2>1
  <2>3. CsCell(f, j) = <<f.no, i>>
    BY <2>2 DEF CsCell
  <2>. QED BY <2>2, <2>3 DEF n
<1>6. CsCopy(bp, len) = CsBytes(f)
  <2>. DEFINE H == CsBytes(f)
  <2>0. H = [i \in 1 .. len |-> <<f.no, i>>] /\ \A i \in 1 .. len : H[i] = <<f.no, i>>
    BY DEF CsBytes
  <2>. HIDE DEF H, len, bp
  <2>1. CASE ~ (bp + len > CsRing)
    <3>1. ASSUME NEW i \in 1 .. len PROVE cs_ring[bp + i - 1] = <<f.no, i>>
      <4>1. Wrap(bp + i - 1) = bp + i - 1
        BY <1>1, <1>2, <2>1 DEF Wrap
      <4>. QED BY <1>5, <4>1 DEF len, bp
    <3>2. CsCopy(bp, len) = [i \in 1 .. len |-> cs_ring[bp + i - 1]]
      BY <2>1 DEF CsCopy
    <3>. QED BY <2>0, <3>1, <3>2 DEF H
  <2>2. CASE bp + len > CsRing
    <3>. DEFINE semi == CsRing - bp rest == len - semi
                F == [i \in 1 .. semi |-> cs_ring[bp + i - 1]] G == [i \in 1 .. rest |-> cs_ring[i - 1]]
    <3>1. semi \in Nat /\ rest \in Nat /\ semi + rest = len /\ bp + semi = CsRing
      BY <1>1, <1>2, <2>2
    <3>2. CsCopy(bp, len) = F \o G
      BY <2>2 DEF CsCopy
    <3>3. ASSUME NEW i \in 1 .. semi PROVE cs_ring[bp + i - 1] = H[i]
      <4>1. i \in 1 .. len /\ Wrap(bp + i - 1) = bp + i - 1
        BY <1>1, <1>2, <2>2, <3>1 DEF Wrap
      <4>. QED BY <1>5, <2>0, <4>1 DEF len, bp
    <3>4. ASSUME NEW i \in 1 .. rest PROVE cs_ring[i - 1] = H[semi + i]
      <4>1. semi + i \in 1 .. len /\ Wrap(bp + (semi + i) - 1) = i - 1
        <5>. HIDE DEF semi, rest
        <5>. QED BY <1>1, <1>2, <3>1 DEF Wrap
      <4>2. cs_ring[Wrap(bp + (semi + i) - 1)] = H[semi + i]
        BY <1>5, <2>0, <4>1 DEF len, bp
      <4>. QED BY <4>1, <4>2
    <3>5. F = [i \in 1 .. semi |-> H[i]] /\ G = [i \in 1 .. rest |-> H[semi + i]]
      BY <3>3, <3>4
    <3>. HIDE DEF semi, rest, F, G
    <3>6. F \o G = [i \in 1 .. semi + rest |-> H[i]]
      BY <3>1, <3>5, TwoPieces
    <3>7. [i \in 1 .. len |-> H[i]] = H
      BY <2>0
    <3>. QED BY <3>1, <3>2, <3>6, <3>7 DEF H
  <2>. QED BY <2>1, <2>2 DEF len, bp
<1>7. CsSkip(bp, len) = Wrap(rx + n)
  BY <1>1, <1>2 DEF CsSkip, Wrap, pad
<1>. QED BY <1>3, <1>4, <1>6, <1>7 DEF CsPastHeader, n
-----------------------------------------------------------------------------
(* The CS89x0: the shapes of its state.                                    *)
CsPlaces == {"closed", "failed", "open", "free"} \cup CsCfgs
CsEvents == {"sent", "ready", "underrun", "dma"}
CsType ==
  /\ cs_dma \in {"pio", "module", "eeprom"}
  /\ cs_pc \in [at : CsPlaces, data : BOOLEAN]
  /\ cs_stopped \in BOOLEAN /\ cs_irq \in BOOLEAN /\ cs_bid \in BOOLEAN /\ cs_sending \in BOOLEAN
  /\ cs_whole \in BOOLEAN
  /\ cs_claimed \subseteq {"irq", "dma", "dma_buff"}
  /\ cs_regs \subseteq CsAsks \cup {"ENABLE_IRQ", "MEMORY_ON"}
  /\ cs_addr \in CsCfgs \cup {"none", "DmaFrameCnt", "ISAINT", "LineCTL"}
  /\ send_underrun \in Nat /\ cs_count \in Nat /\ cs_framecnt \in Nat
  /\ cs_isq \subseteq CsEvents /\ cs_due \in Seq(CsFrames)
  /\ cs_odd \subseteq {"over", "unfreed"} \cup CsCfgs
  /\ cs_left \in [rx : Nat, opens : Nat]

(* They are right in the beginning                                         *)
LEMMA CsTypeInit == CsInit => CsType
<1>. SUFFICES ASSUME CsInit PROVE CsType
  OBVIOUS
<1>1. <<>> \in Seq(CsFrames)
  OBVIOUS
<1>. QED BY <1>1, Cs89x0Assumption DEF CsInit, CsType, CsPlaces

(* and after every step.                                                   *)
LEMMA CsTypeNext == CsType /\ [CsNext]_csVars => CsType'
<1>. SUFFICES ASSUME CsType, [CsNext]_csVars PROVE CsType'
  OBVIOUS
<1>0. /\ cs_pc.at \in CsPlaces /\ cs_pc.data \in BOOLEAN /\ cs_left.rx \in Nat /\ cs_left.opens \in Nat
  BY DEF CsType
<1>1. CASE UNCHANGED csVars
  BY <1>1 DEF CsType, csVars, csRegs, csTx, csRx
<1>2. CASE CsGrants \/ \E event \in {"sent", "underrun"} : CsSends(event)
  BY <1>2 DEF CsType, CsGrants, CsSends, CsRaise, CsEvents, csRegs, csTx, csRx
<1>3. ASSUME NEW len \in CsLens, CsArrive(len) PROVE CsType'
  <2>. DEFINE f == [no |-> cs_left.rx, len |-> len]
  <2>1. f \in CsFrames
    BY <1>0 DEF CsFrames
  <2>2. cs_left.rx > 0 /\ cs_left' = [cs_left EXCEPT !.rx = @ - 1] /\ cs_due' = Append(cs_due, f)
    BY <1>3 DEF CsArrive
  <2>3. /\ UNCHANGED <<cs_dma, cs_pc, cs_stopped, cs_claimed, cs_irq, csRegs, csTx, cs_count, cs_whole>>
        /\ cs_framecnt' \in {cs_framecnt, cs_framecnt + 1}
        /\ cs_isq' \subseteq cs_isq \cup {"dma"} /\ cs_odd' \subseteq cs_odd \cup {"over"}
    BY <1>3 DEF CsArrive, CsRaise
  <2>4. cs_due' \in Seq(CsFrames)
    BY <2>1, <2>2 DEF CsType
  <2>5. cs_left' \in [rx : Nat, opens : Nat]
    <3>1. cs_left.rx - 1 \in Nat
      BY <1>0, <2>2
    <3>. QED BY <1>0, <2>2, <3>1 DEF CsType
  <2>. QED BY <2>3, <2>4, <2>5 DEF CsType, CsEvents, csRegs, csTx
<1>4. CASE CsIrq \/ CsIrqEnd \/ CsTxEvent
  BY <1>4 DEF CsType, CsIrq, CsIrqEnd, CsTxEvent, csRegs, csTx, csRx
<1>5. CASE CsBufEvent
  BY <1>5 DEF CsType, CsBufEvent, CsReadCount
<1>6. ASSUME NEW passed \in BOOLEAN, CsRx(passed) \/ CsDmaRx(passed) PROVE CsType'
  <2>1. cs_due' = Tail(cs_due) /\ cs_whole' \in BOOLEAN
    BY <1>6 DEF CsRx, CsDmaRx, CsTaken, CsType
  <2>2. cs_due # <<>> => cs_due' \in Seq(CsFrames)
    BY <2>1 DEF CsType
  <2>3. cs_due = <<>> => cs_due' \in Seq(CsFrames)
    BY <2>1 DEF CsType
  <2>4. /\ UNCHANGED <<cs_dma, cs_pc, cs_stopped, cs_claimed, cs_irq, cs_regs, csTx, cs_isq, cs_odd, cs_left>>
        /\ cs_addr' \in {cs_addr, "DmaFrameCnt"} /\ cs_count' \in Nat /\ cs_framecnt' \in Nat
    BY <1>6 DEF CsRx, CsDmaRx, CsReadCount, CsType, csRegs
  <2>. QED BY <2>1, <2>2, <2>3, <2>4 DEF CsType, csTx
<1>7. CASE CsXmit \/ CsTimeout
  BY <1>7 DEF CsType, CsXmit, CsTimeout, CsReady, csRegs, csTx, csRx
<1>8. CASE CsOpen \/ \E why \in CsFailures : CsOpenFails(why)
  <2>1. /\ cs_left.opens > 0 /\ cs_left' = [cs_left EXCEPT !.opens = @ - 1]
        /\ UNCHANGED <<cs_dma, cs_irq, csTx, cs_isq, cs_count, cs_ring, cs_whole>>
    BY <1>8 DEF CsOpen, CsOpenFails, CsOpening
  <2>2. cs_left' \in [rx : Nat, opens : Nat]
    BY <1>0, <2>1 DEF CsType
  <2>3. CASE CsOpen
    <3>1. cs_due' \in Seq(CsFrames)
      <4>1. cs_due' = cs_due \/ cs_due' = <<>>
        BY <2>3 DEF CsOpen
      <4>2. <<>> \in Seq(CsFrames)
        OBVIOUS
      <4>. QED BY <4>1, <4>2 DEF CsType
    <3>2. cs_pc' \in [at : CsPlaces, data : BOOLEAN]
      BY <2>3 DEF CsOpen, CsType, CsPlaces
    <3>3. /\ cs_stopped' = FALSE /\ cs_regs' = CsOn /\ cs_addr' = "BusCTL" /\ cs_odd' \subseteq cs_odd
          /\ cs_claimed' \subseteq {"irq", "dma", "dma_buff"}
      BY <2>3 DEF CsOpen
    <3>4. cs_framecnt' \in Nat
      BY <2>3 DEF CsOpen, CsType
    <3>5. "BusCTL" \in CsCfgs /\ CsOn \subseteq CsAsks \cup {"ENABLE_IRQ", "MEMORY_ON"}
      BY DEF CsCfgs, CsOn
    <3>. QED BY <2>1, <2>2, <3>1, <3>2, <3>3, <3>4, <3>5 DEF CsType, csTx
  <2>4. ASSUME NEW why \in CsFailures, CsOpenFails(why) PROVE CsType'
    <3>1. cs_pc' \in [at : CsPlaces, data : BOOLEAN]
      BY <2>4 DEF CsOpenFails, CsType, CsPlaces
    <3>2. cs_claimed' \subseteq cs_claimed \cup {"dma"}
      BY <2>4 DEF CsOpenFails, CsFailures
    <3>3. cs_regs' \subseteq CsAsks \cup {"ENABLE_IRQ", "MEMORY_ON"}
      <4>1. PICK bus \in CsBusAfter(why) : cs_regs' = (cs_regs \cap CsAsks) \cup bus
        BY <2>4 DEF CsOpenFails
      <4>2. bus \subseteq cs_regs \cup {"ENABLE_IRQ", "MEMORY_ON"}
        BY DEF CsBusAfter, CsFailures, CsBits
      <4>. QED BY <4>1, <4>2 DEF CsType
    <3>4. cs_addr' \in {cs_addr, "BusCTL", "ISAINT", "LineCTL"} /\ "BusCTL" \in CsCfgs
      BY <2>4 DEF CsOpenFails, CsCfgs
    <3>5. cs_due' \in Seq(CsFrames)
      <4>1. cs_due' = cs_due \/ cs_due' = <<>>
        BY <2>4 DEF CsOpenFails
      <4>2. <<>> \in Seq(CsFrames)
        OBVIOUS
      <4>. QED BY <4>1, <4>2 DEF CsType
    <3>6. cs_odd' \subseteq cs_odd \cup {"unfreed"} /\ UNCHANGED <<cs_stopped, cs_framecnt>>
      BY <2>4 DEF CsOpenFails
    <3>. QED BY <2>1, <2>2, <3>1, <3>2, <3>3, <3>4, <3>5, <3>6 DEF CsType, csTx
  <2>. QED BY <1>8, <2>3, <2>4
<1>9. CASE CsClose \/ CsCloseNumber \/ CsCloseValue \/ CsCloseFree
  <2>1. cs_pc' \in [at : CsPlaces, data : BOOLEAN]
    <3>1. CASE CsClose
      <4>1. "RxCFG" \in CsPlaces
        BY DEF CsPlaces, CsCfgs, CsAsks
      <4>. QED BY <3>1, <4>1 DEF CsClose
    <3>2. CASE CsCloseNumber
      BY <3>2 DEF CsCloseNumber, CsType
    <3>3. CASE CsCloseValue
      <4>1. cs_pc.at \in CsCfgs => CsCloseNext[cs_pc.at] \in CsPlaces
        BY DEF CsCloseNext, CsPlaces, CsCfgs, CsAsks
      <4>. QED BY <3>3, <4>1 DEF CsCloseValue
    <3>4. CASE CsCloseFree
      BY <3>4 DEF CsCloseFree, CsType, CsPlaces
    <3>. QED BY <1>9, <3>1, <3>2, <3>3, <3>4
  <2>2. CASE CsClose
    BY <2>1, <2>2 DEF CsType, CsClose, csRegs, csTx, csRx
  <2>3. CASE CsCloseNumber
    BY <2>1, <2>3 DEF CsType, CsCloseNumber, csTx, csRx
  <2>4. CASE CsCloseValue
    BY <2>1, <2>4 DEF CsType, CsCloseValue, csTx, csRx
  <2>5. CASE CsCloseFree
    BY <2>1, <2>5 DEF CsType, CsCloseFree, csRegs, csTx, csRx
  <2>. QED BY <1>9, <2>2, <2>3, <2>4, <2>5
<1>. QED BY <1>1, <1>2, <1>3, <1>4, <1>5, <1>6, <1>7, <1>8, <1>9 DEF CsNext

(* A queue that is stopped while the device is open: with its interrupts   *)
(* on, whatever the card owes will be told.                                *)
CsQueueInv == CsQueueWoken /\ (cs_pc.at = "open" => CsAsks \subseteq cs_regs)

(* Every step leaves a stopped queue something to wake it.                 *)
LEMMA CsQueueNext == CsType /\ CsQueueInv /\ [CsNext]_csVars => CsQueueInv'
<1>. SUFFICES ASSUME CsType, CsQueueInv, [CsNext]_csVars PROVE CsQueueInv'
  OBVIOUS
<1>1. CASE UNCHANGED csVars
  BY <1>1 DEF CsQueueInv, CsQueueWoken, csVars, csRegs, csTx
<1>2. CASE CsGrants \/ \E event \in {"sent", "underrun"} : CsSends(event)
  BY <1>2 DEF CsQueueInv, CsQueueWoken, CsGrants, CsSends, CsRaise, CsAsks, csRegs
<1>3. ASSUME NEW len \in CsLens, CsArrive(len) PROVE CsQueueInv'
  <2>1. UNCHANGED <<cs_pc, cs_stopped, cs_regs, cs_sending, cs_bid>> /\ cs_isq \subseteq cs_isq'
    BY <1>3 DEF CsArrive, CsRaise, csRegs, csTx
  <2>. QED BY <2>1 DEF CsQueueInv, CsQueueWoken
<1>4. CASE CsIrq \/ CsIrqEnd \/ CsTxEvent \/ CsXmit \/ CsTimeout
  <2>1. CASE CsIrq \/ CsIrqEnd
    BY <2>1 DEF CsQueueInv, CsQueueWoken, CsIrq, CsIrqEnd, csRegs, csTx
  <2>2. CASE CsTxEvent \/ CsTimeout
    <3>1. ~ cs_stopped' /\ UNCHANGED <<cs_pc, cs_regs>>
      BY <2>2 DEF CsTxEvent, CsTimeout, csRegs
    <3>. QED BY <3>1 DEF CsQueueInv, CsQueueWoken
  <2>3. CASE CsXmit
    <3>1. (cs_bid' <=> ~ CsReady) /\ (cs_sending' <=> (cs_sending \/ CsReady)) /\ UNCHANGED <<cs_pc, cs_regs>>
      BY <2>3 DEF CsXmit, csRegs
    <3>. QED BY <3>1 DEF CsQueueInv, CsQueueWoken
  <2>. QED BY <1>4, <2>1, <2>2, <2>3
<1>5. CASE CsBufEvent
  BY <1>5 DEF CsQueueInv, CsQueueWoken, CsBufEvent, CsBufEvents, CsWakes
<1>6. CASE \E passed \in BOOLEAN : CsRx(passed) \/ CsDmaRx(passed)
  BY <1>6 DEF CsQueueInv, CsQueueWoken, CsRx, CsDmaRx, csRegs, csTx
<1>7. CASE CsOpen \/ \E why \in CsFailures : CsOpenFails(why)
  <2>1. CASE CsOpen
    BY <2>1 DEF CsQueueInv, CsQueueWoken, CsOpen, CsOn
  <2>2. CASE \E why \in CsFailures : CsOpenFails(why)
    <3>1. cs_pc'.at = "failed"
      BY <2>2 DEF CsOpenFails, CsType
    <3>. QED BY <3>1 DEF CsQueueInv, CsQueueWoken
  <2>. QED BY <1>7, <2>1, <2>2
<1>8. CASE CsClose \/ CsCloseNumber \/ CsCloseValue \/ CsCloseFree
  <2>1. cs_pc'.at # "open"
    BY <1>8 DEF CsType, CsClose, CsCloseNumber, CsCloseValue, CsCloseFree, CsCfgs, CsAsks, CsCloseNext
  <2>. QED BY <2>1 DEF CsQueueInv, CsQueueWoken
<1>. QED BY <1>1, <1>2, <1>3, <1>4, <1>5, <1>6, <1>7, <1>8 DEF CsNext

(* What is claimed, and which registers are left to be written, wherever   *)
(* an open or a close stands.                                              *)
CsClaimed == "irq" \in cs_claimed /\ (cs_dma # "pio" => {"dma", "dma_buff"} \subseteq cs_claimed)
CsSilenced(at) ==
  [closed |-> CsCfgs, failed |-> CsCfgs, open |-> {}, RxCFG |-> {}, TxCFG |-> {"RxCFG"},
   BufCFG |-> {"RxCFG", "TxCFG"}, BusCTL |-> {"RxCFG", "TxCFG", "BufCFG"}, free |-> CsCfgs][at]
CsShut == {"closed", "failed"}
CsClaimsInv ==
  /\ cs_pc.at \notin CsShut => CsClaimed
  /\ cs_pc.at \in CsShut =>
       ~ cs_irq /\ "irq" \notin cs_claimed /\ ("unfreed" \notin cs_odd => cs_claimed = {})
  /\ cs_pc.data => cs_pc.at \in CsCfgs /\ cs_addr \in {cs_pc.at, "DmaFrameCnt"}
  /\ CsMissed \subseteq CsSilenced(cs_pc.at)
  /\ \A r \in CsCfgs :
       cs_pc.at # "failed" \/ r # "BusCTL" =>
         cs_regs \cap CsBits(r) = IF r \in CsSilenced(cs_pc.at) \ cs_odd THEN {} ELSE CsOn \cap CsBits(r)

(* Every step keeps the claims.                                            *)
LEMMA CsClaimsNext == CsType /\ CsClaimsInv /\ [CsNext]_csVars => CsClaimsInv'
<1>. SUFFICES ASSUME CsType, CsClaimsInv, [CsNext]_csVars PROVE CsClaimsInv'
  OBVIOUS
<1>0. cs_pc \in [at : CsPlaces, data : BOOLEAN] /\ cs_pc.at \in CsPlaces /\ cs_pc.data \in BOOLEAN
  BY DEF CsType
<1>1. ASSUME UNCHANGED <<cs_pc, cs_claimed, cs_regs, cs_dma>>, cs_odd' \in {cs_odd, cs_odd \cup {"over"}},
             cs_irq' => cs_irq \/ "irq" \in cs_claimed, cs_addr' \in {cs_addr, "DmaFrameCnt"}
      PROVE  CsClaimsInv'
  <2>1. CsMissed' = CsMissed /\ CsOn' = CsOn /\ ("unfreed" \in cs_odd' <=> "unfreed" \in cs_odd)
        /\ \A r \in CsCfgs : r \in cs_odd' <=> r \in cs_odd
    BY <1>1 DEF CsMissed, CsOn, CsCfgs, CsAsks
  <2>2. CsSilenced(cs_pc'.at) = CsSilenced(cs_pc.at)
    BY <1>1
  <2>3. \A r \in CsCfgs : r \in CsSilenced(cs_pc'.at) \ cs_odd' <=> r \in CsSilenced(cs_pc.at) \ cs_odd
    BY <2>1, <2>2
  <2>. HIDE DEF CsClaimed
  <2>4. CsClaimed' <=> CsClaimed
    BY <1>1 DEF CsClaimed
  <2>. QED BY <1>1, <2>1, <2>2, <2>3, <2>4 DEF CsClaimsInv
<1>2. CASE UNCHANGED csVars
  BY <1>1, <1>2 DEF csVars, csRegs
<1>3. CASE CsGrants \/ \E event \in {"sent", "underrun"} : CsSends(event)
  BY <1>1, <1>3 DEF CsGrants, CsSends, csRegs
<1>4. CASE \E len \in CsLens : CsArrive(len)
  <2>1. UNCHANGED <<cs_pc, cs_claimed, cs_regs, cs_addr, cs_irq, cs_dma>> /\ cs_odd' \in {cs_odd, cs_odd \cup {"over"}}
    BY <1>4 DEF CsArrive, csRegs
  <2>. QED BY <1>1, <2>1
<1>5. CASE CsIrq \/ CsIrqEnd \/ CsTxEvent \/ CsXmit \/ CsTimeout \/ CsBufEvent
  <2>1. CASE CsIrq \/ CsIrqEnd \/ CsTxEvent \/ CsXmit \/ CsTimeout
    BY <1>1, <2>1 DEF CsIrq, CsIrqEnd, CsTxEvent, CsXmit, CsTimeout, csRegs
  <2>2. CASE CsBufEvent
    BY <1>1, <2>2 DEF CsBufEvent, CsReadCount
  <2>. QED BY <1>5, <2>1, <2>2
<1>6. CASE \E passed \in BOOLEAN : CsRx(passed) \/ CsDmaRx(passed)
  BY <1>1, <1>6 DEF CsRx, CsDmaRx, CsReadCount, csRegs
<1>7. CASE CsOpen
  <2>1. /\ cs_pc' = [cs_pc EXCEPT !.at = "open"] /\ cs_pc.at \in CsShut
        /\ cs_regs' = CsOn /\ UNCHANGED cs_dma /\ cs_odd' = cs_odd \ CsCfgs
        /\ cs_claimed' = {"irq"} \cup (IF cs_dma = "pio" THEN {} ELSE {"dma", "dma_buff"})
    BY <1>7 DEF CsOpen, CsOpening, CsShut
  <2>2. cs_pc'.at = "open" /\ cs_pc'.data = cs_pc.data /\ CsOn' = CsOn /\ CsMissed' = {}
    BY <1>0, <2>1 DEF CsOn, CsMissed
  <2>3. CsSilenced("open") = {}
    BY DEF CsSilenced
  <2>4. ~ cs_pc.data
    BY <2>1 DEF CsClaimsInv, CsShut, CsCfgs, CsAsks
  <2>. QED BY <2>1, <2>2, <2>3, <2>4 DEF CsClaimsInv, CsClaimed, CsShut
<1>8. ASSUME NEW why \in CsFailures, CsOpenFails(why) PROVE CsClaimsInv'
  <2>1. /\ cs_pc.at \in CsShut /\ ~ cs_irq /\ UNCHANGED <<cs_irq, cs_dma>> /\ cs_pc' = [cs_pc EXCEPT !.at = "failed"]
        /\ cs_odd' = IF cs_claimed' # {} THEN cs_odd \cup {"unfreed"} ELSE cs_odd
    BY <1>8 DEF CsOpenFails, CsOpening, CsShut
  <2>2. cs_pc'.at = "failed" /\ cs_pc'.data = cs_pc.data /\ CsOn' = CsOn
    BY <1>0, <2>1 DEF CsOn
  <2>3. CsSilenced("failed") = CsCfgs /\ CsSilenced("closed") = CsCfgs
    BY DEF CsSilenced
  <2>4. "irq" \notin cs_claimed'
    BY <1>8, <2>1 DEF CsOpenFails, CsFailures, CsClaimsInv
  <2>5. cs_regs' \cap CsAsks = cs_regs \cap CsAsks
    <3>1. PICK bus \in CsBusAfter(why) : cs_regs' = (cs_regs \cap CsAsks) \cup bus
      BY <1>8 DEF CsOpenFails
    <3>2. bus \cap CsAsks = {}
      BY DEF CsBusAfter, CsFailures, CsBits, CsAsks
    <3>. QED BY <3>1, <3>2
  <2>6. CsMissed' = CsMissed /\ \A r \in CsCfgs : r \in cs_odd' <=> r \in cs_odd
    BY <2>1 DEF CsMissed, CsCfgs, CsAsks
  <2>7. \A r \in CsCfgs : r # "BusCTL" => cs_regs' \cap CsBits(r) = cs_regs \cap CsBits(r)
    BY <2>5 DEF CsCfgs, CsBits
  <2>8. ~ cs_pc.data
    BY <2>1 DEF CsClaimsInv, CsShut, CsCfgs, CsAsks
  <2>9. CsSilenced(cs_pc.at) = CsCfgs
    BY <2>1, <2>3 DEF CsShut
  <2>10. \A r \in CsCfgs : r # "BusCTL" =>
           cs_regs \cap CsBits(r) = IF r \in CsCfgs \ cs_odd THEN {} ELSE CsOn \cap CsBits(r)
    BY <2>9 DEF CsClaimsInv
  <2>11. CsMissed' \subseteq CsCfgs
    BY DEF CsMissed
  <2>12. \A r \in CsCfgs : r # "BusCTL" =>
           cs_regs' \cap CsBits(r) = IF r \in CsCfgs \ cs_odd' THEN {} ELSE CsOn' \cap CsBits(r)
    BY <2>2, <2>6, <2>7, <2>10
  <2>13. "unfreed" \notin cs_odd' => cs_claimed' = {}
    BY <2>1
  <2>. QED BY <2>1, <2>2, <2>3, <2>4, <2>8, <2>11, <2>12, <2>13 DEF CsClaimsInv, CsShut
<1>9. CASE CsClose
  <2>1. cs_pc.at = "open" /\ cs_pc'.at = "RxCFG" /\ ~ cs_pc'.data
        /\ UNCHANGED <<cs_claimed, cs_regs, cs_dma, cs_odd>>
    BY <1>9 DEF CsClose, csRegs
  <2>2. CsSilenced("open") = {} /\ CsSilenced("RxCFG") = {} /\ CsMissed' = CsMissed /\ CsOn' = CsOn
    BY <2>1 DEF CsSilenced, CsMissed, CsOn
  <2>. QED BY <2>1, <2>2 DEF CsClaimsInv, CsClaimed, CsShut
<1>10. CASE CsCloseNumber
  <2>1. /\ cs_pc.at \in CsCfgs /\ cs_pc'.at = cs_pc.at /\ cs_addr' = cs_pc.at
        /\ UNCHANGED <<cs_claimed, cs_regs, cs_dma, cs_odd>>
    BY <1>0, <1>10 DEF CsCloseNumber
  <2>2. cs_pc.at \notin CsShut /\ CsMissed' = CsMissed /\ CsOn' = CsOn
    BY <2>1 DEF CsShut, CsMissed, CsOn, CsCfgs, CsAsks
  <2>. QED BY <2>1, <2>2 DEF CsClaimsInv, CsClaimed
<1>11. CASE CsCloseValue
  <2>1. /\ cs_pc.at \in CsCfgs /\ cs_pc.data /\ cs_pc'.at = CsCloseNext[cs_pc.at] /\ ~ cs_pc'.data
        /\ cs_regs' = cs_regs \ CsBits(cs_addr) /\ UNCHANGED <<cs_claimed, cs_dma>>
        /\ cs_odd' = IF cs_addr # cs_pc.at THEN cs_odd \cup {cs_pc.at} ELSE cs_odd
    BY <1>11 DEF CsCloseValue
  <2>2. /\ cs_pc.at \notin CsShut /\ cs_pc'.at \notin CsShut /\ cs_pc.at \notin CsSilenced(cs_pc.at)
        /\ CsSilenced(cs_pc'.at) = CsSilenced(cs_pc.at) \cup {cs_pc.at}
    <3>1. CASE cs_pc.at = "RxCFG"
      BY <2>1, <3>1 DEF CsCloseNext, CsSilenced, CsShut
    <3>2. CASE cs_pc.at = "TxCFG"
      BY <2>1, <3>2 DEF CsCloseNext, CsSilenced, CsShut
    <3>3. CASE cs_pc.at = "BufCFG"
      BY <2>1, <3>3 DEF CsCloseNext, CsSilenced, CsShut
    <3>4. CASE cs_pc.at = "BusCTL"
      BY <2>1, <3>4 DEF CsCloseNext, CsSilenced, CsShut, CsCfgs, CsAsks
    <3>. QED BY <2>1, <3>1, <3>2, <3>3, <3>4 DEF CsCfgs, CsAsks
  <2>3. CsOn' = CsOn /\ cs_addr \in {cs_pc.at, "DmaFrameCnt"}
    BY <2>1 DEF CsOn, CsClaimsInv
  <2>4. CsMissed' \subseteq CsSilenced(cs_pc'.at)
    BY <2>1, <2>2 DEF CsMissed, CsClaimsInv
  <2>5. cs_pc.at # "failed" /\ cs_pc'.at # "failed"
    BY <2>2 DEF CsShut
  <2>6. \A r \in CsCfgs : cs_regs \cap CsBits(r) =
          IF r \in CsSilenced(cs_pc.at) \ cs_odd THEN {} ELSE CsOn \cap CsBits(r)
    BY <2>5 DEF CsClaimsInv
  <2>7. CsBits("DmaFrameCnt") = {"DmaFrameCnt"} /\ \A r \in CsCfgs : "DmaFrameCnt" \notin CsBits(r)
    BY DEF CsBits, CsCfgs, CsAsks
  <2>8. \A r, q \in CsCfgs : r # q => CsBits(r) \cap CsBits(q) = {}
    BY DEF CsBits, CsCfgs, CsAsks
  <2>9. ASSUME NEW r \in CsCfgs
        PROVE  cs_regs' \cap CsBits(r) =
                 IF r \in CsSilenced(cs_pc'.at) \ cs_odd' THEN {} ELSE CsOn \cap CsBits(r)
    <3>1. cs_regs' \cap CsBits(r) = (cs_regs \cap CsBits(r)) \ CsBits(cs_addr)
      BY <2>1
    <3>2. CASE cs_addr = cs_pc.at /\ r = cs_pc.at
      <4>1. cs_regs' \cap CsBits(r) = {} /\ cs_odd' = cs_odd /\ r \in CsSilenced(cs_pc'.at)
        BY <2>1, <2>2, <3>1, <3>2
      <4>2. r \notin cs_odd
        BY <2>2, <3>2 DEF CsClaimsInv, CsMissed
      <4>. QED BY <4>1, <4>2
    <3>3. CASE cs_addr = cs_pc.at /\ r # cs_pc.at
      <4>1. cs_regs' \cap CsBits(r) = cs_regs \cap CsBits(r) /\ cs_odd' = cs_odd
        BY <2>1, <2>8, <3>1, <3>3
      <4>. QED BY <2>2, <2>6, <3>3, <4>1
    <3>4. CASE cs_addr # cs_pc.at
      <4>1. cs_addr = "DmaFrameCnt" /\ cs_odd' = cs_odd \cup {cs_pc.at}
        BY <2>1, <2>3, <3>4
      <4>2. cs_regs' \cap CsBits(r) = cs_regs \cap CsBits(r)
        BY <2>7, <3>1, <4>1
      <4>. QED BY <2>2, <2>6, <4>1, <4>2
    <3>. QED BY <3>2, <3>3, <3>4
  <2>. QED BY <2>1, <2>2, <2>3, <2>4, <2>9 DEF CsClaimsInv, CsClaimed
<1>12. CASE CsCloseFree
  <2>1. /\ cs_pc.at = "free" /\ cs_pc'.at = "closed" /\ cs_pc'.data = cs_pc.data
        /\ UNCHANGED <<cs_regs, cs_dma, cs_irq, cs_addr>> /\ ~ cs_irq
        /\ cs_claimed' = cs_claimed \ CsFreed
        /\ cs_odd' = IF cs_claimed' # {} THEN cs_odd \cup {"unfreed"} ELSE cs_odd
    BY <1>0, <1>12 DEF CsCloseFree, csRegs
  <2>2. CsSilenced("closed") = CsCfgs /\ CsSilenced("free") = CsCfgs
    BY DEF CsSilenced
  <2>3. CsOn' = CsOn /\ "irq" \notin cs_claimed' /\ \A r \in CsCfgs : r \in cs_odd' <=> r \in cs_odd
    BY <2>1 DEF CsOn, CsFreed, CsCfgs, CsAsks
  <2>4. ~ cs_pc.data
    BY <2>1 DEF CsClaimsInv, CsCfgs, CsAsks
  <2>6. CsMissed' \subseteq CsCfgs
    BY DEF CsMissed
  <2>. QED BY <2>1, <2>2, <2>3, <2>4, <2>6 DEF CsClaimsInv, CsShut
<1>. QED BY <1>2, <1>3, <1>4, <1>5, <1>6, <1>7, <1>8, <1>9, <1>10, <1>11, <1>12 DEF CsNext

(* The ring while it was not overrun: the frames that the card has counted *)
(* and those the handler still has to take are those that lie in it; a     *)
(* failed open leaves the card's count, with no handler to read it.        *)
CsRingInv ==
  /\ ~ cs_irq => cs_count = 0
  /\ cs_dma = "pio" => cs_count = 0 /\ cs_framecnt = 0
  /\ "over" \notin cs_odd => cs_whole
  /\ "over" \notin cs_odd /\ cs_dma # "pio" =>
       /\ cs_pc.at # "failed" => cs_count + cs_framecnt = Len(cs_due)
       /\ rx_dma_ptr \in Multiples /\ rx_dma_ptr \in 0 .. CsRing - 1
       /\ Laid(cs_ring, rx_dma_ptr, cs_dmaptr, cs_due)

(* Every step keeps the frames in the ring.                                *)
LEMMA CsRingNext == CsType /\ CsClaimsInv /\ CsRingInv /\ [CsNext]_csVars => CsRingInv'
<1>. SUFFICES ASSUME CsType, CsClaimsInv, CsRingInv, [CsNext]_csVars PROVE CsRingInv'
  OBVIOUS
<1>0. /\ cs_due \in Seq(CsFrames) /\ Len(cs_due) \in Nat /\ cs_count \in Nat /\ cs_framecnt \in Nat
      /\ cs_whole \in BOOLEAN
  BY DEF CsType
<1>1. ASSUME UNCHANGED <<cs_dma, csRx>>, cs_odd \subseteq cs_odd', cs_irq' = cs_irq \/ cs_count = 0,
             cs_pc.at = "failed" => cs_pc'.at = "failed"
      PROVE  CsRingInv'
  BY <1>1 DEF CsRingInv, csRx
<1>2. CASE UNCHANGED csVars
  BY <1>1, <1>2 DEF csVars
<1>3. CASE CsGrants \/ \E event \in {"sent", "underrun"} : CsSends(event)
  BY <1>1, <1>3 DEF CsGrants, CsSends
<1>4. ASSUME NEW len \in CsLens, CsArrive(len), "over" \notin cs_odd PROVE CsRingInv'
  <2>. DEFINE f == [no |-> cs_left.rx, len |-> len]
              at(a) == (a - cs_dmaptr + CsRing) % CsRing
  <2>1. f \in CsFrames
    BY DEF CsFrames, CsType
  <2>2. UNCHANGED <<cs_dma, cs_pc, cs_irq, rx_dma_ptr, cs_count, cs_whole>> /\ cs_due' = Append(cs_due, f)
    BY <1>4 DEF CsArrive
  <2>3. CASE cs_dma = "pio"
    <3>1. UNCHANGED <<cs_framecnt, cs_odd>>
      BY <1>4, <2>3 DEF CsArrive
    <3>. QED BY <2>2, <2>3, <3>1 DEF CsRingInv
  <2>4. CASE cs_dma # "pio"
    <3>1. /\ cs_ring' = [a \in 0 .. CsRing - 1 |->
                           IF at(a) < CsSize(f) THEN CsCell(f, at(a)) ELSE cs_ring[a]]
          /\ cs_dmaptr' = (cs_dmaptr + CsSize(f)) % CsRing /\ cs_framecnt' = cs_framecnt + 1
          /\ cs_odd' = IF CsOccupied + CsSize(f) > CsRing THEN cs_odd \cup {"over"} ELSE cs_odd
      BY <1>4, <2>4 DEF CsArrive
    <3>2. CASE "over" \in cs_odd'
      BY <2>2, <2>4, <3>2 DEF CsRingInv
    <3>3. CASE "over" \notin cs_odd'
      <4>1. /\ rx_dma_ptr \in Multiples /\ rx_dma_ptr \in 0 .. CsRing - 1
            /\ Laid(cs_ring, rx_dma_ptr, cs_dmaptr, cs_due) /\ cs_whole
            /\ cs_pc.at # "failed" => cs_count + cs_framecnt = Len(cs_due)
        BY <1>4, <2>4 DEF CsRingInv
      <4>2. /\ CsRing \in Nat /\ CsSize(f) \in Nat /\ CsOccupied \in Nat
        <5>1. PICK off \in Offsets(cs_due) : Placed(cs_ring, rx_dma_ptr, cs_dmaptr, cs_due, off)
          BY <4>1 DEF Laid
        <5>2. CsOccupied = off[Len(cs_due) + 1] /\ off[Len(cs_due) + 1] \in 0 .. CsRing
          BY <1>0, <4>1, <5>1, LaidOccupied DEF CsOccupied
        <5>. QED BY <2>1, <5>2, SizeType, FrameSize
      <4>3. CsOccupied + CsSize(f) <= CsRing
        <5>. HIDE DEF f
        <5>. QED BY <3>1, <3>3, <4>2
      <4>. HIDE DEF f
      <4>4. (IF cs_due = <<>> THEN 0 ELSE 1 + ((cs_dmaptr - rx_dma_ptr - 1 + CsRing) % CsRing)) + CsSize(f)
              <= CsRing
        BY <4>3 DEF CsOccupied
      <4>5. Laid(cs_ring', rx_dma_ptr, (cs_dmaptr + CsSize(f)) % CsRing, Append(cs_due, f))
        BY <1>0, <2>1, <3>1, <4>1, <4>4, LaidArrive
      <4>6. cs_pc.at # "failed" => cs_count + (cs_framecnt + 1) = Len(Append(cs_due, f))
        BY <1>0, <2>1, <4>1
      <4>7. cs_irq \/ cs_count = 0
        BY DEF CsRingInv
      <4>. QED BY <2>2, <2>4, <3>1, <4>1, <4>5, <4>6, <4>7 DEF CsRingInv
    <3>. QED BY <3>2, <3>3
  <2>. QED BY <2>3, <2>4
<1>5. CASE CsIrq \/ CsIrqEnd \/ CsTxEvent \/ CsXmit \/ CsTimeout
  BY <1>1, <1>5 DEF CsIrq, CsIrqEnd, CsTxEvent, CsXmit, CsTimeout, CsAtEvent, CsRingInv
<1>6. CASE CsBufEvent
  <2>1. /\ cs_irq /\ cs_count = 0
        /\ UNCHANGED <<cs_dma, cs_pc, cs_irq, rx_dma_ptr, cs_ring, cs_dmaptr, cs_due, cs_whole, cs_odd>>
        /\ \/ cs_count' = cs_framecnt /\ cs_framecnt' = 0
           \/ UNCHANGED <<cs_count, cs_framecnt>>
    BY <1>6 DEF CsBufEvent, CsAtEvent, CsReadCount
  <2>2. cs_count' + cs_framecnt' = cs_count + cs_framecnt
    BY <1>0, <2>1
  <2>3. cs_dma = "pio" => cs_count' = 0 /\ cs_framecnt' = 0
    BY <2>1 DEF CsRingInv
  <2>. QED BY <2>1, <2>2, <2>3 DEF CsRingInv
<1>7. ASSUME NEW passed \in BOOLEAN, CsRx(passed), "over" \notin cs_odd PROVE CsRingInv'
  <2>1. /\ cs_dma = "pio" /\ UNCHANGED <<cs_dma, cs_pc, cs_irq, cs_count, cs_framecnt, cs_odd>>
        /\ cs_whole' = (cs_whole /\ (passed => CsBytes(Head(cs_due)) = CsBytes(Head(cs_due))))
    BY <1>7 DEF CsRx, CsRxEvent, CsTaken
  <2>. QED BY <1>7, <2>1 DEF CsRingInv
<1>8. ASSUME NEW passed \in BOOLEAN, CsDmaRx(passed), "over" \notin cs_odd PROVE CsRingInv'
  <2>. DEFINE f == Head(cs_due) bp == CsPastHeader(rx_dma_ptr) rx1 == Wrap(rx_dma_ptr + CsSize(f))
  <2>1. /\ cs_irq /\ cs_count > 0 /\ cs_due' = Tail(cs_due)
        /\ cs_whole' = (cs_whole /\ (passed =>
             (IF rx_dma_ptr < CsRing /\ cs_ring[rx_dma_ptr] = <<f.no, 0>> THEN CsCopy(bp, f.len) ELSE <<>>)
               = CsBytes(f)))
        /\ rx_dma_ptr' = CsSkip(bp, f.len)
        /\ \/ cs_count = 1 /\ cs_count' = cs_framecnt /\ cs_framecnt' = 0
           \/ cs_count # 1 /\ cs_count' = cs_count - 1 /\ cs_framecnt' = cs_framecnt
        /\ UNCHANGED <<cs_dma, cs_pc, cs_irq, cs_ring, cs_dmaptr, cs_odd>>
    BY <1>8 DEF CsDmaRx, CsTaken, CsReadCount
  <2>2. cs_dma # "pio"
    BY <1>0, <2>1 DEF CsRingInv
  <2>3. /\ rx_dma_ptr \in Multiples /\ rx_dma_ptr \in 0 .. CsRing - 1
        /\ Laid(cs_ring, rx_dma_ptr, cs_dmaptr, cs_due) /\ cs_whole
        /\ cs_count + cs_framecnt = Len(cs_due)
    <3>1. cs_pc.at # "failed"
      BY <2>1 DEF CsClaimsInv, CsShut
    <3>. QED BY <1>8, <2>2, <3>1 DEF CsRingInv
  <2>4. Len(cs_due) > 0 /\ Len(cs_due) # 0
    BY <1>0, <2>1, <2>3
  <2>5. cs_due # <<>>
    BY <2>4
  <2>6. /\ f = cs_due[1] /\ f \in CsFrames /\ CsSize(f) <= CsRing
        /\ \A j \in 0 .. CsSize(f) - 1 : cs_ring[Wrap(rx_dma_ptr + j)] = CsCell(f, j)
    <3>1. /\ f = cs_due[1] /\ cs_due[1] \in CsFrames /\ CsSize(cs_due[1]) <= CsRing
          /\ \A j \in 0 .. CsSize(cs_due[1]) - 1 :
               cs_ring[Wrap(rx_dma_ptr + j)] = CsCell(cs_due[1], j)
      BY <1>0, <2>3, <2>5, LaidHead
    <3>. HIDE DEF f
    <3>. QED BY <3>1
  <2>7. Laid(cs_ring, rx1, cs_dmaptr, Tail(cs_due)) /\ rx1 \in 0 .. CsRing - 1
    BY <1>0, <2>3, <2>5, <2>6, LaidTail
  <2>. HIDE DEF f
  <2>8. /\ cs_ring[rx_dma_ptr] = <<f.no, 0>> /\ CsCopy(bp, f.len) = CsBytes(f)
        /\ CsSkip(bp, f.len) = rx1 /\ rx1 \in Multiples
    BY <2>3, <2>6, CopyWhole
  <2>. HIDE DEF bp, rx1
  <2>9. rx_dma_ptr < CsRing
    BY <2>3, SizeType
  <2>10. cs_whole'
    BY <2>1, <2>3, <2>8, <2>9
  <2>11. cs_count' + cs_framecnt' = Len(cs_due')
    <3>1. Len(Tail(cs_due)) = Len(cs_due) - 1
      BY <1>0, <2>5
    <3>2. cs_count + cs_framecnt = Len(cs_due) /\ cs_due' = Tail(cs_due)
          /\ \/ cs_count = 1 /\ cs_count' = cs_framecnt /\ cs_framecnt' = 0
             \/ cs_count # 1 /\ cs_count' = cs_count - 1 /\ cs_framecnt' = cs_framecnt
      BY <2>1, <2>3
    <3>. QED BY <1>0, <3>1, <3>2
  <2>. QED BY <2>1, <2>2, <2>7, <2>8, <2>10, <2>11 DEF CsRingInv
<1>9. ASSUME CsOpen, "over" \notin cs_odd PROVE CsRingInv'
  <2>1. /\ ~ cs_irq /\ UNCHANGED <<cs_dma, cs_irq, cs_count, cs_ring, cs_whole>> /\ "over" \notin cs_odd'
        /\ rx_dma_ptr' = 0 /\ cs_dmaptr' = 0
        /\ IF cs_dma = "pio" THEN UNCHANGED <<cs_due, cs_framecnt>> ELSE cs_due' = <<>> /\ cs_framecnt' = 0
    BY <1>9 DEF CsOpen, CsOpening
  <2>2. 0 \in Multiples /\ 0 \in 0 .. CsRing - 1
    <3>1. 0 = 0 * CsAlign /\ 0 \in 0 .. CsRing - 1
      BY SizeType
    <3>. QED BY <3>1 DEF Multiples
  <2>3. Laid(cs_ring', 0, 0, <<>>)
    BY <2>2, LaidEmpty
  <2>4. Len(<<>>) = 0 /\ 0 + 0 = 0
    OBVIOUS
  <2>. QED BY <1>9, <2>1, <2>2, <2>3, <2>4 DEF CsRingInv
<1>10. ASSUME NEW why \in CsFailures, CsOpenFails(why), "over" \notin cs_odd PROVE CsRingInv'
  <2>1. /\ ~ cs_irq /\ UNCHANGED <<cs_dma, cs_irq, cs_count, cs_framecnt, cs_ring, cs_whole>>
        /\ cs_odd \subseteq cs_odd' /\ cs_pc'.at = "failed"
    BY <1>10 DEF CsOpenFails, CsOpening, CsType
  <2>2. CASE UNCHANGED <<rx_dma_ptr, cs_dmaptr, cs_due>>
    BY <2>1, <2>2 DEF CsRingInv
  <2>3. CASE rx_dma_ptr' = 0 /\ cs_dmaptr' = 0 /\ cs_due' = <<>>
    <3>1. 0 \in Multiples /\ 0 \in 0 .. CsRing - 1
      <4>1. 0 = 0 * CsAlign /\ 0 \in 0 .. CsRing - 1
        BY SizeType
      <4>. QED BY <4>1 DEF Multiples
    <3>2. Laid(cs_ring', 0, 0, <<>>)
      BY <3>1, LaidEmpty
    <3>. QED BY <1>10, <2>1, <2>3, <3>1, <3>2 DEF CsRingInv
  <2>4. \/ UNCHANGED <<rx_dma_ptr, cs_dmaptr, cs_due>>
        \/ rx_dma_ptr' = 0 /\ cs_dmaptr' = 0 /\ cs_due' = <<>>
    BY <1>10 DEF CsOpenFails
  <2>. QED BY <2>2, <2>3, <2>4
<1>11. CASE CsClose \/ CsCloseNumber \/ CsCloseValue \/ CsCloseFree
  <2>1. UNCHANGED <<cs_dma, csRx, cs_irq>> /\ cs_odd \subseteq cs_odd'
    BY <1>11 DEF CsClose, CsCloseNumber, CsCloseValue, CsCloseFree
  <2>2. cs_pc.at # "failed"
    BY <1>11 DEF CsClose, CsCloseNumber, CsCloseValue, CsCloseFree, CsCfgs, CsAsks
  <2>. QED BY <1>1, <2>1, <2>2
<1>. QED BY <1>2, <1>3, <1>4, <1>5, <1>6, <1>7, <1>8, <1>9, <1>10, <1>11 DEF CsNext

(* What a card's driver keeps, for any ring, frames and memory: frames are *)
(* passed up whole and in order while the ring is not overrun, no queue    *)
(* waits for the watchdog, and what was claimed is given back.             *)
THEOREM CardKeptAlways == CsSpec => []CardKept
<1>1. CsInit => CsQueueInv /\ CsClaimsInv /\ CsRingInv
  <2>. SUFFICES ASSUME CsInit PROVE CsQueueInv /\ CsClaimsInv /\ CsRingInv
    OBVIOUS
  <2>1. /\ cs_pc.at = "closed" /\ ~ cs_pc.data /\ ~ cs_irq /\ cs_count = 0
        /\ cs_claimed = {} /\ cs_regs = {} /\ cs_odd = {}
        /\ cs_framecnt = 0 /\ cs_due = <<>> /\ rx_dma_ptr = 0 /\ cs_dmaptr = 0 /\ cs_whole
    BY DEF CsInit
  <2>2. CsQueueInv /\ CsClaimsInv
    BY <2>1 DEF CsQueueInv, CsQueueWoken, CsClaimsInv, CsSilenced, CsShut, CsMissed
  <2>3. 0 \in Multiples /\ 0 \in 0 .. CsRing - 1
    <3>1. 0 = 0 * CsAlign /\ 0 \in 0 .. CsRing - 1
      BY SizeType
    <3>. QED BY <3>1 DEF Multiples
  <2>4. Laid(cs_ring, 0, 0, <<>>)
    BY <2>3, LaidEmpty
  <2>5. Len(<<>>) = 0 /\ 0 + 0 = 0
    OBVIOUS
  <2>6. CsRingInv
    BY <2>1, <2>3, <2>4, <2>5 DEF CsRingInv
  <2>. QED BY <2>2, <2>6
<1>2. CsType /\ CsQueueInv /\ CsClaimsInv /\ CsRingInv /\ [CsNext]_csVars
        => (CsType /\ CsQueueInv /\ CsClaimsInv /\ CsRingInv)'
  BY CsTypeNext, CsQueueNext, CsClaimsNext, CsRingNext
<1>3. CsType /\ CsQueueInv /\ CsClaimsInv /\ CsRingInv => CardKept
  <2>. SUFFICES ASSUME CsType, CsQueueInv, CsClaimsInv, CsRingInv PROVE CardKept
    OBVIOUS
  <2>1. CsQueueWoken
    BY DEF CsQueueInv
  <2>2. CsClaimsKept
    <3>1. /\ cs_regs \subseteq CsAsks \cup {"ENABLE_IRQ", "MEMORY_ON"}
          /\ CsAsks \subseteq CsCfgs /\ "RxCFG" \in CsAsks /\ "BusCTL" \in CsCfgs \ CsAsks
          /\ CsAsks \subseteq CsOn /\ "ENABLE_IRQ" \in CsOn
          /\ "ENABLE_IRQ" \in CsBits("BusCTL") /\ \A r \in CsAsks : CsBits(r) = {r}
      BY DEF CsType, CsCfgs, CsAsks, CsOn, CsBits
    <3>2. ASSUME cs_pc.at \in CsShut PROVE cs_regs \cap CsAsks = CsMissed \cap CsAsks
      <4>1. CsSilenced(cs_pc.at) = CsCfgs
        BY <3>2 DEF CsShut, CsSilenced
      <4>2. \A r \in CsAsks : r \in cs_regs <=> r \in cs_odd
        BY <3>1, <4>1 DEF CsClaimsInv
      <4>. QED BY <3>1, <4>2 DEF CsMissed
    <3>3. ASSUME cs_pc.at = "closed" PROVE "ENABLE_IRQ" \in cs_regs <=> "BusCTL" \in CsMissed
      <4>1. CsSilenced(cs_pc.at) = CsCfgs
        BY <3>3 DEF CsSilenced
      <4>2. cs_regs \cap CsBits("BusCTL") = IF "BusCTL" \in CsCfgs \ cs_odd THEN {} ELSE CsOn \cap CsBits("BusCTL")
        BY <3>1, <3>3, <4>1 DEF CsClaimsInv
      <4>. QED BY <3>1, <4>2 DEF CsMissed
    <3>4. cs_pc.at \notin CsShut => CsClaimed
      BY DEF CsClaimsInv
    <3>5. cs_pc.at \in CsShut => cs_pc.at \in {"closed", "failed"} /\ ("unfreed" \notin cs_odd => cs_claimed = {})
      BY DEF CsClaimsInv, CsShut
    <3>6. cs_pc.at \in {"closed", "failed"} => cs_pc.at \in CsShut
      BY DEF CsShut
    <3>. QED BY <3>1, <3>2, <3>3, <3>4, <3>5, <3>6 DEF CsClaimed, CsClaimsKept
  <2>3. CsFramesWhole
    <3>1. ASSUME "over" \notin cs_odd, cs_dma # "pio", cs_due # <<>>
          PROVE  cs_ring[rx_dma_ptr] = <<Head(cs_due).no, 0>>
      <4>1. /\ rx_dma_ptr \in Multiples /\ rx_dma_ptr \in 0 .. CsRing - 1
            /\ Laid(cs_ring, rx_dma_ptr, cs_dmaptr, cs_due) /\ cs_due \in Seq(CsFrames)
        BY <3>1 DEF CsRingInv, CsType
      <4>2. /\ Head(cs_due) = cs_due[1] /\ cs_due[1] \in CsFrames /\ CsSize(cs_due[1]) <= CsRing
            /\ \A j \in 0 .. CsSize(cs_due[1]) - 1 :
                 cs_ring[Wrap(rx_dma_ptr + j)] = CsCell(cs_due[1], j)
        BY <3>1, <4>1, LaidHead
      <4>. QED BY <4>1, <4>2, CopyWhole
    <3>. QED BY <3>1 DEF CsFramesWhole, CsRingInv
  <2>. QED BY <2>1, <2>2, <2>3 DEF CardKept
<1>. QED BY <1>1, <1>2, <1>3, CsTypeInit, PTL DEF CsSpec
=============================================================================
