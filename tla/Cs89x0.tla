------------------------------- MODULE Cs89x0 -------------------------------
(***************************************************************************)
(* The CS89x0 network driver (code/16). The card receives frames into its  *)
(* own memory, or by DMA into a ring that the host follows; it sends one   *)
(* frame at a time and tells by events, which the handler reads until none *)
(* is left. One processor: the transmit function runs with interrupts off, *)
(* the handler alone; open holds interrupts back until it is done. Its     *)
(* registers are reached in two accesses, the number, then the value.      *)
(***************************************************************************)
EXTENDS Integers, Sequences

CONSTANTS
  CsDmas,       \* where the DMA channel comes from: "pio" (none), "module", "eeprom"
  CsRing,       \* bytes of the ring
  CsAlign,      \* bytes that frames are padded to, and bytes of a header: 4
  CsLens,       \* lengths of frames
  CsMem,        \* frames that the card's memory holds
  CsUnderruns,  \* underruns until it is told to begin no frame before all of it is uploaded: 6
  CsMaxFrames,  \* bound on the frames that arrive
  CsMaxOpens    \* bound on the calls of open

ASSUME Cs89x0Assumption ==
  /\ CsDmas \subseteq {"pio", "module", "eeprom"} /\ CsDmas # {}
  /\ CsAlign \in Nat \ {0} /\ CsRing \in {n * CsAlign : n \in 2 .. CsRing}
  /\ CsLens \subseteq Nat \ {0}
  /\ CsMem \in Nat \ {0} /\ CsUnderruns \in Nat /\ CsMaxFrames \in Nat /\ CsMaxOpens \in Nat

VARIABLES
  cs_dma,      \* lp->use_dma, lp->dma and lp->isa_config
  cs_pc,       \* "closed", "failed" (an open), "open", or what a close is at, and whether the
               \* number is written
  cs_stopped,  \* the transmit queue is stopped
  cs_claimed,  \* of "irq", "dma", and the pages of "dma_buff"
  rx_dma_ptr,  \* offset in the ring
  send_underrun,
  cs_irq,      \* the handler runs
  cs_count,    \* count, in the handler
  cs_regs,     \* the registers of the card that are not 0, and the bits of BusCTL
  cs_addr,     \* ADD_PORT
  cs_bid,      \* the card was asked for memory and has none yet
  cs_sending,
  cs_isq,      \* events that the handler has not read; those of the buffer are read at once
  cs_ring, cs_dmaptr, cs_framecnt,  \* the ring, and the card's place in it; PP_DmaFrameCnt
  cs_due,      \* frames that the card has and the driver has not taken
  cs_whole,    \* history: the frames passed up were those that arrived, in order
  cs_odd,      \* history: "over", "unfreed", see there, and the registers that the last close missed
  cs_left      \* arrivals and opens that are left

csRegs == <<cs_regs, cs_addr>>
csTx == <<cs_bid, cs_sending, send_underrun>>
csRx == <<rx_dma_ptr, cs_count, cs_ring, cs_dmaptr, cs_framecnt, cs_due, cs_whole>>
csVars == <<cs_dma, cs_pc, cs_stopped, cs_claimed, cs_irq, csRegs, csTx, cs_isq, csRx, cs_odd, cs_left>>

\* Each of three asks for events; BusCTL connects the card to the bus.  A card
\* without DMA has no memory on it.
CsAsks == {"RxCFG", "TxCFG", "BufCFG"}
CsCfgs == CsAsks \cup {"BusCTL"}
CsBits(reg) == IF reg = "BusCTL" THEN {"ENABLE_IRQ", "MEMORY_ON"} ELSE {reg}
CsOn == CsAsks \cup {"ENABLE_IRQ"} \cup (IF cs_dma = "pio" THEN {} ELSE {"MEMORY_ON"})
CsPadded(len) == ((len + CsAlign - 1) \div CsAlign) * CsAlign
CsSize(f) == CsAlign + CsPadded(f.len)
CsBytes(f) == [i \in 1 .. f.len |-> <<f.no, i>>]

CsInit ==
  /\ cs_dma \in CsDmas
  /\ cs_pc = [at |-> "closed", data |-> FALSE] /\ cs_stopped = TRUE
  /\ cs_claimed = {} /\ cs_regs = {} /\ cs_addr = "none"
  /\ rx_dma_ptr = 0 /\ send_underrun = 0 /\ cs_irq = FALSE /\ cs_count = 0
  /\ cs_bid = FALSE /\ cs_sending = FALSE /\ cs_isq = {}
  /\ cs_ring = [i \in 0 .. CsRing - 1 |-> <<0, 0>>] /\ cs_dmaptr = 0 /\ cs_framecnt = 0
  /\ cs_due = <<>> /\ cs_whole = TRUE /\ cs_odd = {}
  /\ cs_left = [rx |-> CsMaxFrames, opens |-> CsMaxOpens]

-----------------------------------------------------------------------------
(* The card, which raises an event only while its register asks for it.    *)
CsRaise(reg, event) == cs_isq \cup (IF reg \in cs_regs THEN {event} ELSE {})

(* External: the card has memory for a frame to be sent: only one is.      *)
CsReady == ~ cs_sending /\ (cs_dma = "pio" => Len(cs_due) < CsMem)
CsGrants ==
  /\ cs_bid /\ CsReady
  /\ cs_bid' = FALSE
  /\ cs_isq' = CsRaise("BufCFG", "ready")
  /\ UNCHANGED <<cs_dma, cs_pc, cs_stopped, cs_claimed, cs_irq, csRegs, cs_sending,
                 send_underrun, csRx, cs_odd, cs_left>>

(* External: a frame has gone out, well or not, or the card ran dry as it  *)
(* had begun before all of it was uploaded.                                *)
CsSends(event) ==
  /\ cs_sending
  /\ event = "underrun" => send_underrun < CsUnderruns
  /\ cs_sending' = FALSE
  /\ cs_isq' = CsRaise(IF event = "underrun" THEN "BufCFG" ELSE "TxCFG", event)
  /\ UNCHANGED <<cs_dma, cs_pc, cs_stopped, cs_claimed, cs_irq, csRegs, cs_bid,
                 send_underrun, csRx, cs_odd, cs_left>>

(* External: a frame arrives. RX_DMA_ONLY takes it to the ring, where the  *)
(* card does not know what the host has read.                              *)
CsOccupied ==
  IF cs_due = <<>> THEN 0
  ELSE 1 + ((cs_dmaptr - rx_dma_ptr - 1 + CsRing) % CsRing)
CsCell(f, i) == IF i < CsAlign THEN <<f.no, 0>> ELSE <<f.no, i - CsAlign + 1>>
CsArrive(len) ==
  LET f == [no |-> cs_left.rx, len |-> len]
      at(a) == (a - cs_dmaptr + CsRing) % CsRing
  IN  /\ cs_left.rx > 0 /\ "RxCFG" \in cs_regs /\ (cs_dma # "pio" => "MEMORY_ON" \in cs_regs)
      /\ cs_left' = [cs_left EXCEPT !.rx = @ - 1]
      /\ cs_due' = Append(cs_due, f)
      /\ IF cs_dma = "pio"
         THEN /\ Len(cs_due) + (IF cs_sending THEN 1 ELSE 0) < CsMem
              /\ UNCHANGED <<cs_ring, cs_dmaptr, cs_framecnt, cs_isq, cs_odd>>
         ELSE /\ cs_ring' = [a \in 0 .. CsRing - 1 |->
                               IF at(a) < CsSize(f) THEN CsCell(f, at(a)) ELSE cs_ring[a]]
              /\ cs_dmaptr' = (cs_dmaptr + CsSize(f)) % CsRing
              /\ cs_framecnt' = cs_framecnt + 1
              /\ cs_isq' = CsRaise("BufCFG", "dma")
              /\ cs_odd' = IF CsOccupied + CsSize(f) > CsRing THEN cs_odd \cup {"over"} ELSE cs_odd
      /\ UNCHANGED <<cs_dma, cs_pc, cs_stopped, cs_claimed, cs_irq, csRegs, csTx,
                     rx_dma_ptr, cs_count, cs_whole>>

-----------------------------------------------------------------------------
(* net_interrupt, an event at a time. Each receive event is for one frame. *)
CsBufEvents == {"ready", "underrun", "dma"}
CsRxEvent == cs_dma = "pio" /\ cs_due # <<>> /\ "RxCFG" \in cs_regs
CsIrq ==
  /\ ~ cs_irq /\ "irq" \in cs_claimed /\ "ENABLE_IRQ" \in cs_regs
  /\ cs_isq # {} \/ CsRxEvent
  /\ cs_irq' = TRUE
  /\ UNCHANGED <<cs_dma, cs_pc, cs_stopped, cs_claimed, csRegs, csTx, cs_isq, csRx, cs_odd, cs_left>>

CsAtEvent == cs_irq /\ cs_count = 0
CsIrqEnd ==
  /\ CsAtEvent /\ cs_isq = {} /\ ~ CsRxEvent
  /\ cs_irq' = FALSE
  /\ UNCHANGED <<cs_dma, cs_pc, cs_stopped, cs_claimed, csRegs, csTx, cs_isq, csRx, cs_odd, cs_left>>

CsTxEvent ==
  /\ CsAtEvent /\ "sent" \in cs_isq
  /\ cs_isq' = cs_isq \ {"sent"}
  /\ cs_stopped' = FALSE
  /\ UNCHANGED <<cs_dma, cs_pc, cs_claimed, cs_irq, csRegs, csTx, csRx, cs_odd, cs_left>>

CsWakes(events) == events \cap {"ready", "underrun"} # {}

(* PP_DmaFrameCnt is read, which clears it; the number stays in ADD_PORT.  *)
CsReadCount ==
  /\ cs_addr' = "DmaFrameCnt"
  /\ cs_count' = cs_framecnt /\ cs_framecnt' = 0

(* Of the buffer's events several may come at once.                        *)
CsBufEvent ==
  LET events == cs_isq \cap CsBufEvents
  IN  /\ CsAtEvent /\ events # {}
      /\ cs_isq' = cs_isq \ events
      /\ cs_stopped' = (cs_stopped /\ ~ CsWakes(events))
      /\ send_underrun' = IF "underrun" \in events THEN send_underrun + 1 ELSE send_underrun
      /\ IF "dma" \in events THEN CsReadCount ELSE UNCHANGED <<cs_addr, cs_count, cs_framecnt>>
      /\ UNCHANGED <<cs_dma, cs_pc, cs_claimed, cs_irq, cs_regs, cs_bid, cs_sending, rx_dma_ptr,
                     cs_ring, cs_dmaptr, cs_due, cs_whole, cs_odd, cs_left>>

(* A frame is passed up, or dropped as it is damaged or for want of memory. *)
CsTaken(f, passed, bytes) ==
  /\ cs_due' = Tail(cs_due)
  /\ cs_whole' = (cs_whole /\ (passed => bytes = CsBytes(f)))

(* net_rx; the card skips what is not read of a frame.                     *)
CsRx(passed) ==
  /\ CsAtEvent /\ CsRxEvent
  /\ CsTaken(Head(cs_due), passed, CsBytes(Head(cs_due)))
  /\ UNCHANGED <<cs_dma, cs_pc, cs_stopped, cs_claimed, cs_irq, csRegs, csTx, cs_isq,
                 rx_dma_ptr, cs_count, cs_ring, cs_dmaptr, cs_framecnt, cs_odd, cs_left>>

(* dma_rx. The header does not wrap, as it is no longer than the padding;  *)
(* the rest is copied in one piece or in two.                              *)
CsPastHeader(p) == p + CsAlign
(* Mutant: the padding of a frame is not skipped.                          *)
CsSkip_unpadded(bp, len) == (bp + len) % CsRing
CsSkip(bp, len) == LET p == bp + CsPadded(len) IN IF p >= CsRing THEN p - CsRing ELSE p
CsCopy(bp, len) ==
  IF bp + len > CsRing
  THEN LET semi_cnt == CsRing - bp
       IN  [i \in 1 .. semi_cnt |-> cs_ring[bp + i - 1]] \o
           [i \in 1 .. len - semi_cnt |-> cs_ring[i - 1]]
  ELSE [i \in 1 .. len |-> cs_ring[bp + i - 1]]

CsDmaRx(passed) ==
  LET f == Head(cs_due)
      bp == CsPastHeader(rx_dma_ptr)
      header == rx_dma_ptr < CsRing /\ cs_ring[rx_dma_ptr] = <<f.no, 0>>
  IN  /\ cs_irq /\ cs_count > 0
      /\ CsTaken(f, passed, IF header THEN CsCopy(bp, f.len) ELSE <<>>)
      /\ rx_dma_ptr' = CsSkip(bp, f.len)
      /\ IF cs_count = 1 THEN CsReadCount
         ELSE cs_count' = cs_count - 1 /\ UNCHANGED <<cs_addr, cs_framecnt>>
      /\ UNCHANGED <<cs_dma, cs_pc, cs_stopped, cs_claimed, cs_irq, cs_regs, csTx, cs_isq,
                     cs_ring, cs_dmaptr, cs_odd, cs_left>>

-----------------------------------------------------------------------------
(* net_send_packet, under the lock: refused when the card has no memory    *)
(* for the frame, whose bid stays with the card.                           *)
CsXmit ==
  /\ ~ cs_irq /\ cs_pc.at = "open" /\ ~ cs_stopped
  /\ cs_stopped' = TRUE
  /\ cs_bid' = ~ CsReady
  /\ cs_sending' = (cs_sending \/ CsReady)
  /\ UNCHANGED <<cs_dma, cs_pc, cs_claimed, cs_irq, csRegs, send_underrun, cs_isq, csRx, cs_odd, cs_left>>

(* net_timeout                                                             *)
CsTimeout ==
  /\ ~ cs_irq /\ cs_pc.at = "open" /\ cs_stopped
  /\ cs_stopped' = FALSE
  /\ UNCHANGED <<cs_dma, cs_pc, cs_claimed, cs_irq, csRegs, csTx, cs_isq, csRx, cs_odd, cs_left>>

(* net_open: the card, quiet until all is set, starts the ring anew.       *)
CsOpening ==
  /\ ~ cs_irq /\ cs_pc.at \in {"closed", "failed"} /\ cs_left.opens > 0
  /\ cs_left' = [cs_left EXCEPT !.opens = @ - 1]
  /\ UNCHANGED <<cs_dma, cs_irq, csTx, cs_isq, cs_count, cs_ring, cs_whole>>

CsOpen ==
  /\ CsOpening /\ "dma" \notin cs_claimed
  /\ cs_pc' = [cs_pc EXCEPT !.at = "open"] /\ cs_stopped' = FALSE
  /\ cs_claimed' = {"irq"} \cup (IF cs_dma = "pio" THEN {} ELSE {"dma", "dma_buff"})
  /\ cs_regs' = CsOn /\ cs_addr' = "BusCTL"
  /\ rx_dma_ptr' = 0 /\ cs_dmaptr' = 0
  /\ IF cs_dma = "pio" THEN UNCHANGED <<cs_due, cs_framecnt>> ELSE cs_due' = <<>> /\ cs_framecnt' = 0
  /\ cs_odd' = cs_odd \ CsCfgs

(* What a failing open leaves in BusCTL: interrupts are enabled before one *)
(* is requested, and only a search that finds none takes that back; while  *)
(* the medium is looked for the memory is on alone. An interrupt is        *)
(* searched for once in the code, here at any open.                        *)
CsFailures == {"none", "map", "request", "memory", "channel", "media"}
CsBusAfter(why) ==
  LET bus == cs_regs \ CsAsks
  IN  CASE why = "none"                   -> {{}}
        [] why = "map"                    -> {bus}
        [] why = "request"                -> {bus \cup {"ENABLE_IRQ"}}
        [] why \in {"memory", "channel"} -> {bus \cup {"ENABLE_IRQ"}, CsBits("BusCTL")}
        [] why = "media"                  -> {{"MEMORY_ON"}}

(* No interrupt, memory, channel or medium: release_irq gives back what    *)
(* was claimed, but for the DMA channel, which then cannot be had again.   *)
CsOpenFails(why) ==
  /\ CsOpening
  /\ why \in {"memory", "channel"} => cs_dma # "pio"
  /\ why = "media" => "dma" \notin cs_claimed
  /\ cs_pc' = [cs_pc EXCEPT !.at = "failed"]
  /\ cs_claimed' = CASE why \in {"none", "map", "request"} -> cs_claimed
                     [] why \in {"memory", "channel"}      -> cs_claimed \cap {"dma"}
                     [] why = "media" -> IF cs_dma = "pio" THEN {} ELSE {"dma"}
  /\ \E bus \in CsBusAfter(why) : cs_regs' = (cs_regs \cap CsAsks) \cup bus
  /\ cs_addr' = CASE why = "none" -> "BusCTL"
                   [] why = "map" -> cs_addr
                   [] why = "request" -> "ISAINT"
                   [] OTHER -> "LineCTL"
  /\ IF why = "media" /\ cs_dma # "pio"
     THEN rx_dma_ptr' = 0 /\ cs_dmaptr' = 0 /\ cs_due' = <<>>
     ELSE UNCHANGED <<rx_dma_ptr, cs_dmaptr, cs_due>>
  /\ cs_odd' = IF cs_claimed' # {} THEN cs_odd \cup {"unfreed"} ELSE cs_odd
  /\ UNCHANGED <<cs_stopped, cs_framecnt>>

(* net_close takes no lock: between the two accesses to a register the     *)
(* handler may leave another number in ADD_PORT.                           *)
CsClose ==
  /\ ~ cs_irq /\ cs_pc.at = "open"
  /\ cs_pc' = [at |-> "RxCFG", data |-> FALSE] /\ cs_stopped' = TRUE
  /\ UNCHANGED <<cs_dma, cs_claimed, cs_irq, csRegs, csTx, cs_isq, csRx, cs_odd, cs_left>>

CsCloseNext == [RxCFG |-> "TxCFG", TxCFG |-> "BufCFG", BufCFG |-> "BusCTL", BusCTL |-> "free"]
CsCloseNumber ==
  /\ ~ cs_irq /\ cs_pc.at \in CsCfgs /\ ~ cs_pc.data
  /\ cs_pc' = [cs_pc EXCEPT !.data = TRUE] /\ cs_addr' = cs_pc.at
  /\ UNCHANGED <<cs_dma, cs_stopped, cs_claimed, cs_irq, cs_regs, csTx, cs_isq, csRx, cs_odd, cs_left>>
CsCloseValue ==
  /\ ~ cs_irq /\ cs_pc.at \in CsCfgs /\ cs_pc.data
  /\ cs_pc' = [at |-> CsCloseNext[cs_pc.at], data |-> FALSE]
  /\ cs_regs' = cs_regs \ CsBits(cs_addr)
  /\ cs_odd' = IF cs_addr # cs_pc.at THEN cs_odd \cup {cs_pc.at} ELSE cs_odd
  /\ UNCHANGED <<cs_dma, cs_stopped, cs_claimed, cs_irq, cs_addr, csTx, cs_isq, csRx, cs_left>>

(* lp->dma is the channel the module was given; one that the EEPROM named  *)
(* is not given back.                                                      *)
CsFreed == IF cs_dma = "eeprom" THEN {"irq"} ELSE {"irq", "dma", "dma_buff"}
CsCloseFree ==
  /\ ~ cs_irq /\ cs_pc.at = "free"
  /\ cs_pc' = [cs_pc EXCEPT !.at = "closed"]
  /\ cs_claimed' = cs_claimed \ CsFreed
  /\ cs_odd' = IF cs_claimed' # {} THEN cs_odd \cup {"unfreed"} ELSE cs_odd
  /\ UNCHANGED <<cs_dma, cs_stopped, cs_irq, csRegs, csTx, cs_isq, csRx, cs_left>>

(* What the host reads of a ring that was overrun is beyond the model.     *)
CsNext ==
  /\ "over" \notin cs_odd
  /\ \/ CsGrants \/ \E event \in {"sent", "underrun"} : CsSends(event)
     \/ \E len \in CsLens : CsArrive(len)
     \/ CsIrq \/ CsIrqEnd \/ CsTxEvent \/ CsBufEvent
     \/ \E passed \in BOOLEAN : CsRx(passed) \/ CsDmaRx(passed)
     \/ CsXmit \/ CsTimeout
     \/ CsOpen \/ \E why \in CsFailures : CsOpenFails(why)
     \/ CsClose \/ CsCloseNumber \/ CsCloseValue \/ CsCloseFree

(* The card, the handler and a close go on; nobody has to send or to open. *)
CsFairness ==
  /\ WF_csVars("over" \notin cs_odd /\ CsGrants) /\ WF_csVars("over" \notin cs_odd /\ CsSends("sent"))
  /\ WF_csVars("over" \notin cs_odd /\
       (CsIrq \/ CsIrqEnd \/ CsTxEvent \/ CsBufEvent \/ \E passed \in BOOLEAN : CsRx(passed) \/ CsDmaRx(passed)))
CsSpec == CsInit /\ [][CsNext]_csVars /\ CsFairness

-----------------------------------------------------------------------------
(* Every frame that is passed up is the next that arrived, whole, wherever *)
(* the ring wraps, whichever was dropped before it, and however often the  *)
(* device was closed and opened; the host's place in the ring is that of   *)
(* the oldest frame it has not taken.                                      *)
CsFramesWhole ==
  "over" \notin cs_odd =>
    /\ cs_whole
    /\ cs_dma # "pio" /\ cs_due # <<>> => cs_ring[rx_dma_ptr] = <<Head(cs_due).no, 0>>

(* The queue is stopped only while the card owes an event that wakes it:   *)
(* no frame waits for the watchdog, also after one was refused, or timed   *)
(* out and came through all the same.                                      *)
CsQueueWoken ==
  cs_pc.at = "open" /\ cs_stopped =>
    cs_sending \/ cs_bid \/ cs_isq \cap {"sent", "ready", "underrun"} # {}

(* The card reaches the ring only while its pages and channel are the      *)
(* driver's, and its interrupts have a handler - unless the handler came   *)
(* between the two accesses of a close's write: then the register that the *)
(* write missed, and no other, stays as it was, until an open succeeds. A  *)
(* failed open leaves no more than BusCTL written, whatever it failed for  *)
(* and however often. All claims are given back, unless a medium was       *)
(* missing or the EEPROM named the channel.                                *)
CsMissed == cs_odd \cap CsCfgs
CsClaimsKept ==
  /\ "ENABLE_IRQ" \in cs_regs /\ cs_regs \cap CsAsks # {} /\ "irq" \notin cs_claimed =>
       CsMissed \cap CsAsks # {} /\ (cs_pc.at = "failed" \/ "BusCTL" \in CsMissed)
  /\ cs_dma # "pio" /\ {"RxCFG", "MEMORY_ON"} \subseteq cs_regs =>
       {"dma", "dma_buff"} \subseteq cs_claimed \/ "RxCFG" \in CsMissed
  /\ cs_pc.at \in {"closed", "failed"} =>
       /\ cs_regs \cap CsAsks = CsMissed \cap CsAsks
       /\ "unfreed" \notin cs_odd => cs_claimed = {}
  /\ cs_pc.at = "closed" => ("ENABLE_IRQ" \in cs_regs <=> "BusCTL" \in CsMissed)

(* What a card's driver keeps: its frames, its queue and its claims.       *)
CardKept == CsFramesWhole /\ CsQueueWoken /\ CsClaimsKept

(* A frame that arrived is taken, and one that was sent, or refused, makes *)
(* room for the next: always again none waits and the queue runs.          *)
CsFramesGoOn ==
  /\ []<>(cs_due = <<>> \/ cs_pc.at # "open" \/ cs_odd # {})
  /\ []<>(~ cs_stopped \/ cs_pc.at # "open" \/ cs_odd # {})
=============================================================================
