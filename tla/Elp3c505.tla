------------------------------ MODULE Elp3c505 ------------------------------
(***************************************************************************)
(* The 3c505 network driver (code/11, the example for DMA). Host and card  *)
(* talk in command blocks (PCBs); frames go over one DMA channel for both  *)
(* directions. One processor: the transmit function runs with interrupts   *)
(* off, the handler alone, a caller of elp_get_stats between both. The     *)
(* card acknowledges all that it takes, and what it refuses is not done.   *)
(***************************************************************************)
EXTENDS Integers, Sequences, FiniteSets

CONSTANTS
  ELP_RX_PCBS,   \* receive commands the driver keeps on the card
  BACKLOG_SIZE,  \* the ring of announced frames holds one less
  ElMaxEvents,   \* bound on the frames that arrive and the calls of elp_get_stats
  ElTxFrames     \* bound on the frames to send

ASSUME ElpAssumption ==
  /\ ELP_RX_PCBS \in Nat \ {0} /\ BACKLOG_SIZE \in Nat \ {0, 1}
  /\ ElMaxEvents \in Nat /\ ElTxFrames \in Nat

VARIABLES
  adapter,     \* busy, dmaing, dir and skb (current_dma), rx_active, backlog; sem: whose block is on its way
  tx_pcb,      \* whose command is in the shared block: "stats", "xmit"
  el_irq,      \* the handler: "no", "top" of its loop, "pcb"
  el_pc,       \* elp_get_stats: "user", "filled", "sending", "acking", "waiting"
  el_running, el_stopped, \* netif_running, netif_queue_stopped
  el_card,     \* the card; want: the transfers it waits for, out: PCBs for the host
  el_armed,    \* the DMA that is enabled: "no", "up", "down"
  el_left,     \* what is left of the bounds, and the number of the last frame
  el_arrived, el_delivered, \* history: frames announced by the card, passed up
  el_sent, el_freed,        \* history: frames fetched by the card, given back
  el_odd       \* history: what went wrong; at most one thing, and a mix-up of commands

elHistory == <<el_arrived, el_delivered, el_sent, el_freed>>
elVars == <<adapter, tx_pcb, el_irq, el_pc, el_running, el_stopped, el_card,
            el_armed, el_left, elHistory, el_odd>>
elStack == <<el_running, el_stopped>>

(* elp_open: the reset posts a receive command that rx_active does not     *)
(* count, prime_rx the others.                                             *)
ElOpened ==
  [busy |-> FALSE, dmaing |-> FALSE, dir |-> "up", skb |-> 0,
   rx_active |-> ELP_RX_PCBS, backlog |-> <<>>, sem |-> "no"]
ElCardReset ==
  [rx |-> ELP_RX_PCBS + 1, want |-> <<>>, out |-> <<>>, done |-> FALSE, air |-> 0]

ElInit ==
  /\ adapter = ElOpened /\ tx_pcb = "stats"
  /\ el_irq = "no" /\ el_pc = "user"
  /\ el_running \in BOOLEAN /\ el_stopped = FALSE
  /\ el_card = ElCardReset /\ el_armed = "no"
  /\ el_left = [events |-> ElMaxEvents, tx |-> ElTxFrames, open |-> el_running]
  /\ el_arrived = <<>> /\ el_delivered = <<>> /\ el_sent = <<>> /\ el_freed = <<>>
  /\ el_odd = {}

-----------------------------------------------------------------------------
(* External: the card. A frame arrives, whole or not; the enabled transfer *)
(* takes place if it is the one the card waits for; a frame has been sent. *)
ElArrive(kind) ==
  /\ el_card.rx > 0 /\ el_left.events > 0 /\ el_left.open
  /\ el_card' = [el_card EXCEPT !.rx = @ - 1,
                                !.out = Append(@, [cmd |-> kind, frame |-> el_left.events])]
  /\ el_left' = [el_left EXCEPT !.events = @ - 1]
  /\ IF kind = "rxbad"
     THEN el_odd = {} /\ el_odd' = {"bad"} /\ UNCHANGED el_arrived
     ELSE el_arrived' = Append(el_arrived, el_left.events) /\ UNCHANGED el_odd
  /\ UNCHANGED <<adapter, tx_pcb, el_irq, el_pc, elStack, el_armed, el_delivered, el_sent, el_freed>>

ElTransfer ==
  /\ el_armed # "no" /\ ~ el_card.done
  /\ el_card.want # <<>> /\ Head(el_card.want).dir = el_armed
  /\ LET frame == Head(el_card.want).frame
     IN  /\ el_card' = [el_card EXCEPT !.done = TRUE, !.want = Tail(@),
                                       !.air = @ + (IF el_armed = "down" THEN 1 ELSE 0)]
         /\ el_sent' = IF el_armed = "down" THEN Append(el_sent, adapter.skb) ELSE el_sent
         /\ adapter' = IF el_armed = "up" THEN [adapter EXCEPT !.skb = frame] ELSE adapter
  /\ UNCHANGED <<tx_pcb, el_irq, el_pc, elStack, el_armed, el_left,
                 el_arrived, el_delivered, el_freed, el_odd>>

ElAired ==
  /\ el_card.air > 0 /\ el_left.open
  /\ el_card' = [el_card EXCEPT !.air = @ - 1, !.out = Append(@, [cmd |-> "txdone", frame |-> 0])]
  /\ UNCHANGED <<adapter, tx_pcb, el_irq, el_pc, elStack, el_armed, el_left,
                 elHistory, el_odd>>

-----------------------------------------------------------------------------
(* check_3c505_dma finds all well, or that 10 ticks have passed: everybody *)
(* but the card forgets the transfer.                                      *)
ElChecked ==
  {[a |-> adapter, armed |-> el_armed, odd |-> el_odd]} \cup
  IF adapter.dmaing /\ el_odd = {}
  THEN {[a |-> [adapter EXCEPT !.dmaing = FALSE, !.busy = FALSE,
                               !.rx_active = IF @ > 0 THEN @ - 1 ELSE 0],
         armed |-> "no", odd |-> el_odd \cup {"timeout"}]}
  ELSE {}

(* send_pcb refuses while a frame comes in or another block is on its way. *)
ElMaySend(a) == ~ (a.dmaing /\ a.dir = "up") /\ a.sem = "no"

(* prime_rx: receive commands until the card refuses one.                  *)
ElPrimed(a) ==
  IF ElMaySend(a) /\ el_running /\ a.rx_active < ELP_RX_PCBS
  THEN 0 .. ELP_RX_PCBS - a.rx_active ELSE {0}

(* Mutant: the receive command that was used up is not counted off.        *)
ElReceived_uncounted(a) == [a EXCEPT !.dmaing = TRUE, !.dir = "up", !.skb = 0]
(* receive_packet: the transfer of the next announced frame.               *)
ElReceived(a) ==
  [a EXCEPT !.dmaing = TRUE, !.dir = "up", !.skb = 0,
            !.rx_active = IF @ > 0 THEN @ - 1 ELSE 0]

(* receive_packet as a step, which may find no memory for the frame.       *)
ElReceivePacket(a) ==
  \/ /\ adapter' = ElReceived(a) /\ el_armed' = "up" /\ UNCHANGED el_odd
  \/ /\ adapter' = a /\ el_armed' = "no"
     /\ el_odd = {} /\ el_odd' = {"squeeze"}

-----------------------------------------------------------------------------
(* elp_interrupt, with the loop of its turns.                              *)
ElInterrupt ==
  /\ el_irq = "no" /\ el_left.open
  /\ el_card.done \/ el_card.out # <<>>
  /\ el_irq' = "top"
  /\ UNCHANGED <<adapter, tx_pcb, el_pc, elStack, el_card, el_armed, el_left,
                 elHistory, el_odd>>

(* Mutant: the adapter is free after a transfer, whatever was announced.   *)
ElNextFrame_free(a) ==
  /\ adapter' = [a EXCEPT !.busy = FALSE] /\ el_armed' = "no" /\ UNCHANGED el_odd
(* After a transfer comes the next frame of the backlog.                   *)
ElNextFrame(a) ==
  IF a.backlog # <<>> THEN ElReceivePacket([a EXCEPT !.backlog = Tail(@)])
  ELSE /\ adapter' = [a EXCEPT !.busy = FALSE] /\ el_armed' = "no" /\ UNCHANGED el_odd

(* A transfer has finished: the frame goes to who waits for it.            *)
ElDmaDone ==
  /\ el_irq = "top" /\ el_card.done
  /\ el_card' = [el_card EXCEPT !.done = FALSE]
  /\ IF adapter.dir = "down"
     THEN el_freed' = Append(el_freed, adapter.skb) /\ UNCHANGED el_delivered
     ELSE el_delivered' = Append(el_delivered, adapter.skb) /\ UNCHANGED el_freed
  /\ ElNextFrame([adapter EXCEPT !.dmaing = FALSE])
  /\ el_irq' = "pcb"
  /\ UNCHANGED <<tx_pcb, el_pc, elStack, el_left, el_arrived, el_sent>>

ElDmaCheck ==
  /\ el_irq = "top" /\ ~ el_card.done
  /\ \E c \in ElChecked : adapter' = c.a /\ el_armed' = c.armed /\ el_odd' = c.odd
  /\ el_irq' = "pcb"
  /\ UNCHANGED <<tx_pcb, el_pc, elStack, el_card, el_left, elHistory>>

(* A frame was announced. A free adapter fetches it at once; a busy one    *)
(* notes it, and refuses it if the backlog is full: the card announces it  *)
(* again. Of a damaged frame nothing is left to fetch, and while the       *)
(* device goes down it stays where it is; the adapter is busy all the same.*)
ElAck(pcb) ==
  [el_card EXCEPT !.out = Tail(@),
                  !.want = IF pcb.cmd = "rxbad" THEN @
                           ELSE Append(@, [dir |-> "up", frame |-> pcb.frame])]
ElFull(a) == Len(a.backlog) = BACKLOG_SIZE - 1
(* Mutant: a busy adapter fetches the frame as well.                       *)
ElAnnounced_busy(pcb) == ElReceivePacket([adapter EXCEPT !.busy = TRUE])
ElAnnounced(pcb) ==
  IF adapter.busy
  THEN /\ adapter' = [adapter EXCEPT !.backlog = Append(@, pcb.frame)]
       /\ UNCHANGED <<el_armed, el_odd>>
  ELSE ElReceivePacket([adapter EXCEPT !.busy = TRUE])

ElRxPcb ==
  /\ el_irq = "pcb" /\ el_card.out # <<>>
  /\ LET pcb == Head(el_card.out)
     IN  /\ pcb.cmd \in {"rxdone", "rxbad"}
         /\ \/ /\ adapter.busy /\ ElFull(adapter)
               /\ UNCHANGED <<adapter, el_card, el_armed, el_odd>>
            \/ /\ ~ (adapter.busy /\ ElFull(adapter))
               /\ el_card' = ElAck(pcb)
               /\ IF el_running /\ pcb.cmd = "rxdone" THEN ElAnnounced(pcb)
                  ELSE /\ adapter' = [adapter EXCEPT !.busy = TRUE]
                       /\ UNCHANGED <<el_armed, el_odd>>
  /\ UNCHANGED <<tx_pcb, el_irq, el_pc, elStack, el_left, elHistory>>

(* The other blocks: a frame was sent, the statistics are there.           *)
ElOtherPcb ==
  /\ el_irq = "pcb" /\ el_card.out # <<>>
  /\ LET cmd == Head(el_card.out).cmd
     IN  /\ cmd \in {"txdone", "stats"}
         /\ el_stopped' = (el_stopped /\ ~ (cmd = "txdone" /\ el_running))
  /\ el_card' = [el_card EXCEPT !.out = Tail(@)]
  /\ UNCHANGED <<adapter, tx_pcb, el_irq, el_pc, el_running, el_armed, el_left,
                 elHistory, el_odd>>

(* When no block is left, or only one that was refused: another turn, or   *)
(* the end, also after six turns.                                          *)
ElServed ==
  el_card.out # <<>> => Head(el_card.out).cmd \in {"rxdone", "rxbad"} /\ adapter.busy /\ ElFull(adapter)
ElTurn ==
  /\ el_irq = "pcb" /\ ElServed /\ el_card.done
  /\ el_irq' = "top"
  /\ UNCHANGED <<adapter, tx_pcb, el_pc, elStack, el_card, el_armed, el_left,
                 elHistory, el_odd>>
ElIrqEnd ==
  /\ el_irq = "pcb" /\ ElServed
  /\ el_irq' = "no"
  /\ \E k \in ElPrimed(adapter) :
       /\ adapter' = [adapter EXCEPT !.rx_active = @ + k]
       /\ el_card' = [el_card EXCEPT !.rx = @ + k]
  /\ UNCHANGED <<tx_pcb, el_pc, elStack, el_armed, el_left, elHistory, el_odd>>

-----------------------------------------------------------------------------
(* elp_start_xmit, which the kernel calls while the queue runs, also when  *)
(* the interrupt came in the middle of elp_get_stats: both use tx_pcb.     *)

(* Mutant: a command that was refused leaves the adapter busy.             *)
ElRefused_busy(a) == [a EXCEPT !.busy = TRUE]
ElRefused(a) == [a EXCEPT !.busy = FALSE]
ElMixed == IF el_pc \in {"filled", "sending"} THEN {"mixed"} ELSE {}

(* send_packet finds the adapter busy, or its command is refused: the      *)
(* queue stays stopped.                                                    *)
ElXmitBusy(a) ==
  /\ a.busy
  /\ adapter' = a /\ el_stopped' = TRUE
  /\ UNCHANGED <<tx_pcb, el_card, el_left>>
ElXmitRefused(a) ==
  /\ ~ a.busy
  /\ adapter' = ElRefused(a) /\ el_stopped' = TRUE
  /\ tx_pcb' = "xmit"
  /\ UNCHANGED <<el_card, el_left>>

(* The command is taken, the transfer set up; prime_rx follows.            *)
ElXmitTaken(a) ==
  /\ ~ a.busy /\ ElMaySend(a)
  /\ tx_pcb' = "xmit"
  /\ LET b == [a EXCEPT !.busy = TRUE, !.dmaing = TRUE, !.dir = "down", !.skb = el_left.tx]
     IN  \E k \in ElPrimed(b) :
           /\ adapter' = [b EXCEPT !.rx_active = @ + k]
           /\ el_card' = [el_card EXCEPT !.rx = @ + k,
                                         !.want = Append(@, [dir |-> "down", frame |-> el_left.tx])]
  /\ el_left' = [el_left EXCEPT !.tx = @ - 1]
  /\ el_stopped' = FALSE

ElXmit ==
  /\ el_running /\ ~ el_stopped /\ el_irq = "no" /\ el_left.tx > 0 /\ el_left.open
  /\ \E c \in ElChecked :
       /\ \/ (ElXmitBusy(c.a) \/ ElXmitRefused(c.a)) /\ el_armed' = c.armed
          \/ ElXmitTaken(c.a) /\ el_armed' = "down"
       /\ el_odd' = c.odd \cup IF tx_pcb' # tx_pcb THEN ElMixed ELSE {}
  /\ UNCHANGED <<el_irq, el_pc, el_running, elHistory>>

(* elp_timeout: the kernel has seen the queue stopped for too long.        *)
ElTimeout ==
  /\ el_running /\ el_stopped /\ el_irq = "no"
  /\ el_stopped' = FALSE
  /\ UNCHANGED <<adapter, tx_pcb, el_irq, el_pc, el_running, el_card, el_armed,
                 el_left, elHistory, el_odd>>

-----------------------------------------------------------------------------
(* elp_get_stats and its send_pcb, with interrupts on while it waits for   *)
(* the first byte, for the acknowledge and for the answer.                 *)
ElStats ==
  /\ el_pc = "user" /\ el_irq = "no" /\ el_running /\ el_left.events > 0
  /\ el_left' = [el_left EXCEPT !.events = @ - 1]
  /\ tx_pcb' = "stats"
  /\ el_pc' = "filled"
  /\ UNCHANGED <<adapter, el_irq, elStack, el_card, el_armed, elHistory, el_odd>>

(* One block is on its way already, or a frame comes in; or the first byte *)
(* goes out.                                                               *)
ElSendFirst ==
  /\ el_pc = "filled" /\ el_irq = "no"
  /\ \E c \in ElChecked :
       /\ IF ElMaySend(c.a)
          THEN adapter' = [c.a EXCEPT !.sem = tx_pcb] /\ el_pc' = "sending"
          ELSE adapter' = c.a /\ el_pc' = "user"
       /\ el_armed' = c.armed /\ el_odd' = c.odd
  /\ UNCHANGED <<tx_pcb, el_irq, elStack, el_card, el_left, elHistory>>

(* The command that began so is taken.                                     *)
ElSendRest ==
  /\ el_pc = "sending" /\ el_irq = "no"
  /\ el_card' = IF adapter.sem = "stats"
                THEN [el_card EXCEPT !.out = Append(@, [cmd |-> "stats", frame |-> 0])]
                ELSE [el_card EXCEPT !.want = Append(@, [dir |-> "down", frame |-> 0])]
  /\ el_pc' = "acking"
  /\ UNCHANGED <<adapter, tx_pcb, el_irq, elStack, el_armed, el_left, elHistory, el_odd>>

(* It is refused, or its acknowledge has come.                             *)
ElSendEnd ==
  /\ el_pc \in {"sending", "acking"} /\ el_irq = "no"
  /\ el_pc' = IF el_pc = "acking" THEN "waiting" ELSE "user"
  /\ adapter' = [adapter EXCEPT !.sem = "no"]
  /\ UNCHANGED <<tx_pcb, el_irq, elStack, el_card, el_armed, el_left, elHistory, el_odd>>

(* The answer, or the time for it has passed.                              *)
ElStatsEnd ==
  /\ el_pc = "waiting" /\ el_irq = "no"
  /\ el_pc' = "user"
  /\ UNCHANGED <<adapter, tx_pcb, el_irq, elStack, el_card, el_armed, el_left,
                 elHistory, el_odd>>

-----------------------------------------------------------------------------
(* The kernel takes the device down and calls elp_close, which takes the   *)
(* card off the bus; elp_open starts afresh.                               *)
ElDown ==
  /\ el_running /\ el_irq = "no"
  /\ el_running' = FALSE
  /\ UNCHANGED <<adapter, tx_pcb, el_irq, el_pc, el_stopped, el_card, el_armed,
                 el_left, elHistory, el_odd>>

ElClose ==
  /\ ~ el_running /\ el_left.open /\ el_irq = "no" /\ el_pc = "user"
  /\ el_stopped' = TRUE /\ el_armed' = "no"
  /\ el_left' = [el_left EXCEPT !.open = FALSE]
  /\ UNCHANGED <<adapter, tx_pcb, el_irq, el_pc, el_running, el_card, elHistory, el_odd>>

ElOpen ==
  /\ ~ el_left.open
  /\ adapter' = ElOpened /\ el_card' = ElCardReset /\ el_armed' = "no"
  /\ tx_pcb' = "stats"
  /\ el_running' = TRUE /\ el_stopped' = FALSE
  /\ el_left' = [el_left EXCEPT !.open = TRUE]
  /\ el_arrived' = <<>> /\ el_delivered' = <<>> /\ el_sent' = <<>> /\ el_freed' = <<>>
  /\ el_odd' = {}
  /\ UNCHANGED <<el_irq, el_pc>>

ElNext ==
  \/ ElArrive("rxdone") \/ ElArrive("rxbad") \/ ElTransfer \/ ElAired
  \/ ElInterrupt \/ ElDmaDone \/ ElDmaCheck \/ ElRxPcb \/ ElOtherPcb \/ ElTurn \/ ElIrqEnd
  \/ ElXmit \/ ElTimeout
  \/ ElStats \/ ElSendFirst \/ ElSendRest \/ ElSendEnd \/ ElStatsEnd
  \/ ElDown \/ ElClose \/ ElOpen

(* The card moves and sends its frames, the handler and the callers get    *)
(* on, the kernel tries again, and the card does not refuse for ever.      *)
ElSends == ElXmit /\ el_left'.tx < el_left.tx
ElCardFairness ==
  /\ WF_elVars(ElTransfer) /\ WF_elVars(ElAired)
  /\ WF_elVars(ElInterrupt \/ ElDmaDone \/ ElDmaCheck \/ ElRxPcb \/ ElOtherPcb \/ ElTurn \/ ElIrqEnd)
  /\ WF_elVars(ElSendFirst \/ ElSendEnd \/ ElStatsEnd) /\ WF_elVars(ElTimeout)
ElFairness == ElCardFairness /\ SF_elVars(ElSends)
ElSpec == ElInit /\ [][ElNext]_elVars /\ ElFairness

-----------------------------------------------------------------------------
(* The places of the transfers to the host and of the announced frames in  *)
(* the card's sequences, and the frame that has been transferred.          *)
ElWanted == {i \in DOMAIN el_card.want : el_card.want[i].dir = "up"}
ElComing == {i \in DOMAIN el_card.out : el_card.out[i].cmd = "rxdone"}
ElDone(dir) == IF el_card.done /\ adapter.dir = dir THEN <<adapter.skb>> ELSE <<>>

(* What s has at these places arrived after n others, in the same order.   *)
ElFollow(n, s, places) ==
  \A i \in places : el_arrived[n + Cardinality({j \in places : j <= i})] = s[i].frame

(* Every frame the card took up is passed on, once and in order, and every *)
(* frame that was sent is given back once: through backlogs, refusals and  *)
(* whoever else talks to the card. (While the device is up.)               *)
ElFramesKept ==
  el_odd = {} /\ el_running =>
    /\ LET taken == el_delivered \o ElDone("up")
           known == Len(taken) + Cardinality(ElWanted)
       IN  /\ Len(el_arrived) = known + Cardinality(ElComing)
           /\ \A i \in DOMAIN taken : el_arrived[i] = taken[i]
           /\ ElFollow(Len(taken), el_card.want, ElWanted)
           /\ ElFollow(known, el_card.out, ElComing)
    /\ el_sent = el_freed \o ElDone("down")

(* The DMA channel is set up for the transfer the card waits for, the      *)
(* adapter is busy while it is and no longer, and what was announced       *)
(* meanwhile has a transfer before it that will fetch it when it is done.  *)
ElChannelOwned ==
  /\ el_odd \cap {"timeout", "mixed"} = {} /\ el_armed # "no" /\ ~ el_card.done =>
       el_card.want # <<>> /\ Head(el_card.want).dir = el_armed
  /\ el_odd = {} /\ el_running =>
       /\ adapter.busy = adapter.dmaing /\ adapter.dmaing = (el_armed # "no")
       /\ adapter.backlog # <<>> => adapter.dmaing

(* The driver never counts more receive commands than the card has, or the *)
(* receiver would run dry, nor fewer than that less the one of the reset.  *)
ElReceivesCounted ==
  el_odd \subseteq {"mixed"} /\ el_running =>
    el_card.rx + Cardinality(ElComing) + Len(adapter.backlog) - adapter.rx_active \in {0, 1}

(* A frame that was announced is passed up, and one to be sent is sent:    *)
(* always again there is none.                                             *)
ElFramesGoOn ==
  /\ []<>(el_arrived = el_delivered \/ el_odd # {} \/ ~ el_running)
  /\ []<>(el_left.tx = 0 \/ el_odd # {} \/ ~ el_running)
=============================================================================
