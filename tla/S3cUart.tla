------------------------------ MODULE S3cUart ------------------------------
(***************************************************************************)
(* The S3C2410 UART driver (code/14): the operations the serial core calls *)
(* on a port and the transmit interrupt, with the state both share: the    *)
(* circular transmit buffer, the priority character and the enable flags.  *)
(*                                                                         *)
(* The chip has one processor, and the core's sections under port->lock    *)
(* run with interrupts off, so the interrupt handler, which takes no lock, *)
(* runs between such sections as one step.                                 *)
(***************************************************************************)
EXTENDS Integers

CONSTANTS
  UART_XMIT_SIZE, \* length of the transmit buffer, a power of two
  WAKEUP_CHARS,   \* writers are woken when fewer bytes are pending
  FifoSize,       \* bytes the hardware's transmit FIFO holds
  Serials         \* written bytes are numbered modulo Serials

ASSUME UartAssumption ==
  /\ UART_XMIT_SIZE \in Nat \ {0, 1}
  /\ WAKEUP_CHARS \in 1 .. UART_XMIT_SIZE - 1
  /\ FifoSize \in Nat \ {0}
  /\ Serials \in Nat /\ Serials > UART_XMIT_SIZE - 1

VARIABLES
  buf,        \* info->xmit.buf # NULL
  head,       \* info->xmit.head
  tail,       \* info->xmit.tail
  mem,        \* the buffer's page: the number of the byte in each place,
              \* Stale where no byte is pending
  x_char,     \* port->x_char # 0
  tx_enabled, \* port->unused[0]; with claimed, the transmit interrupt is on
  rx_enabled, \* port->unused[1]
  claimed,    \* tx_claimed and rx_claimed: both interrupts are requested
  fifo,       \* bytes in the hardware's transmit FIFO
  tlet,       \* the tasklet info->tlet is scheduled
  last,       \* the number of the byte accepted last
  line        \* the number of the last byte that left the buffer in order

uartVars == <<buf, head, tail, mem, x_char, tx_enabled, rx_enabled, claimed,
              fifo, tlet, last, line>>

Places == 0 .. UART_XMIT_SIZE - 1
Numbers == 0 .. Serials - 1
Stale == Serials
Lesser(a, b) == IF a <= b THEN a ELSE b

Pending == (head - tail) % UART_XMIT_SIZE
Empty == head = tail

InitUart ==
  /\ buf = FALSE /\ head = 0 /\ tail = 0
  /\ mem = [i \in Places |-> Stale]
  /\ x_char = FALSE
  /\ tx_enabled = FALSE /\ rx_enabled = FALSE /\ claimed = FALSE
  /\ fifo = 0
  /\ tlet = FALSE
  /\ last = 0 /\ line = 0

-----------------------------------------------------------------------------
(* The operations of s3c24xx_serial_ops.                                   *)

StopTx == tx_enabled' = FALSE
StartTx == tx_enabled' = TRUE
StopRx == rx_enabled' = FALSE

(* Mutant: the receiver's flag is not set again.                           *)
StartupUart_deaf(ok) ==
  /\ claimed' = ok
  /\ IF ok THEN tx_enabled' = TRUE /\ UNCHANGED rx_enabled
     ELSE UNCHANGED <<tx_enabled, rx_enabled>>

(* s3c24xx_serial_startup.  Each interrupt is on from its request_irq; the *)
(* flag is set before.  When the second request fails, the first is given  *)
(* back, and tx_enabled, not claimed, keeps its value.                     *)
StartupUart(ok) ==
  /\ claimed' = ok
  /\ IF ok THEN tx_enabled' = TRUE /\ rx_enabled' = TRUE
     ELSE \/ rx_enabled' = TRUE /\ UNCHANGED tx_enabled
          \/ rx_enabled' = FALSE /\ tx_enabled' = TRUE

(* s3c24xx_serial_shutdown.                                                *)
ShutdownUart ==
  /\ claimed' = FALSE
  /\ tx_enabled' = (~ claimed /\ tx_enabled)
  /\ rx_enabled' = (~ claimed /\ rx_enabled)

-----------------------------------------------------------------------------
(* The transmit buffer, a struct circ_buf.                                 *)

(* CIRC_SPACE_TO_END(h, tail, UART_XMIT_SIZE).                             *)
SpaceToEnd(h) ==
  Lesser((UART_XMIT_SIZE - 1 - h + tail) % UART_XMIT_SIZE, UART_XMIT_SIZE - h)

(* How many of n bytes the copy loop of uart_write takes: a piece up to    *)
(* the end of the buffer, and one from its start.                          *)
Room(n) ==
  LET first == Lesser(n, SpaceToEnd(head))
  IN  first + Lesser(n - first, SpaceToEnd((head + first) % UART_XMIT_SIZE))

(* n bytes are accepted.  Without a buffer they go astray.                 *)
PutBytes(n) ==
  /\ head' = (head + n) % UART_XMIT_SIZE
  /\ IF buf
       THEN /\ mem' = [i \in Places |->
                         LET at == (i - head) % UART_XMIT_SIZE
                         IN  IF at < n THEN (last + 1 + at) % Serials ELSE mem[i]]
            /\ last' = (last + n) % Serials
       ELSE UNCHANGED <<mem, last>>

(* uart_circ_clear: whatever was pending has left the buffer.              *)
Clear ==
  /\ head' = 0 /\ tail' = 0
  /\ mem' = [i \in Places |-> Stale]
  /\ line' = last

-----------------------------------------------------------------------------
(* The hardware, and the interrupt it raises while its FIFO is empty.      *)

ShiftOut == fifo > 0 /\ fifo' = fifo - 1
TxIrq == claimed /\ tx_enabled /\ fifo = 0
TxEmpty == fifo = 0

(* The bytes one interrupt writes, until the FIFO is full.                 *)
Burst == Lesser(Pending, FifoSize - fifo)

(* Mutant: the interrupt is turned off although bytes are left.            *)
Drained_full(n) == TRUE
Drained(n) == n = Pending

(* uart_circ_chars_pending(xmit) < WAKEUP_CHARS, after n bytes.            *)
Wakes(n) == Pending - n < WAKEUP_CHARS

(* Mutant: the last byte is left in the buffer and sent again.             *)
SendBytes_again(n) ==
  /\ fifo' = fifo + n
  /\ UNCHANGED mem
  /\ tail' = (tail + n - 1) % UART_XMIT_SIZE
  /\ line' = mem[(tail + n - 1) % UART_XMIT_SIZE]

SendBytes(n) ==
  /\ fifo' = fifo + n
  /\ mem' = [i \in Places |-> IF (i - tail) % UART_XMIT_SIZE < n THEN Stale ELSE mem[i]]
  /\ tail' = (tail + n) % UART_XMIT_SIZE
  /\ line' = mem[(tail + n - 1) % UART_XMIT_SIZE]

(* s3c24xx_serial_tx_chars: the priority character alone; nothing to send  *)
(* or not allowed to; or as many bytes as the FIFO takes.                  *)
TxChars(txStopped) ==
  /\ TxIrq
  /\ \/ /\ x_char
        /\ x_char' = FALSE
        /\ fifo' = fifo + 1
        /\ UNCHANGED <<tail, mem, line, tx_enabled, tlet>>
     \/ /\ ~ x_char /\ (Empty \/ txStopped)
        /\ StopTx
        /\ UNCHANGED <<x_char, fifo, tail, mem, line, tlet>>
     \/ /\ ~ x_char /\ ~ Empty /\ ~ txStopped
        /\ LET n == Burst
           IN  /\ SendBytes(n)
               /\ tlet' = (tlet \/ Wakes(n))
               /\ tx_enabled' = ~ Drained(n)
        /\ UNCHANGED x_char
  /\ UNCHANGED <<buf, head, rx_enabled, claimed, last>>
=============================================================================
