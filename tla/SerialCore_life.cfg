SPECIFICATION Spec
CONSTANTS
  t1 = t1
  t2 = t2
  Tasks = {t1, t2}
  Eventd = Eventd
  Free = Free
  UART_XMIT_SIZE = 2
  WAKEUP_CHARS = 1
  FifoSize = 1
  Serials = 2
  Counts = {1}
  Cflags <- ModemFlags
  Nonblocks = {TRUE, FALSE}
  Startups = {TRUE, FALSE}
  Admins = {TRUE, FALSE}
  Signals = TRUE
  MaxCount = 3
  Uses = {"write", "xchar", "carrier", "setserial"}
SYMMETRY Sym
INVARIANTS InterruptsOwned OpenersWoken PortKept ReceiverOn
