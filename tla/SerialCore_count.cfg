SPECIFICATION SignalSpec
CONSTANTS
  t1 = t1
  t2 = t2
  Tasks = {t1, t2}
  Eventd = Eventd
  Free = Free
  UART_XMIT_SIZE = 2
  WAKEUP_CHARS = 1
  FifoSize = 1
  Serials = 2
  Counts = {1}
  Cflags = {}
  Nonblocks = {TRUE}
  Startups = {TRUE}
  Admins = {TRUE}
  Signals = FALSE
  MaxCount = 3
  Uses = {}
SYMMETRY Sym
INVARIANT CountOneAtLastClose
