SPECIFICATION FairSpec
CONSTANTS
  t1 = t1
  t2 = t2
  Tasks = {t1}
  Eventd = Eventd
  Free = Free
  UART_XMIT_SIZE = 4
  WAKEUP_CHARS = 2
  FifoSize = 2
  Serials = 4
  Counts = {4}
  Cflags <- FlowFlags
  Nonblocks = {TRUE}
  Startups = {TRUE, FALSE}
  Admins = {TRUE}
  Signals = FALSE
  MaxCount = 3
  Uses = {"write", "flush", "echo", "stop", "cts", "suspend"}
INVARIANTS BufferFaithful TransmitterRuns
PROPERTY WritersServed
