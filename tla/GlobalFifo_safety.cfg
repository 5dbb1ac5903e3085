SPECIFICATION FairSpec
CONSTANTS
  t1 = t1
  t2 = t2
  t3 = t3
  Tasks = {t1, t2}
  Free = Free
  GLOBALFIFO_SIZE = 1
  Byte = {0, 1}
  Payloads <- OneByte
  Counts = {1}
  Modes = {FALSE, TRUE}
  Cmds = {0}
  Wants <- EitherWant
  Async = FALSE
  MemcpyOrders = {"ascending"}
INVARIANTS SemaphoreHeld NoDanglingEntry ReadersWoken WritersWoken
PROPERTY CallsProceed
