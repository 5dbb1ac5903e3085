SPECIFICATION Spec
CONSTANTS
  t1 = t1
  t2 = t2
  t3 = t3
  Tasks = {t1, t2, t3}
  Free = Free
  GLOBALFIFO_SIZE = 1
  Byte = {0, 1}
  Payloads <- OneByte
  Counts = {1}
  Modes = {FALSE}
  Cmds = {}
  Wants <- NoWants
  Async = FALSE
  MemcpyOrders = {"ascending"}
SYMMETRY Sym
INVARIANT BlockingReadHasData
