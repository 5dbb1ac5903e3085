SPECIFICATION Spec
CONSTANTS
  t1 = t1
  t2 = t2
  t3 = t3
  Tasks = {t1, t2}
  Free = Free
  GLOBALFIFO_SIZE = 3
  Byte = {0, 1, 2}
  Payloads <- TwoBytes
  Counts = {1, 2}
  Modes = {FALSE, TRUE}
  Cmds = {0, 1}
  Wants <- ReadWant
  Async = TRUE
  MemcpyOrders = {"ascending"}
SYMMETRY Sym
PROPERTY ChannelSpec
