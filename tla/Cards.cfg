SPECIFICATION CardsSpec
CONSTANTS
  ELP_RX_PCBS = 1
  BACKLOG_SIZE = 2
  ElMaxEvents = 2
  ElTxFrames = 1
  CsDmas = {"pio", "module", "eeprom"}
  CsRing = 8
  CsAlign = 2
  CsLens = {1, 3}
  CsMem = 2
  CsUnderruns = 1
  CsMaxFrames = 2
  CsMaxOpens = 2
  f1 = f1
  f2 = f2
  f3 = f3
  d1 = d1
  d2 = d2
  d3 = d3
  Files = {f1, f2}
  Hub = Hub
  Devs = {d1, d2}
  MAX_DEVICES = 2
  NULL = NULL
  Free = Free
CHECK_DEADLOCK FALSE
INVARIANTS
  ElFramesKept ElChannelOwned ElReceivesCounted CardKept
  CountsExact TableExact FilesKept
PROPERTIES FramesGoOn OpenReturns
