SPECIFICATION DevSpec
CONSTANTS
  WtWord = 64
  WtReg = 8
  WtDivisors = 4
  WtFreq = 3
  WtTimeouts = {1, 3, 10, 11, 22}
  WtMargin = 5
  WtDefault = 2
  WtBoots <- AllBoots
  GmThreads = {g1, g2}
  GmFiles = {f1}
  GmSize = 2
  GmWord = 8
  GmLocked = TRUE
  GmCounts = {2}
  GmOffsets <- SomeOffsets
  GmMaxCalls = 4
  SecMax = 3
  SecUsers = 2
  TsReaders = {r1, r2}
  TsSize = 3
  TsPos = {p1}
  TsMaxOps = 2
  AuThreads = {t1, t2}
  AuShapes <- ThreeOfOne
  AuDefault <- TwoOfTwo
  AuCounts = {3}
  AuModes = {"r", "w", "rw"}
  AuMaxOpens = 2
  AuMaxCalls = 3
  RtSecs = 3
  RtMins = 2
  RtHours = 2
  RtAsked <- LastSeconds
  RtCompared <- SomeFields
  RtFreqs = {1, 2}
  RtMaxCalls = 3
INVARIANTS
  WatchdogKept GmCallAtomic GmInBounds SecondStops
  RingFaithful PenInStep AuBufferOwned SoundKept RtcKept
PROPERTIES
  WaitersGoOn PenSettles
CHECK_DEADLOCK FALSE
