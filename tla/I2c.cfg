SPECIFICATION I2cSpec
CONSTANTS
  Transfers <- All
  Retries = 2
  MaxXfers = 2
  MaxTimeouts = 2
  Arbitration = TRUE
  ClkRates = {9697, 12000, 50000, 66500}
  BusFreqs = {0, 1, 6, 7, 46, 100, 194, 400}
  IcAdapters = {a1, a2}
  IcDrivers = {n1, l1}
  IcLegacy = {l1}
  IcAddrs = {x1}
  IcMaxCalls = 6
  IcBoard <- OneBoard
  PxTransfers <- PxArrays
  PxRetries = 1
  PxMaxXfers = 2
  PxOthers = 1
  PxSlave = TRUE
  MvTransfers <- MvArrays
  MvWord = 8
  MvMaxXfers = 2
  OcTransfers <- OcArrays
  OcMaxXfers = 2
  SmAddr = 80
  SmBytes = {1, 200}
  SmDamages = {1, 129}
  SmBlockMax = 2
CHECK_DEADLOCK FALSE
INVARIANTS HandlerInStep BussesServed RateAllowed EveryPairOffered NothingDangles SmKept
PROPERTIES CallsReturn
