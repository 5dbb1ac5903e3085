SPECIFICATION Spec
CONSTANTS
  Transfers <- ReadFirst
  Retries = 2
  MaxXfers = 1
  MaxTimeouts = 0
  Arbitration = FALSE
CHECK_DEADLOCK FALSE
INVARIANT SuccessFaithful
