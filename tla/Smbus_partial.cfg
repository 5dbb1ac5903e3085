SPECIFICATION SmSpec
CONSTANTS
  SmAddr = 80
  SmBytes = {1, 200}
  SmDamages = {1, 129}
  SmBlockMax = 2
CHECK_DEADLOCK FALSE
INVARIANT SmZeroOnSuccess
