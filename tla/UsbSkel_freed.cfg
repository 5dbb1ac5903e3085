SPECIFICATION Spec
CONSTANTS
  f1 = f1
  f2 = f2
  f3 = f3
  d1 = d1
  d2 = d2
  d3 = d3
  Files = {f1, f2}
  Hub = Hub
  Devs = {d1}
  MAX_DEVICES = 1
  NULL = NULL
  Free = Free
CHECK_DEADLOCK FALSE
INVARIANT DeletedUnopened
