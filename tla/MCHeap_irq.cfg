SPECIFICATION IrqSpec
CONSTANTS
  POOL_SIZE = 12
  HDR = 2
  Requests = {1, 2, 3}
  NULL = NULL
INVARIANTS
  HeldDisjoint
CHECK_DEADLOCK FALSE
