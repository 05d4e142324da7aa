SPECIFICATION Spec
CONSTANTS
  None = None
  MaxRows = 5
  Prices <- MCPrices
  Tolerance = 2
  MinSweep = 2
  BreakConfirm = 1
  MaxAge = 2
INVARIANTS
  BreakReachesInner
  EndsInTime
  PoolsFormChain
PROPERTIES
  FateIsFinal
CHECK_DEADLOCK FALSE
