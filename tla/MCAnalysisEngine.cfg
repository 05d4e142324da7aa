SPECIFICATION EngineSpec
CONSTANTS
  None = None
  Price <- MCPrice
  Distance = {0, 1}
  MaxRows = 9
  Left = 1
  Right = 1
  Frames <- MCFrames
  MinBreak = 1
  MinDisplacement = 1
  MinBody = 50
  InvalidationDistance = 0
  Lookback = 3
  MaxAge = 3
  Enabled <- AllEvents
  Tolerance = 2
  MinSweep = 0
  BreakConfirm = 0
  MaxPoolAge = None
INVARIANT RegistryIsHistory
PROPERTY ImplementsSetup
PROPERTY BreaksAreConfirmed
CHECK_DEADLOCK FALSE
