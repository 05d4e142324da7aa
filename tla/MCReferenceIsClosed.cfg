CONSTANTS
  Shapes <- Candles
  Prices <- Levels
  Horizon = 3
  Multiples <- TwoMultiples
  MaxClock = 5
  None = None
SPECIFICATION WalkSpec
CHECK_DEADLOCK FALSE
INVARIANT ReferenceIsClosed
