SPECIFICATION SetupSpec
CONSTANTS
  None = None
  MaxRows = 6
  Lookback = 3
  MaxAge = 4
  Enabled <- AllEvents
INVARIANT BreachInvalidates
CHECK_DEADLOCK FALSE
