SPECIFICATION SetupSpec
CONSTANTS
  None = None
  MaxRows = 6
  Lookback = 3
  MaxAge = 4
  Enabled <- AllEvents
INVARIANT RetracementFollowsChoch
CHECK_DEADLOCK FALSE
