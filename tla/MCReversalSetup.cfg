SPECIFICATION SetupSpec
CONSTANTS
  None = None
  MaxRows = 6
  Lookback = 3
  MaxAge = 4
  Enabled <- AllEvents
INVARIANTS
  PendingIsCurrent
  ChochIsCurrent
  SweepCycleHoldsOneShift
  BlockIsOfThisShift
  SnapshotAgrees
PROPERTIES
  ResolutionIsComplete
  LifecycleIsFinal
CHECK_DEADLOCK FALSE
