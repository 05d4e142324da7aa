SPECIFICATION Spec
CONSTANTS
  None = None
  Price <- MCPrice
  Distance <- MCDistance
  MaxRows = 6
INVARIANTS
  ShiftBookkeeping
  GuardProvenance
  ConfirmationOrder
PROPERTIES
  GuardNeverLost
  ReversalIsFresh
  ImplementsTrendCycle
CHECK_DEADLOCK FALSE
