SPECIFICATION Spec
CONSTANTS
  None = None
  Price <- MCPrice
  Distance <- MCDistance
  MaxRows = 6
PROPERTY BosLeavesGuard
CHECK_DEADLOCK FALSE
