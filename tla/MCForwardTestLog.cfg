SPECIFICATION Spec
CONSTANTS
  None = None
  MaxEvaluations = 6
  Iterations <- MCIterations
INVARIANTS
  DamageBounded
  LogIsFaithful
PROPERTIES
  RecordsAreDurable
CHECK_DEADLOCK FALSE
