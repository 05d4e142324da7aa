SPECIFICATION Spec
CONSTANTS
  None = None
  MaxEvaluations = 6
  Iterations <- MCIterations
INVARIANT CorruptionIsLocal
CHECK_DEADLOCK FALSE
