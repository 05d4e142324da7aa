SPECIFICATION Spec
CONSTANTS
  None = None
  MaxEvaluations = 6
  Iterations <- MCIterations
INVARIANT RunsUntilStopped
CHECK_DEADLOCK FALSE
