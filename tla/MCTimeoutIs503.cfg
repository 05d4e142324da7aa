SPECIFICATION Spec
CONSTANTS
  Requests = {r1, r2}
  Lifespan = lifespan
  None = None
PROPERTY TimeoutIs503
CHECK_DEADLOCK FALSE
