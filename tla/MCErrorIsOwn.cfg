SPECIFICATION Spec
CONSTANTS
  Requests = {r1, r2}
  Lifespan = lifespan
  None = None
INVARIANT ErrorIsOwn
CHECK_DEADLOCK FALSE
