SPECIFICATION Spec
CONSTANTS
  Requests = {r1, r2}
  Lifespan = lifespan
  None = None
INVARIANTS
  Serialized
  BacklogBounded
  AnswerIsOwn
  OnlyWhileConnected
PROPERTIES
  EveryCallerAnswered
CHECK_DEADLOCK FALSE
