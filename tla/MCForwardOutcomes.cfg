CONSTANTS
  Shapes <- Candles
  Prices <- Levels
  Horizon = 3
  Multiples <- TwoMultiples
  MaxClock = 5
  None = None
SPECIFICATION WalkSpec
INVARIANT WalkFindsOutcomes
INVARIANT TargetsNested
INVARIANT ExcursionsAgree
PROPERTY DecidedIsFinal
CHECK_DEADLOCK FALSE
