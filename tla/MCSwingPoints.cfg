CONSTANTS
  Left = 1
  Right = 2
  Window = 8
  Shapes <- Candles
  None = None
SPECIFICATION ScanSpec
INVARIANT BreaksAreKnowable
INVARIANT ScanComputesColumns
PROPERTY ConfirmedIsFinal
PROPERTY TailOnlyLoses
PROPERTY LabelsOnlyForget
