CONSTANTS
  Balances <- SmallBalances
  RiskPart = 2
  Prices <- SomePrices
  Blocks <- SomeBlocks
  VolumeMin = 2
  VolumeMax = 5
  None = None
SPECIFICATION Spec
INVARIANTS
  OneTradeAtATime
  SignalIsSound
  CategoryNeverDeeper
