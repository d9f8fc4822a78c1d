SPECIFICATION Spec
CONSTANTS
  Keys <- TwoKeys
  Side <- Sides
  None = None
  Bars <- ThreeBars
  Prices <- EntryPrices
  StopGap = 12
  Frictions <- OneFriction
  Commission = 1
  InitialCapital = 100
  PositionSize = 2
  MaxDrain = 2
  Setups <- CommandLine
  MaxPosition = 2
  MaxDailyLoss = 30
  MaxTradesPerDay = 1
  RequireStopLoss = FALSE
  MaxDrawdownPct = 40
  MaxConsecutiveLosses = 2
  TotalSteps = 3
CHECK_DEADLOCK FALSE
INVARIANTS
  Reconciles
  BooksFollow
PROPERTIES
  ImplementsAccount
  ReplayEnds
