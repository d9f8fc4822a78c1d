SPECIFICATION FairSpec
CONSTANTS
  Entry = {e1, e2, e3}
  MaxRetries = 5
  MaxBalanceFailures = 3
INVARIANTS
  FlatWithoutSession
  BreakerHolds
PROPERTIES
  ImplementsLiquidation
  LiquidationEnds
CHECK_DEADLOCK FALSE
