SPECIFICATION Spec
CONSTANTS
  Market <- Candles
  Requests <- Ranges
  None = None
  PageSize = 2
  Workers = 2
  MaxCompleted = 1
  MaxTasks = 3
CHECK_DEADLOCK FALSE
INVARIANTS
  RangeIsServed
  CoverageHasNoHole
  ResultIsKept
PROPERTY BacktestEnds
