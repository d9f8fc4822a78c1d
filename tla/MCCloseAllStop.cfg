SPECIFICATION Spec
CONSTANTS
  Entry = {e1, e2}
  MaxRetries = 5
  MaxBalanceFailures = 3
INVARIANT
  StopLeavesNothingResting
CHECK_DEADLOCK FALSE
