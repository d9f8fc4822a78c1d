SPECIFICATION Spec
CONSTANTS
  Levels <- BothOuter
  WhipsawLimit = 2
  MaxRetries = 2
  None = none
  Environments <- Combinations
INVARIANTS Hedged OneOfEach DoubledBacked
PROPERTY ExitHoldsUnlessLost
CHECK_DEADLOCK FALSE
