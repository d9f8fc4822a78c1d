SPECIFICATION Spec
CONSTANTS
  Levels <- BothOuter
  WhipsawLimit = 2
  MaxRetries = 2
  None = none
  Environments <- OnlyClose
PROPERTY ExitHolds
CHECK_DEADLOCK FALSE
