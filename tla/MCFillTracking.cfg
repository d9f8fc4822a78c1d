SPECIFICATION Spec
CONSTANTS
  Levels = {1, 4}
  BuySellOffset = 1
  Anchor = 1
  Ids = {n1, n2}
  None = none
  MaxOpenTrades = 50
  Environments <- Combinations
SYMMETRY IdSymmetry
INVARIANTS BooksAgree KeepsTrack RightKey NoDoubleExposure PlacedIsBacked TrimmedIsClosed
