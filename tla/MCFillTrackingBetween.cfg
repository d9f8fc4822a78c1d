SPECIFICATION Spec
CONSTANTS
  Levels = {1, 4}
  BuySellOffset = 1
  Anchor = 1
  Ids = {n1, n2}
  None = none
  MaxOpenTrades = 50
  Environments <- BetweenOnly
SYMMETRY IdSymmetry
INVARIANT NothingUntracked
