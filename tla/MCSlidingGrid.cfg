SPECIFICATION Spec
CONSTANTS
  Reach = 4
  AnchorGap = 1
  GridSpacing = 1
  BuySellOffset = 1
  StopBuffer = 0
  MinDistance = 1
  Ahead = 2
  Behind = 1
  Lowest <- OneBelow
  Highest = 4
INVARIANTS TypeOK BoundedFootprint RetiredStaysShut NothingForgotten
PROPERTY AnchorRides
