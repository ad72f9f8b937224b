SPECIFICATION Spec
CONSTANTS
  MaxDepth = 3
  MaxLines = 7
  NestInPast = FALSE
INVARIANTS
  OpenWhenLive
  LevelCountsNest
  LinesCounted
PROPERTIES
  FiltersByStack
