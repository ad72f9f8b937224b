SPECIFICATION Spec
CONSTANTS
  MaxDepth = 3
  MaxLines = 7
  NestInPast = TRUE
INVARIANTS
  OpenWhenLive
