SPECIFICATION Spec
CONSTANTS
  LX = 3
  LY = 3
  Images <- MCImages
CHECK_DEADLOCK FALSE
INVARIANT MatchesHost
