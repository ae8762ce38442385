SPECIFICATION AllSpec
CONSTANTS
  Size = 5
  Values = {1, 2, 3, 4}
\* Two groups of 2 x 2 work-items, two tiles for each.
  BLOCK_SIZE = 2
  WA = 4
  HA = 4
  WB = 2
\* Four bodies in two groups, two tiles, both parities of the iterations.
  numBodies = 4
  localSize = 2
  MaxIterations = 4
  LX = 3
  LY = 3
  Images <- MCImages
  nState = 2
  nObs = 4
  nEmit = 2
  Models <- MCModels
  JUNK <- MCJunk
  MaxQueue = 4
INVARIANTS
  PartsKeepTheirSides
  MemoryIsShared
  LaunchesFollow
  ResultsAreRight
  OthersAreRight
PROPERTIES
  LoopsEnd
\* Programs end.
CHECK_DEADLOCK FALSE
