SPECIFICATION Spec
CONSTANTS
  LocalSize = 8
  Warp = 2
  Given <- OneOrTwo
  LockStep = FALSE
INVARIANTS
  BlockMaximum
CHECK_DEADLOCK FALSE
