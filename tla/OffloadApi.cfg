\* Everything that makes the wrapper differ from a local OpenCL.
CONSTANTS
  JUNK = JUNK
  Unset = Unset
  b1 = b1
  b2 = b2
  Buffers = {b1, b2}
  Large = {b1}
  Slots = 8
  MaxObjs = 9
  MaxQueue = 1
  Scalars = {0, 1}
  Contents = {1}
  Kernel <- MCSameContents
  MayFail = TRUE
  Blocking = FALSE
SPECIFICATION Spec
INVARIANTS
  HandleNamesItsBuffer
  LaunchMeansWhatWasSet
  LostArgumentIsReported
  
\* An application whose objects are refused may have no call left to make.
CHECK_DEADLOCK FALSE
