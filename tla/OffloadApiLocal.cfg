\* What applications of the repository do when nothing is refused.
CONSTANTS
  JUNK = JUNK
  Unset = Unset
  b1 = b1
  b2 = b2
  Buffers = {b1, b2}
  Large = {b1, b2}
  Slots = 8
  MaxObjs = 8
  MaxQueue = 2
  Scalars = {1, 2}
  Contents <- MCContents
  Kernel <- MCKernel
  MayFail = FALSE
  Blocking = TRUE
SPECIFICATION Spec
PROPERTY ImplementsLocalCl
