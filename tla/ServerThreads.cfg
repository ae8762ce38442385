CONSTANTS
  Threads = {t1, t2, t3}
  BUFSIZE = 9
  H_OFFSET = 3
  FixedSizes <- MCFixedSizes
  ArraySizes <- MCArraySizes
SPECIFICATION Spec
SYMMETRY Symmetry
INVARIANTS
  UnracedReplyIsExact
  CorruptionNeedsRacedArray
  SmallRepliesAreSafe
\* A corrupt process has no defined next step.
CHECK_DEADLOCK FALSE
