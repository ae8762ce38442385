SPECIFICATION TransportSpec
CONSTANTS
  BUFSIZE = 6
  LenBytes = 2
  MinFirst = 2
  H_OFFSET = 3
  Base = 4
  ReqSizes <- MCReqSizes
  RepSizes <- MCRepSizes
  PlainSizes <- MCPlainSizes
  Words <- MCWords
  PartialSends = FALSE
  Exits = {}
  MaxCalls = 2
INVARIANTS
  CallsKeepTheirBytes
  ServerFallsForAReason
  ShortReadHarmless
PROPERTIES
  FreedTwiceOnlyInWindow
  IdleExitsEndThreads
\* After MaxCalls calls, an overrun or an exit, nothing is left to do, and a
\* misread length can leave both sides waiting.
CHECK_DEADLOCK FALSE
