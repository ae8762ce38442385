CONSTANTS
  BUFSIZE = 4
  LenBytes = 2
  MinFirst = 2
  ReqSizes <- MCReqSizes
  RepSizes <- MCRepSizes
  Words <- MCWords
  MaxCalls = 2
SPECIFICATION FairSpec
INVARIANTS
  Aligned
  FitsBigBuf
  StuckOnlyByDroppedByte
PROPERTIES
  ImplementsRpcCall
  CallReturns
\* A dropped last byte leaves both sides waiting; after MaxCalls nobody calls.
CHECK_DEADLOCK FALSE
