SPECIFICATION ServerSpec
CONSTANTS
  Clients = {a, b, c}
  Fds = {4, 5}
  Free = Free
  MaxCalls = 1
  Buffers = {"small", "large"}
  Size <- MCSize
  CMP_LIM = 2
  Contents = {easy, other, hard}
  Incompressible = {hard}
  JUNK = JUNK
  MaxQueue = 3
  Apps = {"careful", "careless"}
  Careless = {"careless"}
  Addrs = {p1, p2, p3}
  None = None
  MaxMade <- MCMaxMade
INVARIANTS
  
  TransfersKeepContents
  ObjectsLiveAsHeld
PROPERTIES
  EveryoneAnswered
\* Clients leave, processes die, and each makes its last call.
CHECK_DEADLOCK FALSE
