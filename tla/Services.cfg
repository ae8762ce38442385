SPECIFICATION ServicesSpec
CONSTANTS
  c1 = c1
  c2 = c2
  Clients = {c1, c2}
  Values = {v}
  Unset = Unset
  JUNK = JUNK
  Echo = Echo
  NULL = NULL
  MaxCalls <- OneBusy
  Blocking = {TRUE}
  MaxQueued <- Alone
  Queueing = {TRUE, FALSE}
  Word = 64
  Codes = {0, 5}
  Given <- MCGiven
\* Two servers: one answers before the other, or instead of it.
  Hosts = {s1, s2}
  Nobody = Nobody
  Stranger = Stranger
\* Three discoveries: an answer to one can come in a later one.
  MarHosts = {s1}
  MaxRounds = 3
  MaxTime = 1
\* Three requests in up to two runs of the server.
  MaxRequests = 3
  MaxRuns = 2
INVARIANTS
  ReadSeesWrites
  
  MessagesKeepTheirMeaning
  
  LatenciesAreReal
  ImagesAreTheirOwn
PROPERTIES
  ImplementsSunCalls
  WaitsEnd
\* Clients make their last call, processes end.
CHECK_DEADLOCK FALSE
