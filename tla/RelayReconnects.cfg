SPECIFICATION FairSpec
CONSTANTS
  c1 = c1
  c2 = c2
  r1 = r1
  Conns = {c1, c2}
  NoConn = NoConn
  Reqs = {r1}
  Chunks = 0
  EgressChunks = 1
  HttpMax = 1
  MaxFaults = 2
  OpenRequestsMax = 1
  MaxGeneration = 2
  LateRaise = TRUE
CHECK_DEADLOCK FALSE
PROPERTIES RequestEnds Reconnects
