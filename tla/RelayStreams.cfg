SPECIFICATION Spec
CONSTANTS
  c1 = c1
  c2 = c2
  r1 = r1
  r2 = r2
  Conns = {c1, c2}
  NoConn = NoConn
  Reqs = {r1, r2}
  Chunks = 1
  EgressChunks = 1
  HttpMax = 2
  MaxFaults = 1
  OpenRequestsMax = 1
  MaxGeneration = 2
  LateRaise = FALSE
SYMMETRY Symmetry
CHECK_DEADLOCK FALSE
INVARIANTS NeverAnothers RevokedOffline LeasesCounted
PROPERTIES FencedUpward  KeepsPromise
