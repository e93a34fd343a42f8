SPECIFICATION FairSpec
CONSTANTS
  f1 = f1
  f2 = f2
  Frames = {f1, f2}
  Setups <- Sites
  Limit = 1
  FailLoudAfter = 3
  MaxFaults = 1
  KilledWhole = FALSE
INVARIANTS CacheTrue NoTornCopy
PROPERTIES PokeKept PushConverges PullConverges 
