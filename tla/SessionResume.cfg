SPECIFICATION FairSpec
CONSTANTS
  a = a
  b = b
  Sessions = {a, b}
  NoSession = NoSession
  Quota = 1
  SingleNight = {b}
  MaxNights = 2
  GiveUpAfter = 2
  MaxEvents = 2
CHECK_DEADLOCK FALSE
INVARIANT OneMover
PROPERTIES  StartsRightly  
