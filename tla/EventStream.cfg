SPECIFICATION Spec
CONSTANTS
  SubscriberMax = 2
  WireMax = 1
  EgressMax = 2
  MaxEvents = 5
CHECK_DEADLOCK FALSE
INVARIANTS NoSilentLoss NewestLast
