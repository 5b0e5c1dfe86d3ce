SPECIFICATION FairSpec
CONSTANTS
  Keys = {k1, k2}
  WideOps = {}
  MaxVersion = 2
  Capacity = 1
  MaxInFlight = 2
  MaxDisconnects = 0
  MaxReplays = 1
  MaxResyncs = 1
  MaxCrashes = 1
  MaxFaults = 2
INVARIANT NoLostWakeup
PROPERTY
  EventuallyFollows
CHECK_DEADLOCK FALSE
