SPECIFICATION Spec
CONSTANTS
  Keys = {k1, k2}
  WideOps = {"t", "r"}
  MaxVersion = 3
  Capacity = 1
  MaxInFlight = 1
  MaxDisconnects = 1
  MaxReplays = 0
  MaxResyncs = 0
  MaxCrashes = 1
  MaxFaults = 2
SYMMETRY KeySymmetry
INVARIANTS
  TypeOK
  NothingMissed
  NoLostWakeup
  LiveOnSameSnapshot
PROPERTY
  FollowsPromise
CHECK_DEADLOCK FALSE
