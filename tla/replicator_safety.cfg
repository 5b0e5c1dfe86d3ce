SPECIFICATION Spec
CONSTANTS
  Keys = {k1, k2}
  DdlKinds = {"inline", "rebuild", "silent"}
  MaxLsn = 3
  MaxSchema = 2
  MaxFaults = 2
  PromptTeardown = FALSE
  PollEnabled = TRUE
  MayShutDown = FALSE
SYMMETRY KeySymmetry
INVARIANTS
  TypeOK
  SlotNeverPastDurable
  CaughtUpIsPrefix
  BeginNeverNested
  SchemaFollowsStream
  AckedIsPublished
  ReplicatorInv
CHECK_DEADLOCK FALSE
