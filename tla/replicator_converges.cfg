SPECIFICATION FairSpec
CONSTANTS
  Keys = {k1, k2}
  DdlKinds = {}
  MaxLsn = 2
  MaxSchema = 1
  MaxFaults = 2
  PromptTeardown = FALSE
  PollEnabled = TRUE
  MayShutDown = TRUE
PROPERTY EventuallyConsistent
CHECK_DEADLOCK FALSE
