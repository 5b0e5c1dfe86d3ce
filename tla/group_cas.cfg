SPECIFICATION Spec
CONSTANTS
    Clients = {c1, c2}
    Rows <- MCRows
    TableOf <- MCTableOf
    ParentOf <- MCParentOf
    Queries <- MCQueries
    Root <- MCRoot
    Wanted <- MCWanted
    Related <- MCRelated
    Untransformed = {}
    Synced = {"i1", "m1"}
    Writes <- MCFewWrites
    MaxCommits = 1
    MaxMessages = 2
    MaxSessions = 2
    MaxFailures = 0
    Patches <- MCPatches
SYMMETRY Symmetry
INVARIANT CasCannotLose
CHECK_DEADLOCK FALSE
