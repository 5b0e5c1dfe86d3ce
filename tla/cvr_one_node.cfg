SPECIFICATION FairSpec
CONSTANTS
    n1 = n1
    n2 = n2
    s1 = s1
    s2 = s2
    k1 = k1
    k2 = k2
    Nodes = {n1}
    Sessions = {s1, s2}
    NodeOf <- OneNode
    Keys = {k1}
    Flags <- AllFlags
    NewGroup = FALSE
    Inactivity = 0
    TombstoneAge = 1
    MaxStamp = 3
    MaxClock = 1
    MaxFlushErrors = 1
    MaxRowErrors = 1
    MaxCrashes = 1

PROPERTIES RowsNeverRollBack RowsCatchUp SessionsSettle
CHECK_DEADLOCK FALSE
