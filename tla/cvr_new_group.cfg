SPECIFICATION Spec
CONSTANTS
    n1 = n1
    n2 = n2
    s1 = s1
    s2 = s2
    Nodes = {n1, n2}
    Sessions = {s1, s2}
    NodeOf <- TwoNodes
    k1 = k1
    k2 = k2
    Keys = {k1}
    Flags <- Connections
    NewGroup = TRUE
    Inactivity = 0
    TombstoneAge = 1
    MaxStamp = 2
    MaxClock = 0
    MaxFlushErrors = 0
    MaxRowErrors = 0
    MaxCrashes = 0
PROPERTY NoLostUpdate
CHECK_DEADLOCK FALSE
