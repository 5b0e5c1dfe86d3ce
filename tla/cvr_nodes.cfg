SPECIFICATION Spec
CONSTANTS
    n1 = n1
    n2 = n2
    s1 = s1
    s2 = s2
    Nodes = {n1, n2}
    Sessions = {s1, s2}
    NodeOf <- TwoNodes
    k1 = k1
    k2 = k2
    Keys = {k1, k2}
    Flags <- Connections
    NewGroup = FALSE
    Inactivity = 0
    TombstoneAge = 1
    MaxStamp = 4
    MaxClock = 1
    MaxFlushErrors = 1
    MaxRowErrors = 1
    MaxCrashes = 1
SYMMETRY TwoNodesSymmetry
INVARIANTS TypeOK CookieHasRows
PROPERTIES NoLostUpdate
CHECK_DEADLOCK FALSE
