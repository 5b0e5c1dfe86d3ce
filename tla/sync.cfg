SPECIFICATION Spec
CONSTANTS
    Clients = {c1, c2}
    Rows <- MCRows
    TableOf <- MCTableOf
    ParentOf <- MCParentOf
    Queries <- MCQueries
    Root <- MCRoot
    Wanted <- MCWanted
    Related <- MCRelated
    Untransformed = {"bad"}
    Synced = {"i1", "m1"}
    Writes <- MCFewWrites
    MaxCvrRetries = 2
    Budgets <- Situations
SYMMETRY Symmetry
INVARIANTS TypeOK PokesFollowOn ViewIsCurrent
CHECK_DEADLOCK FALSE
