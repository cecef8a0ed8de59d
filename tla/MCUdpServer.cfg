SPECIFICATION FairSpec
CONSTANTS
    e1 = e1
    e2 = e2
    c1 = c1
    c2 = c2
    Endpoints = {e1, e2}
    Conns = {c1, c2}
    None = None
    Rebind = TRUE
    MaxPosts = 1
    MaxRestarts = 1
CHECK_DEADLOCK FALSE
INVARIANTS TimersOwn Watched
PROPERTIES ContractHolds GoneIsReported
