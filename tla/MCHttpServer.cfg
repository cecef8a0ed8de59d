SPECIFICATION FairSpec
CONSTANTS
    p1 = p1
    c1 = c1
    c2 = c2
    r1 = r1
    None = None
    Peers = {p1}
    Conns = {c1, c2}
    Routes = {r1}
    MaxPosts = 1
    MaxInbox = 1
    MaxRestarts = 1
CHECK_DEADLOCK FALSE
INVARIANTS OneDriver
PROPERTIES ContractHolds GoneIsReported PeersAreServed
