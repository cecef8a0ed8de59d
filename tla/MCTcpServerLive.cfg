SPECIFICATION FairSpec
CONSTANTS
    p1 = p1
    p2 = p2
    c1 = c1
    c2 = c2
    None = None
    Peers = {p1}
    Conns = {c1}
    Workers = {"w1", "w2"}
    Rebind = FALSE
    Dispatches = FALSE
    MaxPosts = 2
    MaxIds = 2
    MaxInbox = 1
    MaxRestarts = 0
CHECK_DEADLOCK FALSE
INVARIANT WritesInOrder
PROPERTIES GoneIsReported WaitingIsAccepted
