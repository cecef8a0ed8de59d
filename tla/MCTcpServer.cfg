SPECIFICATION Spec
CONSTANTS
    p1 = p1
    p2 = p2
    c1 = c1
    c2 = c2
    None = None
    Peers = {p1, p2}
    Conns = {c1, c2}
    Workers = {"w1", "w2"}
    Rebind = TRUE
    Dispatches = TRUE
    MaxPosts = 0
    MaxIds = 1
    MaxInbox = 1
    MaxRestarts = 1
CHECK_DEADLOCK FALSE
SYMMETRY MCSymmetry
INVARIANT OneDriver
PROPERTY ContractHolds
