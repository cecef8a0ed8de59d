SPECIFICATION FairDuplexSpec
CONSTANTS
    c1 = c1
    c2 = c2
    Clients = {c1, c2}
    Workers = 2
    Capacity <- MCCapacity
    FrameSize = 2
    MaxMessages <- MCMaxMessages
CHECK_DEADLOCK FALSE
INVARIANT NothingLost
PROPERTIES EverythingArrives GoneIsErased
