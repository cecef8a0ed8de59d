SPECIFICATION FairSpec
CONSTANTS
    Self = Self
    Services = {s1}
    Conns = {c1}
    Threads = 1
    MaxQueue = 2
    MaxPosts = 2
    MaxRestarts = 1
CHECK_DEADLOCK FALSE
INVARIANTS CatchesUp EchoesInOrder
PROPERTIES ContractHolds EventsArrive
