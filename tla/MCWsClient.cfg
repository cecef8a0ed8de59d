SPECIFICATION FairSpec
CONSTANTS
    c1 = c1
    c2 = c2
    Conns = {c1, c2}
    Dial = Dial
    Shake = Shake
    Timer = Timer
    New = New
    None = None
    MaxPosts = 1
    MaxInbox = 1
    MaxRestarts = 1
CHECK_DEADLOCK FALSE
INVARIANTS OneDriver
PROPERTIES ContractHolds ComesBack GoneIsReported
