SPECIFICATION FairSpec
CONSTANTS
    c1 = c1
    c2 = c2
    Conns = {c1, c2}
    Dial = Dial
    Timer = Timer
    New = New
    None = None
    MaxPosts = 1
    MaxInbox = 1
    MaxRestarts = 1
CHECK_DEADLOCK FALSE
INVARIANT OneDriver
PROPERTIES ContractHolds ComesBack GoneIsReported
