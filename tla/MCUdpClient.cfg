SPECIFICATION FairSpec
CONSTANTS
    MaxLoops = 3
    MaxPosts = 1
    MaxRestarts = 1
CHECK_DEADLOCK FALSE
INVARIANT LoopsGoOn
PROPERTIES ComesBack GoneIsReported
