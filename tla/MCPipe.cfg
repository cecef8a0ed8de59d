SPECIFICATION FairSpec
CONSTANTS
    Self = Self
    MaxProbes = 2
    MaxPosts = 2
    MaxRestarts = 1
CHECK_DEADLOCK FALSE
INVARIANT LoopsGoOn
PROPERTIES ContractHolds GoneIsReported ComesBack
