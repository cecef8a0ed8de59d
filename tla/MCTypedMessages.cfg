SPECIFICATION TypedSpec
CONSTANTS
    HeaderSize = 2
    Buffer = 4
    Sizes = {0, 1, 2, 4, 5}
    Capacity = 9
    MaxFrames = 4
    Tags <- MCTags
    TagSize = 2
    TagOf <- MCTagOf
    Mapped <- MCMapped
    Word = 16
CHECK_DEADLOCK FALSE
INVARIANTS ReadsInBounds FramesIntact HandledInOrder
PROPERTY CloseDrains
