SPECIFICATION LiveSpec
CONSTANTS
    N = 3
    Lengths = {1, 5}
    Totals <- MCTotals
    WindowLimit = 3
    ChunkLimit = 2
    Replies <- MCReplies
    MaxRetries = 1
INVARIANTS
    TypeOK
    NothingLost
    SizesKept
    CallsBounded
PROPERTIES
    ValidatorIsExact
    EventuallyGrouped
CHECK_DEADLOCK FALSE
