SPECIFICATION LiveSpec
CONSTANTS
    N = 2
    PerChunk = 2
    Hard = {2}
    Outcomes <- MCOutcomes
    MaxUnwritten = 4
    TapsOutrunFrames = FALSE
INVARIANTS
    ClearedIsAnswered
    BookmarkIsPosition
    DurableBookmark
    ShownIsOnRecord
PROPERTIES
    ImplementsLog
    NoDeadEnd
