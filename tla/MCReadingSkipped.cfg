SPECIFICATION Spec
CONSTANTS
    N = 2
    PerChunk = 2
    Hard = {}
    Outcomes <- MCOutcomes
    MaxUnwritten = 2
    TapsOutrunFrames = TRUE
INVARIANTS
    ClearedIsAnswered
