SPECIFICATION ApiSpec
CONSTANTS
    None = None
    W = 2
    WindowEnd <- MCWindowEnd
    Groupings <- MCGroupings
    Procs = {p1}
    N = 2
    MaxAborts = 0
INVARIANTS
    LoadedHasQuestions
