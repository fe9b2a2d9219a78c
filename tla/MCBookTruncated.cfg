SPECIFICATION Spec
CONSTANTS
    None = None
    W = 2
    WindowEnd <- MCWindowEnd
    Groupings <- MCGroupings
    Procs = {p1}
    N = 3
    MaxAborts = 1
INVARIANTS
    SuccessCoversBook
