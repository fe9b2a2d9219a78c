SPECIFICATION ApiLiveSpec
CONSTANTS
    None = None
    W = 2
    WindowEnd <- MCWindowEnd
    Groupings <- MCGroupings
    Procs = {p1}
    N = 4
    MaxAborts = 3
INVARIANTS
    TypeOK
    TablesAreSound
    ReadingOrder
    ContentMatchesText
    CompleteWhenTold
    AtMostOneLostPerAbort
    LoadIsOfOneText
    ServedIsSettled
    ListedIsBook
PROPERTIES
    SavedIsNeverBoughtAgain
    ImplementsLifecycle
    EventuallyComplete
