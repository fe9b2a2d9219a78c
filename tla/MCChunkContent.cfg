SPECIFICATION LiveSpec
CONSTANTS
    Runs = {r1, r2}
    NoRun = NoRun
    Nothing = Nothing
    QuestionReplies <- MCQuestionReplies
    BreakdownReplies <- MCBreakdownReplies
    Spans = {"span"}
    Native = "en"
    MaxRetries = 2
CHECK_DEADLOCK FALSE
INVARIANTS
    TypeOK
    MadeIsUsable
    ShownInOrder
PROPERTIES
    ImplementsChunkLog
    EveryRunEnds
