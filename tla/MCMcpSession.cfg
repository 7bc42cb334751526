CONSTANTS
    Operation = {"call", "describe", "read"}
    Fits = TRUE
    PipesEnd = TRUE
    MaxCancels = 2
SPECIFICATION FairSpec
INVARIANTS TypeOK AnswerIsOwn NoProcessLeft
PROPERTIES SessionEnds
CHECK_DEADLOCK FALSE
