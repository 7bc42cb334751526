CONSTANTS
    draft = draft  review = review  finish = finish  ghost = ghost
    again = again  good = good  object = object
    Node = {draft, review, finish}
    END = END
    Entry = draft
    Value = {again, good, object}
    Unset = Unset
    NoFile = NoFile
    Torn = Torn
    Outputs <- Writes
    Text <- WrittenAs
    Key <- ReadsKey
    Mapping <- Branches
    Edge <- Onward
    AsyncCondition = {review}
    MaxIterations = 4
    Invocation = {i1, i2}
SPECIFICATION FairSpec
INVARIANTS TypeOK PositionsReachable OneNodeLost
PROPERTIES InvocationEnds
CHECK_DEADLOCK FALSE
