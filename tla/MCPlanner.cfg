CONSTANTS
    t1 = t1  t2 = t2  t3 = t3  a1 = a1  a2 = a2
    Task = {t1, t2, t3}
    UnknownTask = UnknownTask
    Agent = {a1, a2}
    Plans <- AnyPlan
    MaxRetries = 1
    MaxRemoved = 1
SPECIFICATION FairSpec
INVARIANTS TypeOK ValidationExact DependenciesFirst RetriesBounded FailureCone
PROPERTIES CompletedStays RunEnds
CHECK_DEADLOCK FALSE
