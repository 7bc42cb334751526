CONSTANTS
    alpha = alpha  beta = beta  gone = gone  r1 = r1  r2 = r2
    NoAgent = NoAgent
    Agent = {alpha, beta, gone}
    Known = {alpha, beta}
    Run = {r1, r2}
    Plans <- Menu
    RayPlans <- RayMenu
    MaxSteps = 3
    MaxRetries = 1
    MaxLetters = 2
    FailureThreshold = 2
    SuccessThreshold = 2
    Timeout = 1
    RayThreshold = 2
    RayCooldown = 2
    RayLimit = 1
SPECIFICATION FairSpec
INVARIANTS TypeOK CircuitShapes ResultsFollowPlan LettersMatchErrors InputIsLastOutput SendsBounded
PROPERTIES ShutAgentStaysIdle RunsEnd
CHECK_DEADLOCK FALSE
