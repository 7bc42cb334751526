CONSTANTS
    p1 = p1  p2 = p2  d1 = d1
    Provider = {p1, p2}
    NoProvider = NoProvider
    Request = {r1, r2}
    Traffic <- PinnedTraffic
    Domain = {d1}
    NoDomain = NoDomain
    HealthyIn <- OnlyUnregistered
    Benchmarked <- BenchmarksLead
    Quality <- MCQuality
    Slowness <- MCSlowness
    Ollama = NoProvider
    Distributed = {p1}
    MaxAttempts = 3
    Cancellation = FALSE
    AdminReset = FALSE
    MaxLost = 0
    Threshold = 2
    RecoveryTimeout = 1
    Window = 2
    HalfOpenMax = 2
SPECIFICATION PersistentSpec
PROPERTIES HalfOpenEnds
