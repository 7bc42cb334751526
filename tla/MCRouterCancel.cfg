CONSTANTS
    p1 = p1  p2 = p2  d1 = d1
    Provider = {p1, p2}
    NoProvider = NoProvider
    Request = {r1, r2}
    Traffic <- BypassTraffic
    Domain = {d1}
    NoDomain = NoDomain
    HealthyIn <- OnlyUnregistered
    Benchmarked <- BenchmarksLead
    Quality <- MCQuality
    Slowness <- MCSlowness
    Ollama = NoProvider
    Distributed = {p1}
    MaxAttempts = 3
    Cancellation = TRUE
    AdminReset = FALSE
    MaxLost = 1
    Threshold = 2
    RecoveryTimeout = 1
    Window = 2
    HalfOpenMax = 2
SPECIFICATION Spec
SYMMETRY Symmetry
INVARIANTS LoadCoversInFlight
