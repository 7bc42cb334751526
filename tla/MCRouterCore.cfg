CONSTANTS
    p1 = p1  p2 = p2  d1 = d1
    Provider = {p1, p2}
    NoProvider = NoProvider
    Request = {r1, r2}
    Traffic <- CoreTraffic
    Domain = {d1}
    NoDomain = NoDomain
    HealthyIn <- OnlyUnregistered
    Benchmarked <- BenchmarksLead
    Quality <- MCQuality
    Slowness <- MCSlowness
    Ollama = NoProvider
    Distributed = {}
    MaxAttempts = 3
    Cancellation = FALSE
    AdminReset = FALSE
    MaxLost = 0
    Threshold = 2
    RecoveryTimeout = 1
    Window = 2
    HalfOpenMax = 2
SPECIFICATION Spec
SYMMETRY Symmetry
INVARIANTS TypeOK LoadIsInFlight CircuitShape
PROPERTIES GateSpec
