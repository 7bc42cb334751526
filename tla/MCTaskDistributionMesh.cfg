CONSTANTS
    s0 = s0  w1 = w1  w2 = w2  t1 = t1  t2 = t2
    Peer = {s0, w1, w2}
    NoPeer = NoPeer
    Task = {t1}
    Dials <- Mesh
    Submitter <- FromS
    Target <- NoTarget
    Capable = {w1, w2}
    Equipped = {w1, w2}
    Rank <- ById
    Outcomes = {FALSE}
    Timeouts = {}
SPECIFICATION FairSpec
INVARIANTS TypeOK OutcomeIsReal
PROPERTIES RunsOnce TaskAnswered
CHECK_DEADLOCK FALSE
