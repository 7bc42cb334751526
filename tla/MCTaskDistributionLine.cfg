CONSTANTS
    s0 = s0  w1 = w1  w2 = w2  t1 = t1  t2 = t2
    Peer = {s0, w1, w2}
    NoPeer = NoPeer
    Task = {t1, t2}
    Dials <- Line
    Submitter <- FromS
    Target <- OneToW2
    Capable = {w1, w2}
    Equipped = {w1, w2}
    Rank <- ById
    Outcomes = {FALSE}
    Timeouts = {t1}
SPECIFICATION FairSpec
INVARIANTS OutcomeIsReal
PROPERTIES OutcomeFinal GossipReaches TaskAnswered
CHECK_DEADLOCK FALSE
