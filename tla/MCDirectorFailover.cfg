CONSTANTS
    c1 = c1
    c2 = c2
    t1 = t1
    t2 = t2
    t3 = t3
    Nil = Nil
    Client = {c1, c2}
    Tunnel = {t1, t2, t3}
    Slots = 2
    MaxFaults = 1
    Configs <- Failovers
SPECIFICATION FairSpec
INVARIANTS
    ReportHonest
    FailoverReadyHonest
PROPERTIES
    EventuallyApplied
