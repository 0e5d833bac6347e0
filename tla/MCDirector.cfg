CONSTANTS
    c1 = c1
    c2 = c2
    t1 = t1
    t2 = t2
    t3 = t3
    Nil = Nil
    Client = {c1}
    Tunnel = {t1, t2}
    Slots = 2
    MaxFaults = 2
    Configs <- Placements
SYMMETRY Symmetry
SPECIFICATION Spec
INVARIANTS
    TypeOK
    NeverAnotherTunnel
    TproxyReadyHonest
PROPERTIES
    HandedOver
    NoLeak
