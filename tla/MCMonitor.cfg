CONSTANTS
    k1 = k1
    k2 = k2
    k3 = k3
    Key = {k1, k2, k3}
    Poison = {k2}
    Bad = {k3}
    FirstWorlds <- InOrder
    Worlds <- SomeWorlds
    Concurrency = 2
    GuardMin = 2
    Window = 2
    CrashLimit = 2
    MaxRefusals = 2
    MaxEvents = 2
SPECIFICATION Spec
INVARIANTS
    TypeOK
    EvidenceIsTrue
    OnlyCulpritsHeld
PROPERTIES
    DeadIsItsOwnFault
