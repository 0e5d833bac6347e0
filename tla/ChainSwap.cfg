CONSTANTS
    Iface = {br0, br1}
    Nil = Nil
    MaxFaults = 4
SPECIFICATION FairSpec
INVARIANTS
    TypeOK
    SuccessMeansInstalled
PROPERTIES
    CarriedStaysCarried
    EventuallyInstalled
