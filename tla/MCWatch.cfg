CONSTANTS
    c1 = c1
    c2 = c2
    t1 = t1
    t2 = t2
    Nil = Nil
    Client = {c1, c2}
    Carriable = {c1, c2}
    Tunnel = {t1}
    MaxActive = 1
    MaxEdits = 1
SPECIFICATION MCSpec
INVARIANTS
    TypeOK
PROPERTIES
    ImplementsFailoverConfig
    MakeBeforeBreak
    RestoredToProbedServer
    StoppedStaysStopped
