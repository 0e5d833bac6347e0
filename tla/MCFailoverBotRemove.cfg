CONSTANTS
    c1 = c1
    c2 = c2
    t1 = t1
    t2 = t2
    Nil = Nil
    Client = {c1, c2}
    Carriable = {c1}
    Tunnel = {t1, t2}
    MaxActive = 1
SPECIFICATION Spec
SYMMETRY Symmetry
PROPERTY
    RemovedIsGone
