CONSTANTS
    c1 = c1
    s1 = s1
    Chat = {c1}
    Sub = {s1}
    MaxPerChat = 2
    MaxRecent = 1
    Reserve = 1
    MaxPublished = 2
    MaxFaults = 2
    MaxMoves = 3
SPECIFICATION Spec
INVARIANTS
    TypeOK
    SavedIsSound
PROPERTIES
    ImplementsMailbox
CHECK_DEADLOCK FALSE
