CONSTANTS
    u1 = u1
    c1 = c1
    User = {u1}
    Chat = {c1}
    Backup = {"socks"}
    MaxPerChat = 1
    MaxPublished = 2
    MaxFaults = 2
    MaxMoves = 2
    MaxEvents = 3
SPECIFICATION FairSpec
INVARIANTS
    TypeOK
    ClosedWasAnswered
    NoRepeat
PROPERTIES
    EventuallyDelivered
CHECK_DEADLOCK FALSE
