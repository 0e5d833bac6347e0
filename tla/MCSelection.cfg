SPECIFICATION FairSpec
CONSTANTS
    Sub = {"s1", "s2"}
    Link = {"l1", "l2"}
    LinkOf <- MCLinkOf
    Conn = {"k1", "k2", "k3"}
    Name = {"n1", "n2"}
    AddressOf <- MCAddressOf
    GroupOf <- MCGroupOf
    Stored <- MCStored
    Listed <- MCListed
    Working = {"k2", "k3"}
    DeadTicks = 2
    FastCandidates = 1
    ReturnFailsMax = 1
    MaxMoves = 1
    MaxActs = 1
    MaxFaults = 1
    MaxEvents = 2
INVARIANTS TypeOK ConfIsRecorded ChoiceKept
PROPERTIES SelectionStands NewerListStands EventuallyWorks
