CONSTANTS
    Node = {n1, n2}
    Slot <- TwoForClients
    Queue = {q1}
    Payload = {p1}
    PopConcurrency = 1
    ChannelCapacity = 2
    WireCapacity = 1
    ClientNode = {n1}
    MaxOffset = 5
    MaxElections = 1
    MaxDisconnects = 1
    MaxCrashes = 0
SPECIFICATION FairSpec
INVARIANT
    LossIsBounded
PROPERTY
    EveryMessageSettles
CHECK_DEADLOCK FALSE
