CONSTANTS
    Node = {n1, n2}
    Slot <- OneEach
    Queue = {q1}
    Payload = {p1}
    PopConcurrency = 2
    ChannelCapacity = 1
    WireCapacity = 1
    ClientNode = {n1}
    MaxOffset = 2
    MaxElections = 1
    MaxDisconnects = 0
    MaxCrashes = 0
SPECIFICATION Spec
INVARIANT
    NothingLostWithoutFault
CHECK_DEADLOCK FALSE
