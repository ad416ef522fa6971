CONSTANTS
    Node = {n1, n2}
    Slot <- OneEach
    Queue = {q1}
    Payload = {p1}
    PopConcurrency = 2
    ChannelCapacity = 1
    WireCapacity = 1
    ClientNode = {n1, n2}
    MaxOffset = 3
    MaxElections = 2
    MaxDisconnects = 0
    MaxCrashes = 1
SPECIFICATION Spec
INVARIANTS
    TypeOK
    AtMostOnce
    Conserved
    SubscriberKeepsItsWorkers
    ForwardsArePaired
    ReorderIsBounded
PROPERTY
    ImplementsDelivery
SYMMETRY NodesAlike
CHECK_DEADLOCK FALSE
