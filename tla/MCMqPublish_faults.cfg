CONSTANTS
    Node = {n1, n2, n3}
    Queue = {q1}
    Payload = {c1, c2}
    QueueOf <- OneQueue
    Peers <- Incomplete
    MaxHops = 3
    MaxElections = 2
    MaxFaults = 1
SPECIFICATION FairSpec
INVARIANTS
    TypeOK
    AnsweredOffsetIsPublished
    PublishedOnceUndisturbed
PROPERTY
    EveryCallAnswered
CHECK_DEADLOCK FALSE
