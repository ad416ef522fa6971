SPECIFICATION FairSpec
CONSTANTS
    n1 = n1
    n2 = n2
    n3 = n3
    Node = {n1, n2, n3}
    Lowest = n1
    SnapshotEvery = 2
    LogsToKeep = 1
    MaxTerm = 2
    MaxIndex = 3
    MaxStops = 1
INVARIANTS TypeOK CommittedPrefixesAgree QueueIsWholePrefix
PROPERTIES FollowersCatchUp
CHECK_DEADLOCK FALSE
