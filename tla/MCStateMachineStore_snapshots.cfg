CONSTANTS
    Node = {n1, n2}
    Queue = {q1}
    Payload = {p1}
    MaxLog = 3
    MaxCarried = 1
    MaxRestarts = 1
SPECIFICATION Spec
SYMMETRY NodeSymmetry
INVARIANTS
    TypeOK
    ReplayedReplicasAgree
    ReplicasContiguous
    MembershipIsCurrent
CHECK_DEADLOCK FALSE
