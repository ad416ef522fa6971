CONSTANTS
    Peer = {1, 2}
    Addr = {a1}
    MaxAttempts = 2
    MaxElections = 1
    MaxRestarts = 0
SPECIFICATION FairSpec
CHECK_DEADLOCK FALSE
PROPERTY
    EveryNodeRegisters
