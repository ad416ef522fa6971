CONSTANTS
    Peer = {1, 2}
    Addr = {a1, a2}
    MaxAttempts = 2
    MaxElections = 2
    MaxRestarts = 1
    MaxBuilders = 1
SPECIFICATION StoreSpec
CHECK_DEADLOCK FALSE
INVARIANTS
    StoreTypeOK
    EndedTasksAreRegistered
    CaughtUpDirectoriesAgree
PROPERTY
    RegistrationsSpread
