CONSTANTS
    MaxTerm = 1
    MaxIndex = 2
    MaxBatch = 1
    MaxCrashes = 1
SPECIFICATION Spec
CHECK_DEADLOCK FALSE
INVARIANT
    RestartReplaysTheLog
