CONSTANTS
    MaxTerm = 3
    MaxIndex = 4
    MaxBatch = 2
    MaxCrashes = 2
SPECIFICATION Spec
CHECK_DEADLOCK FALSE
INVARIANTS
    TypeOK
    AcknowledgedEntriesSurvive
    RecoveredLogIsOrdered
    PositionsStayOrdered
PROPERTY
    NothingSavedRegresses
