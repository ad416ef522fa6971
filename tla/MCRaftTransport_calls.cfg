CONSTANTS
    Node = {n1, n2, n3}
    Peers <- Incomplete
    WellFormed <- Misspelt
    MaxCalls = 2
    MaxCrashes = 1
SPECIFICATION Spec
INVARIANTS
    TypeOK
    GroupsStayApart
    ResponsesAreGenuine
    AnsweredInOrder
    AnswersAreReadable
CHECK_DEADLOCK FALSE
