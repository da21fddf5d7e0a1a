SPECIFICATION Spec
CONSTANTS
    n1 = n1
    n2 = n2
    stranger = stranger
    NULL = NULL
    Nodes <- MCNodes
    Strangers <- MCStrangers
    Calls <- ReplyCalls
    Timed = TRUE
    AllocFails = FALSE
    WhoMasterErrors = TRUE
    EmptyMessages = FALSE
    MaxUnread = 1
    MaxWire = 1
    MaxItems = 2
    MaxKeys = 1
SYMMETRY Symmetry
CHECK_DEADLOCK FALSE
INVARIANTS AnswersMatch
