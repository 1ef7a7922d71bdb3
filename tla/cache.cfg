SPECIFICATION Spec
CONSTANTS
    NumRequests = 3
    Processes <- TwoProcesses
    Home <- LastApart
    Kinds = {"products", "report"}
    LocalCatalog = {TRUE, FALSE}
    MaxWaiters = 1
    MaxEntries = 2
    MaxEntryBytes = 2
    MaxTotalBytes = 3
    MaxMoves = 2
CHECK_DEADLOCK FALSE
INVARIANT TypeOK
INVARIANT OneAtATime
INVARIANT AnswersFresh
