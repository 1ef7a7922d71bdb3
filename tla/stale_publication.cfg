SPECIFICATION Spec
CONSTANTS
    NumRequests = 3
    Processes <- TwoProcesses
    Home <- LastApart
    Kinds = {"products"}
    LocalCatalog = {TRUE}
    MaxWaiters = 2
    MaxEntries = 1
    MaxEntryBytes = 1
    MaxTotalBytes = 1
    MaxMoves = 1
CHECK_DEADLOCK FALSE
INVARIANT NextRecalculates
