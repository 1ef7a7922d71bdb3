SPECIFICATION Spec
CONSTANTS
    Files <- Parsing
    Uploaded <- TornAndPage
    Remote <- OneBook
    Marked = {}
    Filters <- SharedSale
    Calendar <- LeapDay
    Autoloads = {"night"}
    Retries = 2
    MaxUploads = 1
    MaxRuns = 2
    MaxRemovals = 1
    MaxMishaps = 1
CHECK_DEADLOCK FALSE
INVARIANT TypeOK
INVARIANT SourceAnnounced
INVARIANT SnapshotCatchesUp
PROPERTY NothingLost
INVARIANT NobodyStuck
