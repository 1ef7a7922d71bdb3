SPECIFICATION OperationsSpec
CONSTANTS
    Parts = {"start", "scenarios", "access", "directory", "info", "season"}
    Containers = {"c1", "c2", "c3"}
    Supported = {"r23", "r24", "r25"}
    Default = "r25"
    Sources <- Reachable
    Orm <- Models
    Churn <- Physical
    Creates <- Created
    Commands <- Operated
    Schemas <- Found
    MaxLaunches = 4
    MaxLosses = 1
    Scenarios = {"s1"}
    Processes = {"p1", "p2"}
    DayLength = 2
    ReportDays = {0, 1}
    MaxHour = 2
    MaxFailures = 1
    MaxTests = 1
    Clients = {"a", "b"}
    MaxSerial = 1
    Existing = {10}
    MaxFaults = 1
    Directories = {"tree", "brands"}
    Readers = {"x", "y", "z"}
    MaxDirectories = 1
    Products = {1, 2, 3}
    InCatalog = {1, 2}
    BatchSize = 1
    Workers = 2
    MaxEntries = 2
    Profiles <- Seasonal
    Offers <- Reported
    LastMonth = 14
CHECK_DEADLOCK FALSE
INVARIANT SentOnce
INVARIANT RevocationTakesHold
INVARIANT SingleFlight
INVARIANT InfoSound
PROPERTY StartsChecked
PROPERTY AdviceFollowsSeason
