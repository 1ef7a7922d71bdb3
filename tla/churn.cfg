SPECIFICATION Spec
CONSTANTS
    NumClients = 2
    FirstDay = 2
    LastDay = 3
    PageSize = 1
    PagesPerRun = 2
    MaxAttempts = 2
    DailyLimit = 2
    Cooldown = 1
    MaxMoves = 3
INVARIANT TypeOK
INVARIANT OnlyThePageInFlight
PROPERTY LedgerStaysTrue
PROPERTY JobComesToRest
