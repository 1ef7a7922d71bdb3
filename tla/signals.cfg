SPECIFICATION Spec
CONSTANTS
    NumClients = 2
    InitialSales <- SmallSales
    Rows <- SmallRows
    Directories <- SmallDirectories
    InitialDirectory <- WholesaleOnly
    FirstDay = 5
    LastDay = 6
    Releases = 2
    ScanSize = 4
    ClientSize = 1
    Workers = {1, 2}
    Automation = 2
    MaxMoves = 2
    CycleDays = 5
    MinDays = 3
    MinGaps = 2
INVARIANT TypeOK
INVARIANT ProjectionExact
INVARIANT EpisodesSound
INVARIANT PublicationOrder
PROPERTY ReportsStay
PROPERTY FeedIsAtomic
PROPERTY WorkerSettles
