SPECIFICATION Spec
CONSTANTS
 w1 = w1
 w2 = w2
 Workers <- MCWorkers
 Cli = cli
 Nobody = nobody
 NumIdentities = 2
 Malformed <- MCMalformed
 MaxId = 2
 BatchSize = 1
 CliBatch = 2
 CliRows = 2
 CliProducts = 1
 RetryLimit = 1
 MaxCycle = 2
 MaxCommands = 2
 MaxLosses = 0
 Environment = {"imports", "crash", "cli", "deletes"}
INVARIANT TypeOK
INVARIANT Covered
INVARIANT RefreshCovers
INVARIANT SnapshotsHold
PROPERTY CheckpointAdvances
PROPERTY ChecksAreVisible
PROPERTY OnlyCliLocksOut
