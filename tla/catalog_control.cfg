SPECIFICATION FairSpec
CONSTANTS
 w1 = w1
 w2 = w2
 Workers <- MCWorkers2
 Cli = cli
 Nobody = nobody
 NumIdentities = 0
 Malformed <- NoneMalformed
 MaxId = 0
 BatchSize = 1
 CliBatch = 1
 CliRows = 1
 CliProducts = 1
 RetryLimit = 1
 MaxCycle = 1
 MaxCommands = 1
 MaxLosses = 1
 Environment = {"crash", "dberror", "signal", "stale"}
INVARIANT OldCommandsAreDead
PROPERTY CommandsSettle
