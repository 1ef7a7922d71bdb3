SPECIFICATION Spec
CONSTANTS
 w1 = w1
 w2 = w2
 Workers <- MCWorkers
 Cli = cli
 Nobody = nobody
 NumIdentities = 2
 Malformed <- NoneMalformed
 MaxId = 2
 BatchSize = 1
 CliBatch = 1
 CliRows = 1
 CliProducts = 1
 RetryLimit = 0
 MaxCycle = 1
 MaxCommands = 3
 MaxLosses = 0
 Environment = {"imports"}
INVARIANT NoSaleLeftBehind
