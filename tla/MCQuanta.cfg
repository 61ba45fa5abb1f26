\* Init and three more processes, each in a block of its own or of one that is gone; up
\* to three quanta.
SPECIFICATION QuantaFairSpec
CONSTANTS
    MaxPid = 3
    WaitArgs = {0, 2}
    MaxProcs = 4
    MAX_PRIORITY = 3
    Requests <- UpToMore
INVARIANTS
    QuantaHealthy
PROPERTIES
    EveryReadyRuns
VIEW NoResults
CHECK_DEADLOCK FALSE
