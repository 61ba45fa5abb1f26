\* Init and three descendants on one semaphore that is opened with -1, 0 or 1.
SPECIFICATION SemaphoresSpec
CONSTANTS
    MaxPid = 3
    MaxProcs = 5
    MaxTime = 1
    SleepArgs = {0, 1}
    MaxSemRid = 1
    MaxSems = 1
    MaxValue = 2
    SemValues <- Openings
INVARIANTS
    SemWaitersAreBlocked
    ValueCountsWaiters
PROPERTIES
    WaitResultTellsClose
    ImplementsCountingSemaphore
VIEW NoResults
CHECK_DEADLOCK FALSE
