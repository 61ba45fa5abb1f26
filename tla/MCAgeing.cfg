\* Init and two more processes, who age or do not, and sleeps that end at once or late.
SPECIFICATION AgeingFairSpec
CONSTANTS
    MaxPid = 2
    WaitArgs = {0, 2}
    MaxProcs = 3
    MaxTime = 2
    SleepArgs = {0, 1, 2}
    Priorities = {1, 2}
    Gains = {0, 1}
INVARIANTS
    SleepersHaveTimers
PROPERTIES
    NobodyOvertakes
    AgedRuns
VIEW NoResults
CHECK_DEADLOCK FALSE
