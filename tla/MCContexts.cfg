\* Init and two descendants, who sleep for no tick, one or two.
SPECIFICATION ContextsFairSpec
CONSTANTS
    MaxPid = 2
    MaxProcs = 3
    MaxTime = 2
    SleepArgs = {0, 1, 2}
INVARIANTS
    RunsAsRunning
PROPERTIES
    LostOnlyInSwitches
    SleeperWakes
VIEW NoResults
CHECK_DEADLOCK FALSE
