\* Init alone.
SPECIFICATION ContextsSpec
CONSTANTS
    MaxPid = 1
    MaxProcs = 2
    MaxTime = 0
    SleepArgs = {0}
PROPERTIES
    SyscallContextStays
VIEW NoResults
CHECK_DEADLOCK FALSE
