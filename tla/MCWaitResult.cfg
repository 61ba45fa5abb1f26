\* Init and two children.
SPECIFICATION KernelSpec
CONSTANTS
    MaxPid = 2
    MaxProcs = 3
    MaxTime = 0
    SleepArgs = {0}
PROPERTIES
    WaitReturnsDeadChild
CHECK_DEADLOCK FALSE
