\* Five pids for four PCBs, init, a child, a grandchild and its child among them; a
\* PCB is used again.
SPECIFICATION KernelSpec
CONSTANTS
    MaxPid = 4
    MaxProcs = 4
    MaxTime = 2
    SleepArgs <- UpTo2
INVARIANTS
    KernelTypeOK
    ListsMatchStatus
    WorkConserving
    OneTimerPerSleeper
    TimersOnTime
    FamilyTree
    WaiterHasLiveChild
PROPERTIES
    ReapedByParent
    OnlyOrphansAreMissed
VIEW NoResults
CHECK_DEADLOCK FALSE
