\* Two workers of each kind; ticks between any two calls up to time 10.
SPECIFICATION ProgramsFairSpec
CONSTANTS
    MaxPid = 4
    MaxProcs = 8
    MaxTime = 17
    SleepArgs = {1, 2, 3, 4}
    MaxSemRid = 1
    MaxSems = 1
    MaxValue = 2
    SemValues = {0}
    FirstMqRid = 100
    MaxMqRid = 100
    MaxMqs = 1
    Capacities = {2}
    Messages = {1, 2, 3, 4}
    NoMessage = 0
    Workers = 2
    CAPACITY = 2
    BusyTime = 10
INVARIANTS
    NoCallFails
    OnlyWhatWasSent
PROPERTIES
    TestsEnd
CHECK_DEADLOCK FALSE
