\* Init and three descendants, a semaphore opened with 0 or -1 and a queue of one slot, and
\* one block in the PCBPtr pool more than the children take.
SPECIFICATION Spec
CONSTANTS
    MaxPid = 3
    MaxProcs = 5
    MaxTime = 0
    SleepArgs = {0}
    MaxSemRid = 1
    MaxSems = 1
    MaxValue = 1
    SemValues <- OwingOrEmpty
    FirstMqRid = 100
    MaxMqRid = 100
    MaxMqs = 1
    Capacities = {1}
    Messages = {m1}
    NoMessage = NoMessage
INVARIANTS
    OneReasonToWait
    PtrsAccounted
VIEW NoResults
CHECK_DEADLOCK FALSE
