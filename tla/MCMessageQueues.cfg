\* Init and three descendants on one queue of capacity 0, 1 or 2; two messages; a
\* sleep(0) keeps a process off the CPU until the next tick.
SPECIFICATION QueuesSpec
CONSTANTS
    MaxPid = 3
    MaxProcs = 5
    MaxTime = 0
    SleepArgs = {0}
    FirstMqRid = 100
    MaxMqRid = 100
    MaxMqs = 1
    Capacities = {0, 1, 2}
    Messages = {m1, m2}
    NoMessage = NoMessage
INVARIANTS
    MqWaitersAreBlocked
    RingConsistent
PROPERTIES
    MqResultTellsClose
    ImplementsMessageChannel
VIEW NoResults
CHECK_DEADLOCK FALSE
