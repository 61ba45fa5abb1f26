\* Four processes, one after another in three blocks; two ids for one resource.
SPECIFICATION ResourcesSpec
CONSTANTS
    MaxPid = 3
    WaitArgs = {0, 2}
    MaxProcs = 3
    MaxTime = 0
    SleepArgs = {}
    MaxResources = 1
    Ids = {a, b}
    Types = {s, t}
    MaxFd = 2
INVARIANTS
    ProcessesListed
    DescriptorsLinked
    DescriptorsAccounted
PROPERTIES
    OpenResourcesStay
SYMMETRY Names
VIEW NoResults
CHECK_DEADLOCK FALSE
