SPECIFICATION ReadsSpec
CHECK_DEADLOCK FALSE
CONSTANTS
    N = 4
    W = 2
    Hosts <- SomeHosts
    MaxTries = 3
    MaxWorld = 2
    MaxFaults = 2
    MaxBatches = 2
    Second = 4
    Hards <- SomeHards
    Grants <- SomeGrants
    Latencies = {1, 180, 356}
    Lates = {0, 1}
    MaxLost = 1
    Contexts <- SomeContexts
    MaxDenials = 3
    PutWindow = 2
    MaxSlow = 3
INVARIANTS
    NeverIncomplete
    BatchSafe
    WindowSafe
    JournalSafe
PROPERTIES
    Implements
