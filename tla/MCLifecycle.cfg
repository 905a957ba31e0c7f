SPECIFICATION FairSpec
CONSTANTS
    MaxSize = 1000000
    Trees <- MCTrees
    HardwareThreads = {0, 3}
    Client = {c1, c2}
    MaxFd = 1
INVARIANTS TypeOK BackendFound OneLoop EndsForCause
PROPERTIES Served Freed
CHECK_DEADLOCK FALSE
