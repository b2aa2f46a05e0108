\* A loaded job stores for the first time.
SPECIFICATION Spec
CONSTANTS
    Workers = {w1, w2}
    User = user
    NChunks = 2
    ChunkUnits = 2
    Probe <- DatedServer
    StoreEvery = 2
    MaxSessions = 2
    MaxCalls = 1
    MaxDiskFaults = 0
SYMMETRY WorkerSymmetry
INVARIANT CrashKeepsProgress
CHECK_DEADLOCK FALSE
