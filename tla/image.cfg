\* Two sessions of one job, with crashes, a server whose file changes, a user who
\* removes the output file, and an image write the disk does not take.
SPECIFICATION Spec
CONSTANTS
    Workers = {w1, w2}
    User = user
    NChunks = 2
    ChunkUnits = 2
    Probe <- DatedServer
    StoreEvery = 1
    MaxSessions = 2
    MaxCalls = 1
    MaxDiskFaults = 1
SYMMETRY WorkerSymmetry
INVARIANTS
    TypeOK
    ImageSound
    OneVersion
    LossBounded
    TerminatePersists
    NothingComesBack
CHECK_DEADLOCK FALSE
