\* Does a job that was started come to an end?  The controller only adds
\* connections; the application may cancel; connections break.
SPECIFICATION FairSpec
CONSTANTS
    Workers = {w1, w2}
    Callers = {u1}
    NChunks = 2
    ChunkUnits = 1
    MaxConnections = 2
    Ranged = TRUE
    InitialImages <- NewJob
    ClientOps = {"Resume", "Cancel"}
    FaultKinds = {"request", "interrupt", "fatal"}
    Decisions = {2}
    MaxCalls = 2
    MaxTicks = 1
    MaxFaults = 1
INVARIANT RebuildAfterDrain
PROPERTIES
    EventuallySettles
    DrainTerminates
CHECK_DEADLOCK FALSE
