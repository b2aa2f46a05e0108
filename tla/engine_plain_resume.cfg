\* A server without Range support: pause, then resume.
SPECIFICATION Spec
CONSTANTS
    Workers = {w1}
    Callers = {u1}
    NChunks = 1
    ChunkUnits = 2
    MaxConnections = 1
    Ranged = FALSE
    InitialImages <- NewJob
    ClientOps = {"Resume", "Pause"}
    FaultKinds = {}
    Decisions = {1}
    MaxCalls = 3
    MaxTicks = 0
    MaxFaults = 0
INVARIANT CompletedFileIntact
CHECK_DEADLOCK FALSE
