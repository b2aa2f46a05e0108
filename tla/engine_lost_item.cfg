\* The controller takes a connection away from a worker that holds an item.
SPECIFICATION Spec
CONSTANTS
    Workers = {w1, w2}
    Callers = {u1}
    NChunks = 2
    ChunkUnits = 1
    MaxConnections = 2
    Ranged = TRUE
    InitialImages <- NewJob
    ClientOps = {"Resume"}
    FaultKinds = {}
    Decisions = {1, 2}
    MaxCalls = 1
    MaxTicks = 1
    MaxFaults = 0
INVARIANT WorkConserved
CHECK_DEADLOCK FALSE
