\* Every call, every fault, and a controller that also takes connections away.
SPECIFICATION Spec
CONSTANTS
    Workers = {w1, w2}
    Callers = {u1}
    NChunks = 2
    ChunkUnits = 1
    MaxConnections = 2
    Ranged = TRUE
    InitialImages <- NewJob
    ClientOps = {"Resume", "ResumeCanceled", "Pause", "Cancel", "Terminate"}
    FaultKinds = {"resolve", "request", "interrupt", "fatal"}
    Decisions = {1, 2}
    MaxCalls = 3
    MaxTicks = 2
    MaxFaults = 1
SYMMETRY ThreadSymmetry
INVARIANTS
    TypeOK
    ConnectionAccounting
CHECK_DEADLOCK FALSE
