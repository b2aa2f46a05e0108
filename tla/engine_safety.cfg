\* The engine on a server with Range support, with no reduction of the
\* desired connections and no failure to resolve the host.
SPECIFICATION Spec
CONSTANTS
    Workers = {w1, w2}
    Callers = {u1, u2}
    NChunks = 2
    ChunkUnits = 2
    MaxConnections = 2
    Ranged = TRUE
    InitialImages <- NewOrLoaded
    ClientOps = {"Resume", "Pause", "Cancel"}
    FaultKinds = {"request", "interrupt", "fatal"}
    Decisions = {2}
    MaxCalls = 3
    MaxTicks = 1
    MaxFaults = 1
SYMMETRY ThreadSymmetry
INVARIANTS
    ExclusiveAssignment
    ResumePointSound
    CompletionCountExact
    WorkConserved
    CanceledIsReaped
    WriterOutlivesCompletion
    CompletedFileIntact
PROPERTY JobRefinement
CHECK_DEADLOCK FALSE
