\* The application calls at any time, also inside AttachEngine.
SPECIFICATION FairSpec
CONSTANTS
    Workers = {w1, w2}
    Callers = {u1}
    Dispatcher = d
    Limits = {0, 1}
    ClientOps = {"Queued", "Paused", "Canceled", "SetSpeedLimit"}
    MaxCalls = 2
INVARIANTS
    TypeOK
    RequestTakesEffect
    FailureIsReported
PROPERTY WaitReturns
CHECK_DEADLOCK FALSE
