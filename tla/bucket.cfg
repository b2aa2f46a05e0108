\* Two workers and two threads that change the limit.
SPECIFICATION FairSpec
CONSTANTS
    Workers = {w1, w2}
    Setters = {s1, s2}
    Limits <- TwoLimits
    BufferSize = 2
    BurstTicks = 2
    MaxIdle = 1
    MaxCalls = 2
INVARIANTS
    TypeOK
    TokensWithinBurst
    RateHolds
PROPERTIES
    StoppedWorkersLeave
    SomebodyReads
CHECK_DEADLOCK FALSE
