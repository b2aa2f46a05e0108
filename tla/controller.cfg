\* A loaded job and a slow one compete for four threads.
SPECIFICATION FairSpec
CONSTANTS
    a = a
    b = b
    Jobs <- TwoJobs
    Slow = {b}
    Loaded = {a}
    Capacity = 4
    MaxConnections <- NearBounds
INVARIANTS
    TypeOK
    TrimFollowsWait
PROPERTIES
    CapacityRespected
    Damped
    BacksOff
    SoleJobFills
