\* The limit is lifted while a worker waits for tokens.
SPECIFICATION FairSpec
CONSTANTS
    Workers = {w1}
    Setters = {s1}
    Limits <- TwoLimits
    BufferSize = 2
    BurstTicks = 2
    MaxIdle = 1
    MaxCalls = 1
PROPERTY ZeroIsUnlimited
CHECK_DEADLOCK FALSE
