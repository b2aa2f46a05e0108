\* One file by a Download and two Loads of its image, one application thread.
SPECIFICATION FairSpec
CONSTANTS
    d = d
    l1 = l1
    l2 = l2
    Requests = {d, l1, l2}
    Kind <- KindOf
    File <- FileOf
    Path <- PathOf
    Callers = {c1}
    Threads = {t1, t2}
    MaxRedirects = 3
    Connections = 1
    RetryKinds <- DownloadsOnly
    Word = 64
    IntLimit = 8
    MinChunkSize = 2
    MaxChunkSize = 9
    JobCap = 4
    SlowLimit = 3
    PerConnection = 2
INVARIANTS
    TypeOK
    NoSelfDeadlock
    RefusedLoadLeavesNoTrace
    LoadsAreExclusive
PROPERTIES
    RequestsSettle
    DestructorReturns
CHECK_DEADLOCK FALSE
