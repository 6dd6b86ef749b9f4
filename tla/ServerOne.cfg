\* One server with two workers, a crash or shutdown, and a failed call.
CONSTANTS
    Nil = Nil  s1 = s1  s2 = s2  w1 = w1  w2 = w2
    Task = {t1}
    Msg = {0, 1}
    Key = {}
    Group = {}
    SetID = {}
    UniqueKey <- MCUniqueKey
    Default = FALSE
    MaxTime = 1
    MaxScore = 2
    MaxCount = 1
    ForwardLimit = 1
    MaxArchiveSize = 3
    ArchivedExpiration = 1
    Servers = {s1}
    Worker = {w1, w2}
    ServerOf <- OneServer
    Second = 2
    LeaseDuration = 2
    Cutoff = 2
    MaxRetry = 1
    RetryDelay = 0
    Retention = 0
    IsFailure = {TRUE, FALSE}
    MaxCrashes = 1
    MaxFaults = 1
SPECIFICATION ServerSpec
SYMMETRY Symmetry
INVARIANTS LeaseBacked LeaseExclusive
CHECK_DEADLOCK FALSE
