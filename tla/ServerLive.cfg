\* One server with one worker, under fairness.
CONSTANTS
    Nil = Nil  s1 = s1  s2 = s2  w1 = w1  w2 = w2
    Task = {t1}
    Msg = {0, 1}
    Key = {}
    Group = {}
    SetID = {}
    UniqueKey <- MCUniqueKey
    Default = FALSE
    MaxTime = 1
    MaxScore = 2
    MaxCount = 1
    ForwardLimit = 1
    MaxArchiveSize = 3
    ArchivedExpiration = 1
    Servers = {s1}
    Worker = {w1}
    ServerOf <- OneServer
    Second = 2
    LeaseDuration = 1
    Cutoff = 2
    MaxRetry = 1
    RetryDelay = 1
    Retention = 1
    IsFailure = {TRUE}
    MaxCrashes = 1
    MaxFaults = 1
SPECIFICATION FairSpec
PROPERTY EverySettled
CHECK_DEADLOCK FALSE
