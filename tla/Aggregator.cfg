\* Two tasks in one group, two checks of any servers.
CONSTANTS
    Nil = Nil
    Task = {t1, t2, a1, a2, a3, a4, a5, a6}
    ClientTask = {t1, t2}
    Msg <- MCMsg
    Key = {}
    Group = {g1}
    SetID = {s1, s2, s3, s4, s5}
    UniqueKey <- MCUniqueKey
    Default = FALSE
    MaxTime = 1
    MaxScore = 6
    MaxCount = 1
    ForwardLimit = 1
    MaxArchiveSize = 2
    ArchivedExpiration = 1
    Check = {c1, c2}
    GroupMaxSize = 2
    GroupMaxDelay = 0
    GroupGracePeriod = 1
    AggregationTimeout = 1
    MaxCheckAge = 1
    MaxFaults = 2
SPECIFICATION AggregatorFairSpec
INVARIANTS OwnsSet NoneDropped
PROPERTY EveryAggregated
