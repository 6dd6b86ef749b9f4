\* The default queue, where pending is a zset with a score per task.
CONSTANTS
    Nil = Nil  plain = plain  unique = unique  k1 = k1
    Task = {t1, t2, t3}
    Msg = {plain}
    Key = {}
    Group = {}
    SetID = {}
    UniqueKey <- MCUniqueKey
    Default = TRUE
    MaxTime = 1
    MaxScore = 3
    MaxCount = 1
    ForwardLimit = 1
    MaxArchiveSize = 2
    ArchivedExpiration = 1
    GroupMaxSize = 2
    GroupMaxDelay = 1
    GroupGracePeriod = 1
    BatchSize = 1
    PageSizes = {1, 2}
SPECIFICATION Spec
SYMMETRY Symmetry
INVARIANT QueueServable
PROPERTY FifoSpec
CHECK_DEADLOCK FALSE
