\* A trimmed archived task keeps its hash.
CONSTANTS
    Nil = Nil  plain = plain  unique = unique  k1 = k1
    Task = {t1, t2}
    Msg = {plain, unique}
    Key = {k1}
    Group = {g1}
    SetID = {s1, s2}
    UniqueKey <- MCUniqueKey
    Default = FALSE
    MaxTime = 1
    MaxScore = 2
    MaxCount = 1
    ForwardLimit = 1
    MaxArchiveSize = 2
    ArchivedExpiration = 1
    GroupMaxSize = 2
    GroupMaxDelay = 1
    GroupGracePeriod = 1
    BatchSize = 1
    PageSizes = {1, 2}
SPECIFICATION Spec
SYMMETRY Symmetry
INVARIANT ArchivedIsListed
CHECK_DEADLOCK FALSE
