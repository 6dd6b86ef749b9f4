\* One server that holds two marked tasks and beats in time.
CONSTANTS
    t1 = t1  t2 = t2  s1 = s1
    Task = {t1, t2}
    Server = {s1}
    LeaseDuration = 1
    RowLimit = 200
    MaxRev = 3
    MaxTime = 2
    EarlyRelease = FALSE
    Prompt = TRUE
SYMMETRY ServerSymmetry
SPECIFICATION ReceiverSpec
INVARIANTS HeldLeased
CHECK_DEADLOCK FALSE
