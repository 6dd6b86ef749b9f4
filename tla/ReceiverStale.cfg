\* Two servers select the same head; one runs and retries it in between.
CONSTANTS
    t1 = t1  s1 = s1  s2 = s2
    Task = {t1}
    Server = {s1, s2}
    LeaseDuration = 1
    RowLimit = 45
    MaxRev = 5
    MaxTime = 1
    EarlyRelease = FALSE
    Prompt = FALSE
SYMMETRY ServerSymmetry
SPECIFICATION ReceiverSpec
INVARIANTS DeliversStored
CHECK_DEADLOCK FALSE
