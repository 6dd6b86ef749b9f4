\* A Release that is called before the effect has committed.
CONSTANTS
    t1 = t1  s1 = s1  s2 = s2
    Task = {t1}
    Server = {s1, s2}
    LeaseDuration = 1
    RowLimit = 45
    MaxRev = 4
    MaxTime = 1
    EarlyRelease = TRUE
    Prompt = FALSE
SYMMETRY ServerSymmetry
SPECIFICATION ReceiverSpec
INVARIANTS ReleaseMeansRetired
CHECK_DEADLOCK FALSE
