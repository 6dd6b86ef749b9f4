\* Two effects, one server, a ledger that admits one of them at a time.
CONSTANTS
    t1 = t1  t2 = t2  s1 = s1  
    Task = {t1, t2}
    Server = {s1}
    LeaseDuration = 1
    RowLimit = 60
    MaxRev = 3
    MaxTime = 2
    EarlyRelease = FALSE
    Prompt = FALSE
SYMMETRY ServerSymmetry
SPECIFICATION ReceiverSpec
INVARIANT LedgerExact
CHECK_DEADLOCK FALSE
