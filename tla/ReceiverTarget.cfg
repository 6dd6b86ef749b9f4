\* One effect, two servers, every interleaving of their reads and scripts.
CONSTANTS
    t1 = t1  s1 = s1  s2 = s2
    Task = {t1}
    Server = {s1, s2}
    LeaseDuration = 1
    RowLimit = 45
    MaxRev = 4
    MaxTime = 0
    EarlyRelease = FALSE
    Prompt = FALSE
SYMMETRY ServerSymmetry
SPECIFICATION ReceiverSpec
INVARIANTS MarkedHasSource LedgerExact DeliveredOnce ReleaseMeansRetired
PROPERTIES RetiredForever
CHECK_DEADLOCK FALSE
