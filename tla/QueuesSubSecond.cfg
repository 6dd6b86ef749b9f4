SPECIFICATION QueuesSpec
CONSTANTS
    c1 = c1  c2 = c2  r1 = r1  r2 = r2  t1 = t1  t2 = t2  g1 = g1
    Nil = Nil  Blank = Blank  DefaultQueue = "low"
    Second = 2  DefaultTimeout = 20  StartTime = 1  MaxTime = 2  MaxFaults = 1
    Task = {t1}
    Caller = {c1, c2}
    RDB = {r1, r2}
    RdbOf <- MCRdbOf
    InspectorRdb = r2
    TaskOpts <- MCTaskOpts
    Spare = 0
    CallOpts <- MCShortOpts
    Configs <- MCOneConfig
    Strict = FALSE
    MayBreak = {}
    Patterns <- MCPatterns
    TypeNames <- MCTypeNames
INVARIANT TimeoutKept
