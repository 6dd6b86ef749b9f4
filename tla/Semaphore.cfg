\* Two tokens, three tasks, one of them executed twice; half seconds.
CONSTANTS
    Nil = Nil  t1 = t1  t2 = t2  t3 = t3  a1 = a1  b1 = b1  a2 = a2  a3 = a3
    Task = {t1, t2, t3}
    Exec = {a1, b1, a2, a3}
    TaskOf <- MCTaskOf
    MaxTokens = 2
    Timeout = {2}
    Second = 2
    MaxClock = 4
SPECIFICATION SemaSpec
INVARIANTS HoldersBounded TokenBacked TokenOwned
CHECK_DEADLOCK FALSE
