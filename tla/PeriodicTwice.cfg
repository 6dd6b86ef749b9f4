\* GetConfigs returns the same config twice, and later no more.
CONSTANTS
    Nil = Nil
    Error = Error
    Provided <- Twice
    BadSpec <- MCBadSpec
    MaxEntries = 4
    MaxChanges = 1
SPECIFICATION PeriodicSpec
INVARIANT NoStaleEntry
CHECK_DEADLOCK FALSE
