\* Lists of different configs, two changes of the provider.
CONSTANTS
    Nil = Nil
    Error = Error
    Provided <- Distinct
    BadSpec <- MCBadSpec
    MaxEntries = 4
    MaxChanges = 2
SPECIFICATION PeriodicFairSpec
INVARIANTS EntriesInSync StoppedClean
PROPERTIES CatchesUp ShutdownReturns
CHECK_DEADLOCK FALSE
