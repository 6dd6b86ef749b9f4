\* A config is replaced by one that differs in its headers only; or, with Shifted for
\* Unhashed, by one whose type and payload are the same text.
CONSTANTS
    Nil = Nil
    Error = Error
    Provided <- Unhashed
    BadSpec <- MCBadSpec
    MaxEntries = 3
    MaxChanges = 2
SPECIFICATION PeriodicSpec
INVARIANT NoStaleEntry
CHECK_DEADLOCK FALSE
