\* All components, concurrent calls, a handler that may never return.
CONSTANTS
    Caller = {u1, u2}
    Token = {k1}
    Unset = {}
    MaxChecks = 1
    MaxTasks = 2
SPECIFICATION LifecycleFairSpec
INVARIANTS ShutdownOrdered
PROPERTIES NothingPulled CallsReturn
