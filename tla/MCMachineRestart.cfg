CONSTANTS
    N = 2
    DebugModes = {TRUE}
    MaxInterrupts = 0
    Starters = {0}
    Startable = {1}
    MaxStarts = 2
    Stoppers = {1}
    Suspenders = {1}
SPECIFICATION Spec
INVARIANT NoAssertFails
CHECK_DEADLOCK FALSE
