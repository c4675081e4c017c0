CONSTANTS
    N = 2
    DebugModes = {TRUE}
    MaxInterrupts = 1
    Starters = {0}
    Startable = {1}
    MaxStarts = 1
    Stoppers = {0}
    Suspenders = {1}
SPECIFICATION Spec
INVARIANT NoManagerCrash
CHECK_DEADLOCK FALSE
