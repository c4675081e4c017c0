CONSTANTS
    N = 2
    DebugModes = {FALSE}
    MaxInterrupts = 0
    Starters = {0}
    Startable = {1}
    MaxStarts = 1
    Stoppers = {0}
    Suspenders = {1}
SPECIFICATION Spec
PROPERTY StartedHartRuns
