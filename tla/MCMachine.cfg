CONSTANTS
    N = 3
    DebugModes = {TRUE, FALSE}
    MaxInterrupts = 0
    Starters = {0}
    Startable = {1, 2}
    MaxStarts = 1
    Stoppers = {0}
    Suspenders = {1}
SPECIFICATION Spec
INVARIANTS TypeOK NoAssertFails NoManagerCrash StubServesHalted HaltAllIsAll
PROPERTIES StepIsSynchronous BreakpointStopsMachine DrivesCoresRight
