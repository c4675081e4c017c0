CONSTANTS
    Harts = {h1, h2}
    M = 3
    FetchOps <- MCFetchOps
    MinMax = {"AMAX", "AMINU"}
    Operands = {1, 2}
SPECIFICATION Spec
INVARIANTS TypeOK
PROPERTIES ImplementsSharedWord AtomicUnlessDisturbed RetryNeedsChanges
