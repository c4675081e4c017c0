CONSTANTS
    Harts = {h1, h2}
    M = 3
    FetchOps <- MCFetchOps
    MinMax = {"AMAXU"}
    Operands = {1, 2}
SPECIFICATION Spec
PROPERTIES NeverLowered BrokenFails
