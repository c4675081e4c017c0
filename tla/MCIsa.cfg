CONSTANTS
    W = 4
    Registers = {0, 1, 2}
    Immediates <- MCImmediates
    Begin <- MCBegin
    Path <- MCPath
SPECIFICATION Spec
INVARIANT ExecutesRiscv
