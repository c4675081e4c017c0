CONSTANTS
    N = 2
    a1 = a1 a2 = a2 a3 = a3 a4 = a4
    i1 = i1 i2 = i2
    Ebreak = Ebreak
    Addrs <- MCAddrs
    Instrs <- MCInstrs
    Program <- MCProgram
    MAX_BREAKPOINTS = 2
SPECIFICATION Spec
INVARIANTS StopNamesHit
