CONSTANTS
    W = 10
    Code <- MCCode
    Written = {"SSTATUS", "SIE", "STVEC", "SIP"}
    Operands <- MCOperands
    Ins = {0, 4}
    Debug = FALSE
SPECIFICATION Spec
PROPERTY TrapDisablesInterrupts
