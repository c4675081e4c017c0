CONSTANTS
    READ_MAX = 5
    DataLen = 2
    MaxCmds = 3
    MaxRepeats = 0
    MaxNaks = 0
    MaxGarbled = 0
    RoughNoAck = TRUE
SPECIFICATION Spec
PROPERTIES EveryCommandAnswered
CHECK_DEADLOCK FALSE
