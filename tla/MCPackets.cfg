CONSTANTS
    READ_MAX = 5
    DataLen = 2
    MaxCmds = 3
    MaxRepeats = 1
    MaxNaks = 1
    MaxGarbled = 1
    RoughNoAck = FALSE
SPECIFICATION Spec
INVARIANTS TypeOK ParsedPacketIsWhole
PROPERTIES ImplementsExchange EveryCommandAnswered
CHECK_DEADLOCK FALSE
