CONSTANTS
    Inputs = {"down", "up"}
    Others = {"focus"}
    MaxQueue = 2
    Size = 4
    BASE = 5
    Files = {"a", "b"}
    Redirected = {0}
    GuestFds <- MCGuestFds
    BrkLimit = 4
    Breaks = {0, 2, 3, 4}
    LoadedBrk = 2
SPECIFICATION Spec
PROPERTY OpenKeepsFiles
CHECK_DEADLOCK FALSE
