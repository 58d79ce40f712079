SPECIFICATION LiveDialogSpec
CONSTANTS
    Retries <- MCRetries
    Tries = 3
    HexFiles <- TwoPackets
    GarbageRetries = {0}
    LinkBound = 2
    FaultKinds = {}
    MaxFaults = 0
    Timely = TRUE
    ForcedKill = FALSE
    UserOps <- Everyday
    MaxClicks = 5
    MaxConnects = 1
PROPERTIES
    ButtonsReturn
CHECK_DEADLOCK FALSE
