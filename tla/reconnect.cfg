SPECIFICATION LiveDialogSpec
CONSTANTS
    Retries <- MCRetries
    Tries = 2
    HexFiles <- TwoPackets
    GarbageRetries = {0, 3}
    LinkBound = 2
    FaultKinds = {"reset"}
    MaxFaults = 1
    Timely = TRUE
    ForcedKill = FALSE
    UserOps <- Nobody
    MaxClicks = 0
    MaxConnects = 3
PROPERTIES
    CommandsAreReported
CHECK_DEADLOCK FALSE
