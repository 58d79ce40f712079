SPECIFICATION DialogSpec
CONSTANTS
    Retries <- MCRetries
    Tries = 3
    HexFiles <- TwoPackets
    GarbageRetries = {0}
    LinkBound = 2
    FaultKinds = {}
    MaxFaults = 0
    Timely = TRUE
    ForcedKill = FALSE
    UserOps <- StepByStep
    MaxClicks = 1
    MaxConnects = 2
INVARIANTS
    ButtonsMeanConnected
CHECK_DEADLOCK FALSE
