SPECIFICATION DialogSpec
CONSTANTS
    Retries <- MCRetries
    Tries = 3
    HexFiles <- TwoPackets
    GarbageRetries = {0}
    LinkBound = 4
    FaultKinds = {}
    MaxFaults = 0
    Timely = FALSE
    ForcedKill = FALSE
    UserOps <- Programmer
    MaxClicks = 2
    MaxConnects = 1
INVARIANTS
    CompletionMeansWritten
CHECK_DEADLOCK FALSE
