SPECIFICATION MCSpec
CONSTANTS
    Retries <- MCRetries
    HexFiles <- MCHexFiles
    GarbageRetries = {1}
    LinkBound = 1
    FaultKinds = {"lose", "corrupt", "reset"}
    MaxFaults = 1
    Timely = FALSE
    ForcedKill = FALSE
    MaxPending = 1
    MaxCalls = 5
INVARIANTS
    TypeOK
    NoRetryUnderflow
    WorkerOwnsResetFlag
PROPERTIES
    EngineTakesPackets
CHECK_DEADLOCK FALSE
