SPECIFICATION LivePatientSpec
CONSTANTS
    Retries <- MCRetries
    Tries = 5
    HexFiles <- TwoFiles
    GarbageRetries = {0}
    LinkBound = 2
    FaultKinds = {"lose", "corrupt"}
    MaxFaults = 2
    Timely = TRUE
    ForcedKill = FALSE
    UserOps <- AllInOne
    MaxClicks = 8
    MaxConnects = 1
INVARIANTS
    OutcomeIsComing
PROPERTIES
    OneCommandAtATime
    VerifyAfterProgram
    SequenceVerifies
CHECK_DEADLOCK FALSE
