SPECIFICATION DialogSpec
CONSTANTS
    Retries <- MCRetries
    Tries = 5
    HexFiles <- ThreePackets
    GarbageRetries = {0}
    LinkBound = 2
    FaultKinds = {"lose", "corrupt"}
    MaxFaults = 2
    Timely = TRUE
    ForcedKill = FALSE
    UserOps <- StepByStep
    MaxClicks = 9
    MaxConnects = 1
INVARIANTS
    DialogTypeOK
    CompletionMeansWritten
    AnswerSettles
    ButtonsGuardCommand
    
    PayloadFresh
    SendCommandExclusive
    

    
    
CHECK_DEADLOCK FALSE
