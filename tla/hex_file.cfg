SPECIFICATION Spec
CONSTANTS
    Files <- GoodFiles
    BatchSize = 2
    FlashSize = 20
    Boot = 13
    GarbageBase = {0, 4}
    Erased = "ff"
    MaxCalls = 3
INVARIANTS
    TypeOK
    CompletedMeansWhole
    ProgressInRange
PROPERTIES
    VerifyMatchesDevice
    FileIsPackets
CHECK_DEADLOCK FALSE
