SPECIFICATION Spec
CONSTANTS
    Ports = {"COM", "USB", "ETH"}
    Responses <- SomeResponses
    Crc <- CrcBytes
    RxSize = 8
    ReadSize = 12
    NoiseBytes <- SomeNoise
    MaxSends = 2
    MaxFaults = 1
INVARIANTS
    TypeOK
    Genuine
    QuietLineDelivers
    Resynchronises
    CrcIsCcitt
CHECK_DEADLOCK FALSE
