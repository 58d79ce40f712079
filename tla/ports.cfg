SPECIFICATION Spec
CONSTANTS
    MaxFd = 3
    MaxConnects = 6
INVARIANTS
    TypeOK
    NothingLeaks
    WorkerUsesOwnPort
CHECK_DEADLOCK FALSE
