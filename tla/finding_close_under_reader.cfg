SPECIFICATION Spec
CONSTANTS
    QueueLimit = 1
    Nonblock = {TRUE}
    CloseUnderRead = TRUE
    MaxOpens = 2
    MaxReports = 2
INVARIANTS
    NoUseAfterFree
CHECK_DEADLOCK FALSE
