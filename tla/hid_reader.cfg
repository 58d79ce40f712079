SPECIFICATION LiveSpec
CONSTANTS
    QueueLimit = 1
    Nonblock = {TRUE}
    CloseUnderRead = FALSE
    MaxOpens = 2
    MaxReports = 5
INVARIANTS
    TypeOK
    NoUseAfterFree
    TerminatedReaderUnlocks
    
PROPERTIES
    ReportsInOrder
    
    ReaderIsWoken
CHECK_DEADLOCK FALSE
