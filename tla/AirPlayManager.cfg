SPECIFICATION FairSpec
CONSTANTS
    MaxSessions = 2
    RetryAttempts = 1
INVARIANTS
    TypeOK
    ReadyIsWired
    NothingLeftBehind
    ReportedOnce
PROPERTIES
    SetupSettles
    LossIsNoticed
CHECK_DEADLOCK FALSE
