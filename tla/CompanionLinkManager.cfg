SPECIFICATION FairSpec
CONSTANTS
    MaxConnects = 2
    RetryAttempts = 1
INVARIANTS
    TypeOK
    EndedStaysClosed
    HeartbeatFollowsSession
PROPERTIES
    ReportedAsAsked
    ConnectSettles
    AskedIsClosed
CHECK_DEADLOCK FALSE
