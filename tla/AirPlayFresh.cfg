SPECIFICATION FairSpec
CONSTANTS
    MaxSessions = 2
    RetryAttempts = 1
INVARIANTS
    StreamsAreFresh
CHECK_DEADLOCK FALSE
