SPECIFICATION Spec
CONSTANTS
    MaxConnects = 1
    RetryAttempts = 1
INVARIANTS
    HeartbeatCleared
CHECK_DEADLOCK FALSE
