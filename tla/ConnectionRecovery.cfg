SPECIFICATION RecoveryFairSpec
CONSTANTS
    MaxAttempts = 2
    HasInterval = TRUE
    MaxGeneration = 3
    NoTimer = NoTimer
INVARIANTS
    RecoveryTypeOK
    RecoveryHasOneDriver
PROPERTIES
    RecoveryEnds
CHECK_DEADLOCK FALSE
