SPECIFICATION FairSpec
CONSTANTS
    None = None
    Noop = Noop
    Calls = {c1, c2}
    Closers = {d1, d2}
    RetryAttempts = 2
INVARIANTS
    TypeOK
    RetryOnlyWhileWanted
PROPERTIES
    LiveSocketKept
    ConnectSettles
    DisconnectSettles
CHECK_DEADLOCK FALSE
