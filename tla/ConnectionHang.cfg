SPECIFICATION FairSpec
CONSTANTS
    None = None
    Noop = Noop
    Calls = {c1, c2}
    Closers = {d1, d2}
    RetryAttempts = 2
PROPERTIES
    EveryConnectSettles
CHECK_DEADLOCK FALSE
