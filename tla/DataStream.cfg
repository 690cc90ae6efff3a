SPECIFICATION Spec
CONSTANTS
    Requests = {r1, r2}
    None = None
    Empty = Empty
    Broken = Broken
    MaxSent = 2
INVARIANTS TypeOK InOrder FailsOnlyOnBrokenFrames
PROPERTIES ImplementsExchange MessagesArrive
