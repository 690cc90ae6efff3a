SPECIFICATION Spec
CONSTANTS
    Ordinary = {r1, r2}
    Pairings = {p1, p2}
    None = None
    MaxEvents = 1
SYMMETRY Symmetry
INVARIANTS
    TypeOK
    PendingIsHeld
PROPERTIES
    ImplementsExchange
CHECK_DEADLOCK FALSE
