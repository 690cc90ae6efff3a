SPECIFICATION Spec
CONSTANTS
    Clients = {music, tv}
    Players = {main, pip}
    DefaultPlayer = main
    States = {playing}
    Items = {intro, track}
    None = None
    MaxTime = 1
INVARIANTS TypeOK ActiveExists ListenersAreCurrent
SYMMETRY Symmetry
