SPECIFICATION Spec
CONSTANTS
    Receivers = {one, two, three}
    One = one
    Capacity = 3
    PacketFrames = 2
    Latency = 3
    BacklogSize = 2
    SeqLimit = 4
    FirstSeq = 3
    MaxWritten = 7
INVARIANTS TypeOK BacklogIsNewest TeardownAfterAudio NothingLeftOpen
PROPERTIES ImplementsQueue StreamSettles
CHECK_DEADLOCK FALSE
