SPECIFICATION MCSpec
CONSTANTS
    b1 = b1  b2 = b2  b3 = b3  b4 = b4  b5 = b5
    w1 = w1  w2 = w2  NoBuffer = NoBuffer
    Buffers <- MCBuffers
    Workers <- MCWorkers
    InitialWorkers <- MCInitial
    UDPCap = 1
    MQCap = 1
    MCap = 1
    MirrorConfigured = TRUE
    MaxDatagrams = 3
    SleepCoversRead = FALSE
SYMMETRY Symmetry
CHECK_DEADLOCK FALSE
INVARIANTS
    SlicesOwned
    BytesIntact
    NoDatagramLost
