SPECIFICATION LiveSpec
CONSTANTS
    b1 = b1  b2 = b2  b3 = b3  b4 = b4  w1 = w1  w2 = w2  NoBuffer = NoBuffer
    Buffers <- MCBuffers
    Workers <- MCWorkers
    InitialWorkers <- MCInitial
    UDPCap = 1
    MQCap = 0
    MCap = 1
    MirrorConfigured = TRUE
    MaxDatagrams = 2
    SleepCoversRead = FALSE
CHECK_DEADLOCK FALSE
INVARIANT DatagramConserved
PROPERTIES
    EveryDatagramHandled
    ShutdownEnds
