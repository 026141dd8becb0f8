SPECIFICATION IPFIXSafety
CONSTANTS
    NoBuffer = NoBuffer
    Buffers = {b1, b2, b3}
    Workers = {w1}
    InitialWorkers = {w1}
    UDPCap = 1
    MQCap = 0
    MCap = 1
    MirrorConfigured = FALSE
    MaxDatagrams = 2
    SleepCoversRead = TRUE
CHECK_DEADLOCK FALSE
INVARIANT NoSendOnClosed
