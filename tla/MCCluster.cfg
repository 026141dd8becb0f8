SPECIFICATION MCSpec
CONSTANTS
    p1 = p1  p2 = p2   k1 = k1  k2 = k2
    s1 = s1  s2 = s2  b1 = b1  b2 = b2
    Peers <- MCPeers
    Self = self
    Keys <- MCKeys
    Expiry = 1
    Senders <- MCSenders
    Buffers <- MCBuffers
    Families <- MCFamilies
    Lengths <- MCLengths
    UDPSize = 1500
    MCap = 1
    Cap = 1
    MaxMsgs = 3
CHECK_DEADLOCK FALSE
INVARIANTS FromItsExporter PacketsTrue
PROPERTIES MissedTemplateFound StoppedPeerForgotten Mirrored
