SPECIFICATION ProcessSpec
CONSTANTS
    protos = {"sFlow", "ipfix"}
    Cached = {"ipfix"}
    Faults = TRUE
    p1 = p1  p2 = p2  p3 = p3  p4 = p4  m1 = m1  m2 = m2
    Procs <- MCProcs
    pid <- MCpid
    Others <- MCOthers
    Serial = TRUE
    Monitors <- MCMonitors
    Backend <- MCBackend
    MaxTime = 2
    MaxCount = 1
CHECK_DEADLOCK FALSE
INVARIANTS ReturnsLast OneNamedInstance RatesWithinRun
PROPERTIES SignalEnds SignalSaves
