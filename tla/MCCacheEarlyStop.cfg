SPECIFICATION Spec
CONSTANTS
    k1 = k1  k2 = k2  c1 = c1  c2 = c2  t1 = t1  t2 = t2
    NoTemplate = NoTemplate  TornTemplate = TornTemplate  NoClient = NoClient
    Keys <- MCKeys
    Templates = {t1}
    Hash <- MCHash
    shardNo = 2
    Clients = {c1}
    LoadsBeforeStop = FALSE
    DumpRaces = TRUE
INVARIANT CacheUsable
