SPECIFICATION Spec
CONSTANTS
    w1 = w1  w2 = w2  i1 = i1
    RawFields <- MCRawFields  MaxSets = 2  MaxFields = 2
    Queues = {"kafka", "nsq", "nats", "rawSocket"}  ProducerCap = 2  MaxRetry = 1  MaxMsgs = 3
    Workers <- MCWorkers  Ingesters = {i1}  Messages = 2  Bad <- MCBad
    ConsumerCap = 1  Batch = 2  MaxCrashes = 1
CHECK_DEADLOCK FALSE
INVARIANTS
    QueuedWhole LossesCounted IngestedOnce
PROPERTIES ProducerGoesOn Ingested
