SPECIFICATION Spec
CONSTANTS
    workers = 2
    maxWorkers = 64
    Loads <- MCLoads
    Settles = TRUE
INVARIANTS
    WorkersCounted
    MinimumKept
    RetireNeverBlocks
    RegisterNeverBlocks
PROPERTIES
    ShrinksBack
