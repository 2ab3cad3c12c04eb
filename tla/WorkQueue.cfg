SPECIFICATION Spec
CONSTANTS
    w1 = w1
    w2 = w2
    w3 = w3
    b1 = b1
    b2 = b2
    b3 = b3
    Workers <- MCWorkers
    Batches <- MCBatches
    NumItems <- MCNumItems
INVARIANTS
    TypeOK
    NoItemTwice
    ItemsAccounted
    ReturnedIsOver
    IdleCounted
    NoSleeperNeeded
    StopDrains
PROPERTIES
    StopReturns
    ImplementsBatchJobs
