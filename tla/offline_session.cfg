SPECIFICATION FairSpec
CONSTANTS
    NoKey = NoKey
    Sales = {s1, s2}
    MaxBatch = 3
    MaxDocs = 7
    MaxFaults = 2
    MaxLost = 2
CHECK_DEADLOCK FALSE
INVARIANTS
    QueueIsAChain
    SoldOnce
    DeliveredIsComplete
PROPERTY SessionEnds
