SPECIFICATION FairSpec
CONSTANTS
    w1 = w1
    w2 = w2
    NoWorker = NoWorker
    Worker <- TwoWorkers
    Key = {1, 2, 3}
    CountMod = 2
    Slow = {1}
    Capacity = 2
    MaxRequests = 3
CHECK_DEADLOCK FALSE
INVARIANTS
    CountsExact
    LinkedBothWays
    PageExact
PROPERTY EventuallyServed
