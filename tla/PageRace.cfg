SPECIFICATION Spec
CONSTANTS
    w1 = w1
    w2 = w2
    NoWorker = NoWorker
    Worker <- TwoWorkers
    Key = {1, 2}
    CountMod = 256
    Slow = {}
    Capacity = 2
    MaxRequests = 2
CHECK_DEADLOCK FALSE
INVARIANT NoWorkerDies
