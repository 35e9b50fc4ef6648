SPECIFICATION FairSpec
CONSTANTS
    c1 = c1
    c2 = c2
    NoConn = NoConn
    Conn <- TwoConns
    Fd <- TwoFds
    ListenFd = 3
    BUFFER_LENGTH = 2
    SndBuf = 1
    MaxBytes <- TwoAndOne
    Garbage <- NoGarbage
    ITEM_LEGHTH = 1
    Programs <- AllPrograms
CHECK_DEADLOCK FALSE
INVARIANTS
    CountExact
    NoBlockingCall
    WatchesOpenOnly
    EchoConservation
PROPERTIES
    EventuallyRead
    Reclaimed
