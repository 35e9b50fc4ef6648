SPECIFICATION Spec
CONSTANTS
    c1 = c1
    c2 = c2
    NoConn = NoConn
    Conn <- TwoConns
    Fd <- TwoFds
    ListenFd = 3
    BUFFER_LENGTH = 2
    SndBuf = 1
    MaxBytes <- TwoAndOne
    Garbage <- NoGarbage
    ITEM_LEGHTH = 5
    Programs <- Threads
CHECK_DEADLOCK FALSE
INVARIANT
    OwnThread
