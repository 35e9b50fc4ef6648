SPECIFICATION Spec
CONSTANTS
    c1 = c1
    c2 = c2
    NoConn = NoConn
    Conn <- TwoConns
    Fd <- HighFds
    ListenFd = 1
    Faults <- AllFaults
    MaxBytes = 3
    MAX_EPOLL_EVENTS = 2
    BUFFER_LENGTH = 2
    SndBuf = 2
    SndLowWat = 1
SYMMETRY Sym
CHECK_DEADLOCK FALSE
INVARIANTS
    TypeOK
    PollMirrorsBlocks
    NoStaleDispatch
    OwnBytesInOrder
