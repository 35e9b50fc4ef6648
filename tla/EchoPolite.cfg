SPECIFICATION FairSpec
CONSTANTS
    c1 = c1
    c2 = c2
    NoConn = NoConn
    Conn <- TwoConns
    Fd <- TwoFds
    ListenFd = 1
    Faults <- NoFaults
    MaxBytes = 3
    MAX_EPOLL_EVENTS = 2
    BUFFER_LENGTH = 2
    SndBuf = 3
    SndLowWat = 2
INVARIANTS
    NoOrphan
    EchoConservation
    DrainBeforeClose
PROPERTIES
    Refinement
    EventuallyEchoed
    Reclaimed
