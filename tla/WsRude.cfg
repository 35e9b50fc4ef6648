SPECIFICATION Spec
CONSTANTS
    c1 = c1
    c2 = c2
    NoConn = NoConn
    Conn <- TwoConns
    Fd <- OtherFd
    ListenFd = 1
    Faults <- AllFaults
    Habits <- Rude
    Kinds <- Everything
    MaxSaid = 2
    MAX_EPOLL_EVENTS = 2
    BUFFER_LENGTH = 2
    SndBuf = 2
    SndLowWat = 1
SYMMETRY Sym
CHECK_DEADLOCK FALSE
INVARIANTS
    NoLeftoverReply
    HangsUpOnLeaversOnly
    HandshakeFirst
