SPECIFICATION FairSpec
CONSTANTS
    p1 = p1
    p2 = p2
    NoPeer = NoPeer
    Peer <- TwoPeers
    ListenFd = 3
    Fd <- ThreeFds
    EPOLL_SIZE = 4
    MaxSent = 3
CHECK_DEADLOCK FALSE
INVARIANTS
    NothingForgotten
    NoBlockingRead
PROPERTIES
    EventuallyRead
