SPECIFICATION FairSpec
CONSTANTS
    c1 = c1
    c2 = c2
    page = page
    folder = folder
    edited = edited
    nowhere = nowhere
    NoConn = NoConn
    NoFile = NoFile
    Conn <- TwoConns
    Fd <- OneFd
    ListenFd = 1
    Faults = {"timeout"}
    File <- AllFiles
    Directory = {folder}
    Edited = {edited}
    Hasty = {c1}
    Asks <- MixedTalk
    MaxSize = 1
    Start <- ThreeThere
    MaxSaid <- TwoAndOne
    MAX_EPOLL_EVENTS = 2
    BUFFER_LENGTH = 2
    SndBuf = 3
    SndLowWat = 2
CHECK_DEADLOCK FALSE
INVARIANTS
    AnswersInOrder
    UnitsUnderHeader
    HangsUpOnPostOnly
PROPERTY EventuallyAnswered
