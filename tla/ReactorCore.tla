----------------------------- MODULE ReactorCore -----------------------------
(***************************************************************************)
(* The single-threaded epoll reactor of `2 react/reactor_server_my.c`,     *)
(* which `3 http/httpserver.c` and `4 websocket/websocket_server_my.c`     *)
(* carry unchanged: control blocks in a growing list of blocks, a run loop *)
(* that dispatches one batch of ready events at a time, and the callback   *)
(* that accepts connections.  The callbacks that receive and send belong   *)
(* to the three servers and are in the modules that extend this one.       *)
(*                                                                         *)
(* The kernel (descriptor table, epoll, sockets) and the clients are the   *)
(* environment.  A callback is one step: it runs alone, and only its first *)
(* system call reads state that a client may change.                       *)
(***************************************************************************)
EXTENDS Integers, FiniteSets, Sequences

CONSTANTS
    Conn,               \* connections clients may open, each at most once
    NoConn,             \* not a connection
    Fd,                 \* descriptors accept() may return
    ListenFd,           \* descriptor of the listening socket
    MAX_EPOLL_EVENTS,   \* control blocks in a block, and events in a batch
    BUFFER_LENGTH,      \* most bytes one recv() takes
    SndBuf,             \* capacity of a socket's send buffer
    SndLowWat,          \* free space from which a socket counts as writable
    Faults              \* the rare environment events that may happen

FaultKinds == {"fcntl", "eagain", "timeout", "pipe"}

ASSUME ConnAssumption   == NoConn \notin Conn
ASSUME FdAssumption     == Fd \subseteq Nat /\ ListenFd \in Nat \ Fd
ASSUME SizeAssumption   == MAX_EPOLL_EVENTS \in Nat \ {0} /\ BUFFER_LENGTH \in Nat \ {0}
ASSUME SocketAssumption == SndBuf \in Nat /\ SndLowWat \in 1..SndBuf
ASSUME FaultAssumption  == Faults \subseteq FaultKinds

VARIABLES
    (* kernel *)
    fdtab,      \* fdtab[fd]: the connection fd is open on, or NoConn
    interest,   \* interest[fd]: the events fd is registered for, {} if it is not
    backlog,    \* connections waiting to be accepted, in order
    stage,      \* stage[c]: "idle", "queued", "accepted" or "closed"
    peer,       \* peer[c]: what the client's end has done, as the server's kernel knows it
    rx,         \* rx[c]: bytes received and not yet read by the server
    inflight,   \* inflight[c]: bytes the server wrote and the client did not take yet
    (* reactor *)
    ev,         \* ev[s]: the control block in slot s
    blkcnt,     \* blocks of control blocks allocated
    batch,      \* events the last epoll_wait returned that are still to be dispatched
    alive       \* the process has not been killed by a signal

kernelVars  == <<fdtab, interest, backlog, stage, peer, rx, inflight>>
reactorVars == <<ev, blkcnt, batch, alive>>
coreVars    == <<kernelVars, reactorVars>>

AllFd   == Fd \cup {ListenFd}
Min2(a, b) == IF a <= b THEN a ELSE b
Max2(a, b) == IF a >= b THEN a ELSE b

-----------------------------------------------------------------------------
(* Control blocks *)

Events   == {"IN", "OUT"}
Callback == {"none", "accept_cb", "recv_cb", "send_cb"}

\* ntyreactor_idx: the control block of a descriptor is a place in a block.
Block(fd) == fd \div MAX_EPOLL_EVENTS
Slot_OneBlock(fd) == <<0, fd % MAX_EPOLL_EVENTS>>       \* mutant: ignores blkidx
Slot(fd)  == <<Block(fd), fd % MAX_EPOLL_EVENTS>>
Slots     == {Slot(fd) : fd \in AllFd}

\* ntyreactor_idx allocates blocks until the one it needs exists.
Grown(cnt, fd) == Max2(cnt, Block(fd) + 1)

NtyEvent == [fd : AllFd \cup {0}, events : SUBSET Events, callback : Callback, status : {0, 1}]

ZeroBlock == [fd |-> 0, events |-> {}, callback |-> "none", status |-> 0]

EventSet(e, fd, cb)  == [e EXCEPT !.fd = fd, !.callback = cb, !.events = {}]
EventAdd(e, events)  == [e EXCEPT !.events = events, !.status = 1]
EventDel_KeepsStatus(e) == e                            \* mutant: status not reset
EventDel(e)          == [e EXCEPT !.status = 0]

\* epoll_ctl as nty_event_add calls it: MOD of an absent descriptor and ADD of a
\* present one fail (ENOENT, EEXIST) and leave the registration as it was.
EpollAdd(reg, e, events) ==
    IF (e.status = 1) = (reg[e.fd] # {}) THEN [reg EXCEPT ![e.fd] = events] ELSE reg

EpollDel(reg, e) == IF e.status = 1 THEN [reg EXCEPT ![e.fd] = {}] ELSE reg

\* The sequence del, set, add on one control block, as the callbacks use it.
Rearm(fd, cb, events) ==
    LET e == EventSet(EventDel(ev[Slot(fd)]), fd, cb)
    IN  /\ ev' = [ev EXCEPT ![Slot(fd)] = EventAdd(e, events)]
        /\ interest' = EpollAdd(EpollDel(interest, ev[Slot(fd)]), e, events)

\* nty_event_del and close: close() also takes the descriptor out of epoll.
DelAndClose(fd) ==
    /\ ev' = [ev EXCEPT ![Slot(fd)] = EventDel(@)]
    /\ interest' = [EpollDel(interest, ev[Slot(fd)]) EXCEPT ![fd] = {}]
    /\ fdtab' = [fdtab EXCEPT ![fd] = NoConn]
    /\ stage' = [stage EXCEPT ![fdtab[fd]] = "closed"]

\* nty_event_del alone: the descriptor stays open and nothing watches it.
DelOnly(fd) ==
    /\ ev' = [ev EXCEPT ![Slot(fd)] = EventDel(@)]
    /\ interest' = EpollDel(interest, ev[Slot(fd)])
    /\ UNCHANGED <<fdtab, stage>>

-----------------------------------------------------------------------------
(* Sockets *)

PeerStates == {"open", "fin", "reset", "pipe", "timeout"}
Stages     == {"idle", "queued", "accepted", "closed"}

Gone(c)     == peer[c] \in {"reset", "pipe", "timeout"}
Readable(c) == rx[c] # <<>> \/ peer[c] # "open"
Writable(c) == SndBuf - inflight[c] >= SndLowWat \/ Gone(c)
Room(c)     == SndBuf - inflight[c]

Readiness(fd) ==
    IF fd = ListenFd
    THEN IF backlog # <<>> THEN {"IN"} ELSE {}
    ELSE IF fdtab[fd] = NoConn THEN {}
    ELSE {x \in Events : \/ x = "IN" /\ Readable(fdtab[fd])
                         \/ x = "OUT" /\ Writable(fdtab[fd])}

\* What epoll_wait reports of fd.
Ready(fd) == Readiness(fd) \cap interest[fd]

\* Readiness may be reported and gone when recv() runs ("eagain").
Spurious(fd) == /\ "eagain" \in Faults
                /\ fd \in Fd /\ interest[fd] = {"IN"} /\ Ready(fd) = {}

Owner(fd) == IF fd = ListenFd THEN NoConn ELSE fdtab[fd]

CoreInit ==
    /\ fdtab = [fd \in Fd |-> NoConn]
    /\ interest = [fd \in AllFd |-> IF fd = ListenFd THEN {"IN"} ELSE {}]
    /\ backlog = <<>>
    /\ stage = [c \in Conn |-> "idle"]
    /\ peer = [c \in Conn |-> "open"]
    /\ rx = [c \in Conn |-> <<>>]
    /\ inflight = [c \in Conn |-> 0]
    /\ ev = [s \in Slots |-> IF s = Slot(ListenFd)
                THEN EventAdd(EventSet(ZeroBlock, ListenFd, "accept_cb"), {"IN"})
                ELSE ZeroBlock]
    /\ blkcnt = Grown(1, ListenFd)
    /\ batch = {}
    /\ alive = TRUE

-----------------------------------------------------------------------------
(* Clients and network *)

Reaching(c) == stage[c] \in {"queued", "accepted"}

Connect(c) ==
    /\ stage[c] = "idle"
    /\ stage' = [stage EXCEPT ![c] = "queued"]
    /\ backlog' = Append(backlog, c)
    /\ UNCHANGED <<fdtab, interest, peer, rx, inflight, reactorVars>>

Arrive(c, bytes) ==
    /\ Reaching(c) /\ peer[c] = "open"
    /\ rx' = [rx EXCEPT ![c] = @ \o bytes]
    /\ UNCHANGED <<fdtab, interest, backlog, stage, peer, inflight, reactorVars>>

\* The client will send no more; it may go on reading.
ClientFin(c) ==
    /\ Reaching(c) /\ peer[c] = "open"
    /\ peer' = [peer EXCEPT ![c] = "fin"]
    /\ UNCHANGED <<fdtab, interest, backlog, stage, rx, inflight, reactorVars>>

Lose(c, how) ==
    /\ Reaching(c)
    /\ peer' = [peer EXCEPT ![c] = how]
    /\ inflight' = [inflight EXCEPT ![c] = 0]
    /\ UNCHANGED <<fdtab, interest, backlog, stage, rx, reactorVars>>

\* RST while both directions were open: recv and send fail with ECONNRESET.
ClientReset(c) == peer[c] = "open" /\ Lose(c, "reset")

\* A client that closed its socket answers what the server still sends with
\* RST: from then on send() raises SIGPIPE.
ClientPipe(c) ==
    /\ "pipe" \in Faults
    /\ peer[c] = "fin" /\ inflight[c] > 0 /\ Lose(c, "pipe")

\* Retransmissions of what the server sent run out (ETIMEDOUT, EHOSTUNREACH).
PeerTimeout(c) ==
    /\ "timeout" \in Faults
    /\ peer[c] \in {"open", "fin"} /\ inflight[c] > 0 /\ Lose(c, "timeout")

ClientRead(c) ==
    /\ Reaching(c) /\ inflight[c] > 0
    /\ inflight' = [inflight EXCEPT ![c] = @ - 1]
    /\ UNCHANGED <<fdtab, interest, backlog, stage, peer, rx, reactorVars>>

CoreClient(c) ==
    \/ Connect(c) \/ ClientFin(c) \/ ClientReset(c) \/ ClientPipe(c)
    \/ PeerTimeout(c) \/ ClientRead(c)

-----------------------------------------------------------------------------
(* The run loop *)

Reported(fd) == IF Ready(fd) # {} THEN Ready(fd) ELSE interest[fd]

\* When more than MAX_EPOLL_EVENTS descriptors are ready epoll_wait returns
\* that many of them, and the others wait for the next call.
EpollWait ==
    /\ alive /\ batch = {}
    /\ \E fds \in SUBSET {fd \in AllFd : Ready(fd) # {} \/ Spurious(fd)} :
          /\ fds # {}
          /\ \/ Cardinality(fds) = MAX_EPOLL_EVENTS
             \/ /\ Cardinality(fds) < MAX_EPOLL_EVENTS
                /\ \A fd \in AllFd : Ready(fd) # {} => fd \in fds
          /\ batch' = {[ptr |-> Slot(fd), events |-> Reported(fd), conn |-> Owner(fd)] :
                           fd \in fds}
    /\ UNCHANGED <<kernelVars, ev, blkcnt, alive>>

\* epoll_wait returns 0 after a second without events.
EpollTimeout ==
    /\ alive /\ batch = {} /\ \A fd \in AllFd : Ready(fd) = {}
    /\ UNCHANGED coreVars

\* The test the loop makes before it calls a callback.
Wanted(b) == b.events \cap ev[b.ptr].events # {}

\* b is the next event of the batch and its control block names callback cb.
Dispatch(b, cb) ==
    /\ alive /\ b \in batch
    /\ Wanted(b) /\ ev[b.ptr].callback = cb
    /\ batch' = batch \ {b}

FreeFd(fd) == fdtab[fd] = NoConn /\ \A g \in Fd : g < fd => fdtab[g] # NoConn

\* accept() hands out the lowest free descriptor.
Accepting(fd) ==
    /\ FreeFd(fd)
    /\ fdtab' = [fdtab EXCEPT ![fd] = Head(backlog)]
    /\ stage' = [stage EXCEPT ![Head(backlog)] = "accepted"]
    /\ backlog' = Tail(backlog)
    /\ UNCHANGED <<peer, rx, inflight, alive>>

\* nty_event_set and nty_event_add without nty_event_del: the status the last
\* user of the control block left decides between MOD and ADD.
AcceptOk(b) ==
    /\ Dispatch(b, "accept_cb")
    /\ \E fd \in Fd :
          /\ Accepting(fd)
          /\ blkcnt' = Grown(blkcnt, fd)
          /\ LET e == EventSet(ev[Slot(fd)], fd, "recv_cb")
             IN  /\ ev' = [ev EXCEPT ![Slot(fd)] = EventAdd(e, {"IN"})]
                 /\ interest' = EpollAdd(interest, e, {"IN"})

\* fcntl fails: the callback returns and forgets the descriptor it accepted.
AcceptForgets(b) ==
    /\ "fcntl" \in Faults
    /\ Dispatch(b, "accept_cb")
    /\ \E fd \in Fd : Accepting(fd)
    /\ UNCHANGED <<ev, interest, blkcnt>>

\* accept() fails because no descriptor is free.
AcceptFails(b) ==
    /\ Dispatch(b, "accept_cb")
    /\ \A fd \in Fd : fdtab[fd] # NoConn
    /\ UNCHANGED <<kernelVars, ev, blkcnt, alive>>

accept_cb(b) == AcceptOk(b) \/ AcceptForgets(b) \/ AcceptFails(b)

-----------------------------------------------------------------------------
(* Properties of the reactor *)

BatchEvent == [ptr : Slots, events : SUBSET Events, conn : Conn \cup {NoConn}]

CoreTypeOK ==
    /\ fdtab \in [Fd -> Conn \cup {NoConn}]
    /\ interest \in [AllFd -> SUBSET Events]
    /\ backlog \in Seq(Conn)
    /\ stage \in [Conn -> Stages]
    /\ peer \in [Conn -> PeerStates]
    /\ inflight \in [Conn -> 0..SndBuf]
    /\ ev \in [Slots -> NtyEvent]
    /\ blkcnt \in Nat \ {0}
    /\ batch \subseteq BatchEvent
    /\ alive \in BOOLEAN

\* A registered descriptor is open, its control block lies in an allocated
\* block, says the same as the kernel, and has the callback for its events;
\* a control block with status 1 is registered.  nty_event_add chooses between
\* EPOLL_CTL_MOD and EPOLL_CTL_ADD by that status alone.
PollMirrorsBlocks ==
    /\ \A fd \in AllFd :
          LET e == ev[Slot(fd)] IN
          /\ (e.status = 1) <=> (interest[fd] # {})
          /\ interest[fd] # {} =>
                /\ e.fd = fd /\ e.events = interest[fd]
                /\ Block(fd) < blkcnt
                /\ fd \in Fd => fdtab[fd] # NoConn
                /\ <<e.callback, e.events>> \in
                      IF fd = ListenFd THEN {<<"accept_cb", {"IN"}>>}
                      ELSE {<<"recv_cb", {"IN"}>>, <<"send_cb", {"OUT"}>>}

\* An event still to be dispatched is for the connection that was ready when
\* epoll_wait returned, and passes the test of the run loop: no callback that
\* runs earlier in the batch closes, reuses or re-arms its descriptor.
NoStaleDispatch ==
    \A b \in batch : /\ Wanted(b)
                     /\ Owner(ev[b.ptr].fd) = b.conn

\* Every open connection is watched, so the server can still notice what
\* happens on it (comments of recv_cb at 328-335 and of accept_cb at 393).
NoOrphan == \A fd \in Fd : fdtab[fd] # NoConn => interest[fd] # {}

\* No connection is reached through two descriptors, and an accepted one is
\* reached through one: a close gives back the descriptor of its own connection.
OneFdPerConn ==
    /\ \A f, g \in Fd : fdtab[f] = fdtab[g] /\ fdtab[f] # NoConn => f = g
    /\ \A c \in Conn : stage[c] = "accepted" <=> \E fd \in Fd : fdtab[fd] = c
=============================================================================
