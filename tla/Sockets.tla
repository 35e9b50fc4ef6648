------------------------------- MODULE Sockets -------------------------------
(***************************************************************************)
(* Blocking TCP sockets and their clients, as the echo servers of `1 epoll`*)
(* use them: the environment of EchoLoop.  A byte is a pair <<c, k>>, the  *)
(* k-th byte client c sent.                                                *)
(***************************************************************************)
EXTENDS Integers, FiniteSets, Sequences

CONSTANTS
    Conn,           \* connections clients may open, each at most once
    NoConn,         \* not a connection
    Fd,             \* descriptors accept() may return
    ListenFd,       \* descriptor of the listening socket
    BUFFER_LENGTH,  \* most bytes one recv() takes
    SndBuf,         \* capacity of a socket's send buffer
    MaxBytes        \* bound: MaxBytes[c] bytes are sent by client c

\* As many descriptors as connections: accept() never runs out of them.
ASSUME ConnAssumption == NoConn \notin Conn /\ IsFiniteSet(Conn)
ASSUME FdAssumption   == /\ ListenFd \in Nat
                         /\ Fd = (ListenFd + 1)..(ListenFd + Cardinality(Conn))
ASSUME SizeAssumption == /\ BUFFER_LENGTH \in Nat \ {0} /\ SndBuf \in Nat \ {0}
                         /\ MaxBytes \in [Conn -> Nat]

VARIABLES
    fdtab,      \* fdtab[fd]: the connection fd is open on, or NoConn
    backlog,    \* connections waiting to be accepted, in order
    stage,      \* stage[c]: "idle", "queued", "accepted" or "closed"
    peer,       \* peer[c]: what the client's end has done
    rx,         \* rx[c]: bytes received and not yet read by the server
    inflight,   \* inflight[c]: bytes the server wrote and the client did not take yet
    sent,       \* sent[c]: how many bytes client c sent
    out         \* out[c]: the bytes send() took for c, in order

sockVars == <<fdtab, backlog, stage, peer, rx, inflight, sent, out>>

Min2(a, b) == IF a <= b THEN a ELSE b
Max2(a, b) == IF a >= b THEN a ELSE b

\* Stands for a byte that no client sent.
Zero == <<NoConn, 0>>
Byte == (Conn \X Nat) \cup {Zero}
Stream(c, n) == [k \in 1..n |-> <<c, k>>]

\* "reset": the connection is lost, and the next call on it fails; "pipe": it
\* is lost and that error was taken, recv() returns 0 and send() raises SIGPIPE.
PeerStates == {"open", "fin", "reset", "pipe"}
Stages     == {"idle", "queued", "accepted", "closed"}

Gone(c)     == peer[c] \in {"reset", "pipe"}
Readable(c) == rx[c] # <<>> \/ peer[c] # "open"
Room(c)     == SndBuf - inflight[c]
Writable(c) == Room(c) > 0 \/ Gone(c)

SockInit ==
    /\ fdtab = [fd \in Fd |-> NoConn]
    /\ backlog = <<>>
    /\ stage = [c \in Conn |-> "idle"]
    /\ peer = [c \in Conn |-> "open"]
    /\ rx = [c \in Conn |-> <<>>]
    /\ inflight = [c \in Conn |-> 0]
    /\ sent = [c \in Conn |-> 0]
    /\ out = [c \in Conn |-> <<>>]

-----------------------------------------------------------------------------
(* Clients *)

Reaching(c) == stage[c] \in {"queued", "accepted"}

Connect(c) ==
    /\ stage[c] = "idle"
    /\ stage' = [stage EXCEPT ![c] = "queued"]
    /\ backlog' = Append(backlog, c)
    /\ UNCHANGED <<fdtab, peer, rx, inflight, sent, out>>

ClientSend(c) ==
    /\ Reaching(c) /\ peer[c] = "open" /\ sent[c] < MaxBytes[c]
    /\ sent' = [sent EXCEPT ![c] = @ + 1]
    /\ rx' = [rx EXCEPT ![c] = Append(@, <<c, sent[c] + 1>>)]
    /\ UNCHANGED <<fdtab, backlog, stage, peer, inflight, out>>

\* The client will send no more; it may go on reading.
ClientFin(c) ==
    /\ Reaching(c) /\ peer[c] = "open"
    /\ peer' = [peer EXCEPT ![c] = "fin"]
    /\ UNCHANGED <<fdtab, backlog, stage, rx, inflight, sent, out>>

\* RST, or retransmissions that ran out; after a FIN the error is EPIPE.
ClientReset(c) ==
    /\ Reaching(c)
    /\ \/ peer[c] = "open" /\ peer' = [peer EXCEPT ![c] = "reset"]
       \/ peer[c] = "fin" /\ inflight[c] > 0 /\ peer' = [peer EXCEPT ![c] = "pipe"]
    /\ inflight' = [inflight EXCEPT ![c] = 0]
    /\ UNCHANGED <<fdtab, backlog, stage, rx, sent, out>>

ClientRead(c) ==
    /\ Reaching(c) /\ inflight[c] > 0
    /\ inflight' = [inflight EXCEPT ![c] = @ - 1]
    /\ UNCHANGED <<fdtab, backlog, stage, peer, rx, sent, out>>

Client(c) ==
    Connect(c) \/ ClientSend(c) \/ ClientFin(c) \/ ClientReset(c) \/ ClientRead(c)

-----------------------------------------------------------------------------
(* System calls of the server *)

\* accept() hands out the lowest free descriptor.
Accept(fd) ==
    /\ backlog # <<>>
    /\ fdtab[fd] = NoConn /\ \A g \in Fd : g < fd => fdtab[g] # NoConn
    /\ fdtab' = [fdtab EXCEPT ![fd] = Head(backlog)]
    /\ stage' = [stage EXCEPT ![Head(backlog)] = "accepted"]
    /\ backlog' = Tail(backlog)
    /\ UNCHANGED <<peer, rx, inflight, sent, out>>

\* What recv() returns, when there is data.
Data(fd) == SubSeq(rx[fdtab[fd]], 1, Min2(Len(rx[fdtab[fd]]), BUFFER_LENGTH))

RecvOk(fd) ==
    /\ rx[fdtab[fd]] # <<>>
    /\ rx' = [rx EXCEPT ![fdtab[fd]] = SubSeq(@, Len(Data(fd)) + 1, Len(@))]
    /\ UNCHANGED <<fdtab, backlog, stage, peer, inflight, sent, out>>

\* recv() returns 0, and the server closes the descriptor.
RecvEndClose(fd) ==
    /\ rx[fdtab[fd]] = <<>> /\ peer[fdtab[fd]] \in {"fin", "pipe"}
    /\ fdtab' = [fdtab EXCEPT ![fd] = NoConn]
    /\ stage' = [stage EXCEPT ![fdtab[fd]] = "closed"]
    /\ UNCHANGED <<backlog, peer, rx, inflight, sent, out>>

TakeError(fd) ==
    /\ peer[fdtab[fd]] = "reset"
    /\ peer' = [peer EXCEPT ![fdtab[fd]] = "pipe"]
    /\ UNCHANGED <<fdtab, backlog, stage, rx, inflight, sent, out>>

\* recv() returns -1.
RecvError(fd) == rx[fdtab[fd]] = <<>> /\ TakeError(fd)

\* send() has taken data, some of what it was called with, and waits for room
\* when there is none.
SendSome(fd, data) ==
    /\ ~Gone(fdtab[fd]) /\ Len(data) <= Room(fdtab[fd])
    /\ out' = [out EXCEPT ![fdtab[fd]] = @ \o data]
    /\ inflight' = [inflight EXCEPT ![fdtab[fd]] = @ + Len(data)]
    /\ UNCHANGED <<fdtab, backlog, stage, peer, rx, sent>>

\* send() returns -1, or, when it took something before, less than it should; the
\* error is then left for the next call.
SendError(fd, partial) ==
    \/ partial /\ Gone(fdtab[fd]) /\ UNCHANGED sockVars
    \/ ~partial /\ TakeError(fd)
=============================================================================
