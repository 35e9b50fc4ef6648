------------------------------- MODULE UdpServer -------------------------------
(***************************************************************************)
(* The UDP server `5 udp/udp_server_my.c`: one non-blocking socket that    *)
(* epoll watches edge-triggered, and for each datagram taken from it a new *)
(* blocking socket, bound to the same port, connected to the sender and    *)
(* watched level-triggered.  No socket is ever closed.  Each system call   *)
(* is a step, because datagrams arrive between any two of them.            *)
(*                                                                         *)
(* Which socket gets a datagram is the kernel's choice (environment): one  *)
(* that is connected to the sender, or else any bound one that is not      *)
(* connected yet, which between bind() and connect() the new one is too.   *)
(***************************************************************************)
EXTENDS Integers, FiniteSets, Sequences

CONSTANTS
    Peer,           \* clients of udp_client.c, one port each
    NoPeer,
    ListenFd,       \* descriptor of the listening socket
    Fd,             \* descriptors socket() may return
    EPOLL_SIZE,     \* bound: events there is room for in main
    MaxSent         \* bound: datagrams one peer sends

ASSUME PeerAssumption == NoPeer \notin Peer
ASSUME FdAssumption   == Fd \subseteq Nat /\ ListenFd \in Nat \ Fd
ASSUME SizeAssumption == EPOLL_SIZE \in Nat /\ MaxSent \in Nat

VARIABLES
    opened,     \* descriptors of the sockets udp_accept made
    peerOf,     \* peerOf[fd]: the peer fd is connected to, or NoPeer
    queue,      \* queue[fd]: datagrams <<p, k>>, the k-th of p, to be read from fd
    edge,       \* the listening socket is on epoll's ready list
    watched,    \* descriptors registered for EPOLLIN
    events,     \* reported descriptors main has not come to yet
    pc,         \* "wait", "events", or the next system call of udp_accept
    new_sd,     \* the socket udp_accept is making
    peer_addr,  \* the peer udp_accept makes it for
    running,    \* main has not called exit(1)
    sent        \* sent[p]: how many datagrams p sent

kernelVars == <<opened, peerOf, queue, edge, watched>>
serverVars == <<events, pc, new_sd, peer_addr, running>>
udpVars == <<kernelVars, serverVars, sent>>

Sockets == Fd \cup {ListenFd}

UdpInit ==
    /\ opened = {} /\ watched = {}
    /\ peerOf = [fd \in Fd |-> NoPeer]
    /\ queue = [fd \in Sockets |-> <<>>]
    /\ edge = FALSE
    /\ events = {} /\ pc = "wait"
    /\ new_sd = ListenFd /\ peer_addr = NoPeer
    /\ running = TRUE
    /\ sent = [p \in Peer |-> 0]

-----------------------------------------------------------------------------
(* The peers and the network *)

Connected(p) == {fd \in Fd : peerOf[fd] = p}

\* Sockets that may get a datagram of p.
Receivers(p) ==
    IF Connected(p) # {} THEN Connected(p)
    ELSE {ListenFd} \cup (IF pc = "connect" THEN {new_sd} ELSE {})

\* A datagram arrives, or is lost.
Send(p) ==
    /\ sent[p] < MaxSent
    /\ sent' = [sent EXCEPT ![p] = @ + 1]
    /\ \/ \E fd \in Receivers(p) :
              /\ queue' = [queue EXCEPT ![fd] = Append(@, <<p, sent[p] + 1>>)]
              /\ edge' = (edge \/ fd = ListenFd)
       \/ UNCHANGED <<queue, edge>>
    /\ UNCHANGED <<opened, peerOf, watched, serverVars>>

-----------------------------------------------------------------------------
(* The loop of main *)

Reported ==
    {fd \in watched : queue[fd] # <<>>}
        \cup (IF edge /\ queue[ListenFd] # <<>> THEN {ListenFd} ELSE {})

epoll_wait ==
    /\ pc = "wait" /\ Reported # {} /\ Cardinality(Reported) <= EPOLL_SIZE
    /\ events' = Reported
    /\ edge' = FALSE
    /\ pc' = "events"
    /\ UNCHANGED <<opened, peerOf, queue, watched, new_sd, peer_addr, running, sent>>

\* Goes on with the events that are left.
NextEvent == pc' = IF events' = {} THEN "wait" ELSE "events"

\* Mutant of read_data: reads the socket until it is empty.
read_data_Drains(fd) ==
    /\ pc = "events" /\ fd \in events \ {ListenFd}
    /\ queue[fd] # <<>>
    /\ queue' = [queue EXCEPT ![fd] = Tail(@)]
    /\ UNCHANGED <<opened, peerOf, edge, watched, events, pc, new_sd, peer_addr, running, sent>>

\* recvfrom() on a socket that blocks.
read_data(fd) ==
    /\ pc = "events" /\ fd \in events \ {ListenFd}
    /\ queue[fd] # <<>>
    /\ queue' = [queue EXCEPT ![fd] = Tail(@)]
    /\ events' = events \ {fd}
    /\ NextEvent
    /\ UNCHANGED <<opened, peerOf, edge, watched, new_sd, peer_addr, running, sent>>

AcceptEvent ==
    /\ pc = "events" /\ ListenFd \in events
    /\ events' = events \ {ListenFd}
    /\ pc' = "recvfrom"
    /\ UNCHANGED <<kernelVars, new_sd, peer_addr, running, sent>>

\* The call that ends the inner loop: EAGAIN.
Drained ==
    /\ pc = "recvfrom" /\ queue[ListenFd] = <<>>
    /\ UNCHANGED events /\ NextEvent
    /\ UNCHANGED <<kernelVars, new_sd, peer_addr, running, sent>>

RecvFrom ==
    /\ pc = "recvfrom" /\ queue[ListenFd] # <<>>
    /\ peer_addr' = Head(queue[ListenFd])[1]
    /\ queue' = [queue EXCEPT ![ListenFd] = Tail(@)]
    /\ pc' = "socket"
    /\ UNCHANGED <<opened, peerOf, edge, watched, events, new_sd, running, sent>>

\* socket() returns the lowest free descriptor.
Socket ==
    /\ pc = "socket"
    /\ \E fd \in Fd \ opened :
          /\ \A g \in Fd \ opened : fd <= g
          /\ new_sd' = fd /\ opened' = opened \cup {fd}
    /\ pc' = "bind"
    /\ UNCHANGED <<peerOf, queue, edge, watched, events, peer_addr, running, sent>>

\* exit(1): the descriptors are used up.
SocketFails ==
    /\ pc = "socket" /\ opened = Fd
    /\ running' = FALSE
    /\ UNCHANGED <<kernelVars, events, pc, new_sd, peer_addr, sent>>

Bind ==
    /\ pc = "bind"
    /\ pc' = "connect"
    /\ UNCHANGED <<kernelVars, events, new_sd, peer_addr, running, sent>>

Connect ==
    /\ pc = "connect"
    /\ peerOf' = [peerOf EXCEPT ![new_sd] = peer_addr]
    /\ pc' = "epoll_ctl"
    /\ UNCHANGED <<opened, queue, edge, watched, events, new_sd, peer_addr, running, sent>>

\* Mutant of Watch: goes on with the next event, whatever else is queued.
Watch_Once ==
    /\ pc = "epoll_ctl"
    /\ watched' = watched \cup {new_sd}
    /\ UNCHANGED events /\ NextEvent
    /\ UNCHANGED <<opened, peerOf, queue, edge, new_sd, peer_addr, running, sent>>

\* Mutant of Watch: without EPOLL_CTL_ADD.
Watch_Forgets ==
    /\ pc = "epoll_ctl"
    /\ pc' = "recvfrom"
    /\ UNCHANGED <<kernelVars, events, new_sd, peer_addr, running, sent>>

\* EPOLL_CTL_ADD, and on with the next datagram of the listening socket.
Watch ==
    /\ pc = "epoll_ctl"
    /\ watched' = watched \cup {new_sd}
    /\ pc' = "recvfrom"
    /\ UNCHANGED <<opened, peerOf, queue, edge, events, new_sd, peer_addr, running, sent>>

Server ==
    /\ running
    /\ \/ epoll_wait \/ AcceptEvent
       \/ \E fd \in Fd : read_data(fd)
       \/ RecvFrom \/ Drained \/ Socket \/ SocketFails \/ Bind \/ Connect \/ Watch

UdpNext == Server \/ \E p \in Peer : Send(p)

UdpSpec == UdpInit /\ [][UdpNext]_udpVars

\* The loop goes on when no call has to wait.
FairSpec == UdpSpec /\ WF_udpVars(Server)

-----------------------------------------------------------------------------
(* Properties *)

Accepting == {"recvfrom", "socket", "bind", "connect", "epoll_ctl"}

TypeOK ==
    /\ opened \subseteq Fd /\ watched \subseteq Fd
    /\ peerOf \in [Fd -> Peer \cup {NoPeer}]
    /\ queue \in [Sockets -> Seq(Peer \X (1..MaxSent))]
    /\ edge \in BOOLEAN
    /\ events \subseteq Sockets
    /\ pc \in {"wait", "events"} \cup Accepting
    /\ new_sd \in Sockets /\ peer_addr \in Peer \cup {NoPeer}
    /\ running \in BOOLEAN
    /\ sent \in [Peer -> 0..MaxSent]

\* No datagram is left where main will not look: the edge of the listening
\* socket is kept until its queue was drained to EAGAIN, also when datagrams
\* come in while udp_accept is at work, and a socket that may already have
\* datagrams, from the bind() on, will be watched.
NothingForgotten ==
    /\ queue[ListenFd] # <<>> => edge \/ ListenFd \in events \/ pc \in Accepting
    /\ \A fd \in Fd : queue[fd] # <<>> =>
           fd \in watched \/ (fd = new_sd /\ pc \in {"connect", "epoll_ctl"})

\* The sockets udp_accept makes block: read_data is called where there is a
\* datagram, though an earlier event of the batch was handled in between.
NoBlockingRead ==
    pc = "events" => \A fd \in events \ {ListenFd} : queue[fd] # <<>>

\* Each datagram that is queued is read, unless the server runs out of
\* descriptors and exits: neither a peer that goes on sending nor a burst
\* keeps main from it.
EventuallyRead ==
    \A p \in Peer : \A k \in 1..MaxSent :
        (\E fd \in Sockets : \E n \in 1..(MaxSent * Cardinality(Peer)) :
             n <= Len(queue[fd]) /\ queue[fd][n] = <<p, k>>)
        ~> (~running \/ \A fd \in Sockets : \A n \in 1..Len(queue[fd]) : queue[fd][n] # <<p, k>>)
=============================================================================
