------------------------------ MODULE EchoServers ------------------------------
(***************************************************************************)
(* One of the echo servers of `1 epoll` (`server.c` to `server6.c`) or the *)
(* first reactor (`2 react/server2.c`), with its clients: what the seven   *)
(* programs promise although they are built differently.                   *)
(***************************************************************************)
EXTENDS SelectServer, PollServer, EpollServer, FirstReactor, ThreadServer

ownVars == <<selectVars, nready, itemVars, threadVars>>
vars == <<sockVars, loopVars, ownVars>>

Init == LoopInit /\ SelectInit /\ nready = 0 /\ ItemInit /\ ThreadInit

\* The program that runs, and the variables of the others.
Server ==
    /\ alive
    /\ \/ /\ program = "server3" /\ SelectStep
          /\ UNCHANGED <<nready, itemVars, threadVars>>
       \/ /\ program \in {"server4", "server5"} /\ PollStep
          /\ UNCHANGED <<selectVars, itemVars, threadVars>>
       \/ /\ program = "server6" /\ EpollStep
          /\ UNCHANGED ownVars
       \/ /\ program = "reactor" /\ ItemStep
          /\ UNCHANGED <<selectVars, nready, threadVars>>
       \/ /\ program \in {"server", "server2"} /\ ThreadStep
          /\ UNCHANGED <<selectVars, nready, itemVars>>

Next == Server \/ \E c \in Conn : Client(c) /\ UNCHANGED <<loopVars, ownVars>>

Spec == Init /\ [][Next]_vars

\* The loop, and each thread, goes on when its call does not have to wait (a
\* thread can take finitely many steps here, so no other one is passed over for
\* ever), and clients read what they are sent.
Fairness ==
    /\ WF_vars(Server)
    /\ \A c \in Conn : WF_vars(ClientRead(c) /\ UNCHANGED <<loopVars, ownVars>>)

FairSpec == Spec /\ Fairness

-----------------------------------------------------------------------------
(* Properties *)

Loops == program \notin {"server", "server2"}

\* The reported descriptors the loop has not come to yet.
StillReady ==
    IF program \in {"server6", "reactor"} THEN ready
    ELSE {fd \in ready : fd = ListenFd \/ fd >= i}

\* In server4 nready is the number of reported entries from the loop's place
\* on: it leaves the loop behind the last of them, never before.
CountExact ==
    program = "server4" /\ pc \in {"read", "send"} =>
        nready = Cardinality({fd \in ready : fd >= i})

\* Neither recv() nor accept() is called where it would have to wait, nor does
\* the reactor begin a send() that has: what the loop is still to serve is
\* open, for the connection that was reported, and ready.
NoBlockingCall ==
    /\ pc = "accept" => backlog # <<>>
    /\ pc = "read" => \A fd \in StillReady \ {ListenFd} :
                          /\ fdtab[fd] # NoConn
                          /\ IF program = "reactor" /\ fd \in outs
                             THEN Writable(fdtab[fd]) ELSE Readable(fdtab[fd])

\* Exactly the open descriptors are watched, in server3 and the reactor each for
\* reading or for writing: a closed one makes every later select() fail.
WatchesOpenOnly ==
    LET writing == IF program = "reactor" THEN outs ELSE origin_wfd
    IN  Loops /\ alive =>
            /\ \A fd \in Fd : fd <= maxfd => (fdtab[fd] # NoConn <=> fd \in fds \cup writing)
            /\ Garbage = {} => fds \cap writing = {}

\* The bytes that were read from fd and not yet sent back.
Held(fd) ==
    CASE ~Loops -> IF \E t \in Conn : Sends(t) /\ tfd[t] = fd THEN tleft[fdtab[fd]] ELSE <<>>
      [] Loops /\ pc = "send" /\ i = fd -> left
      [] program = "reactor" /\ fd \in outs /\ ~(pc = "send" /\ i = fd) ->
             [k \in 1..rlength[Item(fd)] |-> Zero]
      [] OTHER -> <<>>

\* What was sent back, what send() has still to take and what was not read yet
\* is what the client sent, also when send() has to wait in between; from the
\* reactor it is as many bytes (its send() takes a buffer nothing was copied
\* to).  (server3.c shares one buffer, and a thread that took another one's
\* descriptor is not followed.)
EchoConservation ==
    program # "server3" /\ OwnClient =>
        \A fd \in Fd : fdtab[fd] # NoConn /\ ~Gone(fdtab[fd]) =>
            LET c     == fdtab[fd]
                bytes == out[c] \o Held(fd) \o rx[c]
            IN  IF program = "reactor" THEN Len(bytes) = sent[c] ELSE bytes = Stream(c, sent[c])

\* server5 may leave each of its rounds before it comes to a client that is
\* ready (it counts the idle ones), and promises none of the two following.
Fair == program # "server5"

\* The process has ended, or two of its threads use one descriptor.
Over == ~alive \/ ~OwnClient

\* A byte sent on an accepted connection is read, unless its peer is lost or
\* the process has ended: no client that stays idle, that leaves in the middle
\* of a round or that comes back for more keeps the loop from another one.
EventuallyRead ==
    \A c \in Conn : \A k \in 1..MaxBytes[c] :
        (Fair /\ stage[c] = "accepted" /\ sent[c] >= k)
            ~> (sent[c] - Len(rx[c]) >= k \/ Gone(c) \/ Over)

\* The descriptor of a client that left is given back.
Reclaimed ==
    \A c \in Conn :
        (Fair /\ stage[c] = "accepted" /\ peer[c] # "open") ~> (stage[c] = "closed" \/ Over)

\* server2.c accepts several clients, each served by a thread of its own: no
\* descriptor is left without a thread (comment of server2.c at 10).
OwnThread ==
    program = "server2" =>
        \A fd \in Fd : fdtab[fd] # NoConn =>
            tpc[fdtab[fd]] \in {"create", "start"} \/ tfd[fdtab[fd]] = fd
=============================================================================
