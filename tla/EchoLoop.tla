------------------------------- MODULE EchoLoop -------------------------------
(***************************************************************************)
(* What the single-threaded echo servers `server3.c` to `server6.c` of     *)
(* `1 epoll` and `2 react/server2.c` have in common: a loop that waits for *)
(* readable descriptors, accepts, receives and sends.  The sockets are     *)
(* blocking, so each system call is a step, and a recv() or send() that    *)
(* has to wait stops the server.  SelectServer, PollServer, EpollServer    *)
(* and FirstReactor add the steps of one kind of loop each; EchoServers    *)
(* puts them together with the servers that have no such loop.             *)
(***************************************************************************)
EXTENDS Sockets

CONSTANT Programs       \* the programs that may be the one that runs

ASSUME ProgramAssumption ==
    Programs \subseteq {"server", "server2", "server3", "server4", "server5", "server6", "reactor"}

VARIABLES
    program,    \* the one that runs
    fds,        \* descriptors watched for reading, without ListenFd
    ready,      \* descriptors that were reported readable
    maxfd,
    i,          \* the descriptor the loop is at
    pc,         \* "wait", "accept", "read", "write" or "send": the next system call
    ret,        \* what the last recv() returned
    left,       \* bytes send() has still to take
    alive       \* the process was not killed by a signal and has not returned

loopVars == <<program, fds, ready, maxfd, i, pc, ret, left, alive>>

LoopInit ==
    /\ SockInit
    /\ program \in Programs
    /\ fds = {} /\ ready = {}
    /\ maxfd = ListenFd /\ i = ListenFd + 1
    /\ pc = "wait" /\ left = <<>> /\ alive = TRUE

\* What select(), poll() and epoll_wait() report as readable.
Reported ==
    {fd \in fds : fd <= maxfd /\ Readable(fdtab[fd])}
        \cup (IF backlog # <<>> THEN {ListenFd} ELSE {})

\* Mutant of Watch: the new client is not watched.
Watch_Forgets(fd) ==
    /\ Accept(fd)
    /\ maxfd' = Max2(fd, maxfd)
    /\ UNCHANGED fds

\* accept(), and the new client is watched from the next round on.
Watch(fd) ==
    /\ Accept(fd)
    /\ fds' = fds \cup {fd}
    /\ maxfd' = Max2(fd, maxfd)

\* Goes on with the events that are left.
NextEvent == pc' = IF ready' = {} THEN "wait" ELSE "read"

\* The send buffer takes what there is room for.
TakeBytes ==
    /\ Room(fdtab[i]) > 0 \/ left = <<>>
    /\ LET k == Min2(Len(left), Room(fdtab[i]))
       IN  SendSome(i, SubSeq(left, 1, k)) /\ left' = SubSeq(left, k + 1, Len(left))

\* send() has taken some of the bytes.
Partial == ret # -1 /\ Len(left) < ret

\* send() goes on while bytes are left; its result, an error included, is not
\* looked at.  Returned is what the loop does next, Waiting is what it leaves alone.
Sending(Returned, Waiting) ==
    /\ pc = "send"
    /\ UNCHANGED <<program, ready, maxfd, ret, alive>>
    /\ \/ TakeBytes /\ left' = <<>> /\ Returned
       \/ TakeBytes /\ left' # <<>> /\ UNCHANGED <<fds, i, pc>> /\ Waiting
       \/ SendError(i, Partial) /\ left' = <<>> /\ Returned

\* SIGPIPE, which no program ignores or handles.
SendKilled ==
    /\ pc = "send" /\ ~Partial /\ peer[fdtab[i]] = "pipe"
    /\ alive' = FALSE
    /\ UNCHANGED <<sockVars, program, fds, ready, maxfd, i, pc, ret, left>>
=============================================================================
