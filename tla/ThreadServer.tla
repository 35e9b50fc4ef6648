------------------------------ MODULE ThreadServer ------------------------------
(***************************************************************************)
(* The echo servers of `1 epoll` without a loop over descriptors:          *)
(* `server2.c`, whose main accepts and starts a thread for each client,    *)
(* and `server.c`, whose main accepts one client, serves it like such a    *)
(* thread and returns.  A thread is named by the connection main accepted  *)
(* before it was created; each system call of it is a step.                *)
(*                                                                         *)
(* A thread gets the address of main's clientfd and reads it when it first *)
(* runs, which may be after main has accepted once more.  What happens     *)
(* from then on, when two threads use one descriptor, is not followed.     *)
(***************************************************************************)
EXTENDS EchoLoop

VARIABLES
    clientfd,   \* the variable of main
    tpc,        \* tpc[t]: "none", "create", "start", "recv", "send", "rest" or "done"
    tfd,        \* tfd[t]: the clientfd of thread t
    tleft       \* tleft[t]: bytes its send() has still to take

threadVars == <<clientfd, tpc, tfd, tleft>>

ThreadInit ==
    /\ clientfd = ListenFd
    /\ tpc = [t \in Conn |-> "none"]
    /\ tfd = [t \in Conn |-> ListenFd]
    /\ tleft = [t \in Conn |-> <<>>]

\* "rest": send() has taken something, and waits to take the rest.
Sends(t)   == tpc[t] \in {"send", "rest"}
Serving(t) == tpc[t] = "recv" \/ Sends(t)

\* Each thread that runs has the descriptor of its own client.
OwnClient == \A t \in Conn : Serving(t) => fdtab[tfd[t]] = t

\* accept() in main; server.c goes on with the client itself.
ThreadAccept ==
    /\ \A t \in Conn : tpc[t] # "create"
    /\ program = "server" => \A t \in Conn : tpc[t] = "none"
    /\ \E fd \in Fd :
          /\ Accept(fd)
          /\ clientfd' = fd
          /\ IF program = "server"
             THEN /\ tpc' = [tpc EXCEPT ![Head(backlog)] = "recv"]
                  /\ tfd' = [tfd EXCEPT ![Head(backlog)] = fd]
             ELSE tpc' = [tpc EXCEPT ![Head(backlog)] = "create"] /\ UNCHANGED tfd
    /\ UNCHANGED <<loopVars, tleft>>

\* pthread_create() succeeds.
ThreadCreate(t) ==
    /\ tpc[t] = "create"
    /\ tpc' = [tpc EXCEPT ![t] = "start"]
    /\ UNCHANGED <<sockVars, loopVars, clientfd, tfd, tleft>>

\* The new thread reads the variable of main.
ThreadStart(t) ==
    /\ tpc[t] = "start"
    /\ tfd' = [tfd EXCEPT ![t] = clientfd]
    /\ tpc' = [tpc EXCEPT ![t] = "recv"]
    /\ UNCHANGED <<sockVars, loopVars, clientfd, tleft>>

ThreadRecv(t) ==
    /\ tpc[t] = "recv"
    /\ RecvOk(tfd[t])
    /\ tleft' = [tleft EXCEPT ![t] = Data(tfd[t])]
    /\ tpc' = [tpc EXCEPT ![t] = "send"]
    /\ UNCHANGED <<loopVars, clientfd, tfd>>

\* Mutant of ThreadEnd: the thread ends without close().
ThreadEnd_NotClosed(t) ==
    /\ tpc[t] = "recv"
    /\ rx[fdtab[tfd[t]]] = <<>> /\ peer[fdtab[tfd[t]]] \in {"fin", "pipe"}
    /\ tpc' = [tpc EXCEPT ![t] = "done"]
    /\ alive' = (program = "server2")
    /\ UNCHANGED <<sockVars, program, fds, ready, maxfd, i, pc, ret, left, clientfd, tfd, tleft>>

\* The client has closed: the thread, or main of server.c, ends.
ThreadEnd(t) ==
    /\ tpc[t] = "recv"
    /\ RecvEndClose(tfd[t])
    /\ tpc' = [tpc EXCEPT ![t] = "done"]
    /\ alive' = (program = "server2")
    /\ UNCHANGED <<program, fds, ready, maxfd, i, pc, ret, left, clientfd, tfd, tleft>>

\* recv() failed: send() is called with -1 as the number of bytes.
ThreadError(t) ==
    /\ tpc[t] = "recv"
    /\ RecvError(tfd[t])
    /\ tpc' = [tpc EXCEPT ![t] = "send"]
    /\ UNCHANGED <<loopVars, clientfd, tfd, tleft>>

\* send() takes what there is room for, and returns when it has all.
ThreadSend(t) ==
    /\ Sends(t) /\ tleft[t] # <<>> /\ Room(fdtab[tfd[t]]) > 0
    /\ LET k == Min2(Len(tleft[t]), Room(fdtab[tfd[t]]))
       IN  /\ SendSome(tfd[t], SubSeq(tleft[t], 1, k))
           /\ tleft' = [tleft EXCEPT ![t] = SubSeq(@, k + 1, Len(@))]
    /\ tpc' = [tpc EXCEPT ![t] = IF tleft'[t] = <<>> THEN "recv" ELSE "rest"]
    /\ UNCHANGED <<loopVars, clientfd, tfd>>

\* send() fails, or returns less: the thread does not look at it.
ThreadSendError(t) ==
    /\ Sends(t) /\ tleft[t] # <<>>
    /\ SendError(tfd[t], tpc[t] = "rest")
    /\ tpc' = [tpc EXCEPT ![t] = "recv"]
    /\ tleft' = [tleft EXCEPT ![t] = <<>>]
    /\ UNCHANGED <<loopVars, clientfd, tfd>>

\* SIGPIPE ends all threads.
ThreadKilled(t) ==
    /\ tpc[t] = "send" /\ peer[fdtab[tfd[t]]] = "pipe"
    /\ alive' = FALSE
    /\ UNCHANGED <<sockVars, program, fds, ready, maxfd, i, pc, ret, left, threadVars>>

ThreadStep ==
    /\ OwnClient
    /\ \/ ThreadAccept
       \/ \E t \in Conn :
             \/ ThreadCreate(t) \/ ThreadStart(t)
             \/ ThreadRecv(t) \/ ThreadEnd(t) \/ ThreadError(t)
             \/ ThreadSend(t) \/ ThreadSendError(t) \/ ThreadKilled(t)
=============================================================================
