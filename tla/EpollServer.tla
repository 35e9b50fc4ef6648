------------------------------ MODULE EpollServer ------------------------------
(***************************************************************************)
(* The loop on epoll of `1 epoll/server6.c`, level-triggered.  `fds` are   *)
(* the registered clients, `ready` the events of the last epoll_wait() that*)
(* are still to be handled, in any order.                                  *)
(***************************************************************************)
EXTENDS EchoLoop

EpollWait ==
    /\ pc = "wait" /\ Reported # {}
    /\ ready' = Reported
    /\ pc' = "read"
    /\ UNCHANGED <<sockVars, program, fds, maxfd, i, ret, left, alive>>

EventAccept ==
    /\ pc = "read" /\ ListenFd \in ready
    /\ \E fd \in Fd : Watch(fd)
    /\ ready' = ready \ {ListenFd}
    /\ NextEvent
    /\ UNCHANGED <<program, i, ret, left, alive>>

EventRecv(fd) ==
    /\ pc = "read" /\ fd \in ready
    /\ RecvOk(fd) /\ left' = Data(fd) /\ ret' = Len(Data(fd))
    /\ i' = fd /\ ready' = ready \ {fd}
    /\ pc' = "send"
    /\ UNCHANGED <<program, fds, maxfd, alive>>

EventClose(fd) ==
    /\ pc = "read" /\ fd \in ready
    /\ RecvEndClose(fd)
    /\ fds' = fds \ {fd} /\ ret' = 0
    /\ i' = fd /\ ready' = ready \ {fd}
    /\ NextEvent
    /\ UNCHANGED <<program, maxfd, left, alive>>

\* recv() failed: the client stays registered, and its end is reported next.
EventError(fd) ==
    /\ pc = "read" /\ fd \in ready
    /\ RecvError(fd) /\ ret' = -1
    /\ i' = fd /\ ready' = ready \ {fd}
    /\ NextEvent
    /\ UNCHANGED <<program, fds, maxfd, left, alive>>

EventSend == Sending(NextEvent /\ UNCHANGED <<fds, i>>, TRUE)

EpollStep ==
    \/ EpollWait \/ EventAccept
    \/ \E fd \in Fd : EventRecv(fd) \/ EventClose(fd) \/ EventError(fd)
    \/ EventSend
    \/ SendKilled
=============================================================================
