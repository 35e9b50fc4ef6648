------------------------------ MODULE PollServer ------------------------------
(***************************************************************************)
(* The loops on poll() of `1 epoll/server4.c` and `server5.c`.  They differ*)
(* in one place: server4 counts an entry of fds as handled when its        *)
(* descriptor was ready, server5 counts every entry it looks at.  `fds` is *)
(* the set of descriptors whose entry is not -1, `ready` are those with    *)
(* POLLIN in revents.                                                      *)
(***************************************************************************)
EXTENDS EchoLoop

VARIABLE nready         \* reported entries that are still to be handled

\* poll() waits without a timeout; it sets revents of every entry it looks at.
Poll ==
    /\ pc = "wait" /\ Reported # {}
    /\ ready' = Reported
    /\ nready' = Cardinality(Reported)
    /\ pc' = IF ListenFd \in Reported THEN "accept" ELSE "read"
    /\ i' = ListenFd + 1
    /\ UNCHANGED <<sockVars, program, fds, maxfd, ret, left, alive>>

\* Mutant of PollAccept: the listening entry is not counted as handled.
PollAccept_Uncounted ==
    /\ pc = "accept"
    /\ \E fd \in Fd : Watch(fd)
    /\ pc' = "read"
    /\ UNCHANGED <<program, nready, ready, i, ret, left, alive>>

PollAccept ==
    /\ pc = "accept"
    /\ \E fd \in Fd : Watch(fd)
    /\ nready' = nready - 1
    /\ pc' = IF nready' = 0 THEN "wait" ELSE "read"
    /\ UNCHANGED <<program, ready, i, ret, left, alive>>

ScanEnd ==
    /\ pc = "read" /\ i > maxfd
    /\ pc' = "wait"
    /\ UNCHANGED <<sockVars, program, fds, ready, nready, maxfd, i, ret, left, alive>>

\* Entry i is done with: the next one, or poll() when it was the last.
Handled ==
    /\ nready' = nready - 1
    /\ i' = i + 1
    /\ pc' = IF nready' = 0 THEN "wait" ELSE "read"

Skip ==
    /\ pc = "read" /\ i <= maxfd /\ i \notin ready
    /\ IF program = "server5" THEN Handled ELSE i' = i + 1 /\ UNCHANGED <<nready, pc>>
    /\ UNCHANGED <<sockVars, program, fds, ready, maxfd, ret, left, alive>>

Scanning == pc = "read" /\ i <= maxfd /\ i \in ready

ScanRecv ==
    /\ Scanning
    /\ RecvOk(i) /\ left' = Data(i) /\ ret' = Len(Data(i))
    /\ pc' = "send"
    /\ UNCHANGED <<program, fds, ready, nready, maxfd, i, alive>>

ScanClose ==
    /\ Scanning
    /\ RecvEndClose(i)
    /\ fds' = fds \ {i} /\ ret' = 0
    /\ Handled
    /\ UNCHANGED <<program, ready, maxfd, left, alive>>

\* recv() failed: nothing is done, and the next poll() reports the end.
ScanError ==
    /\ Scanning
    /\ RecvError(i) /\ ret' = -1
    /\ Handled
    /\ UNCHANGED <<program, fds, ready, maxfd, left, alive>>

ScanSend == Sending(Handled /\ UNCHANGED fds, UNCHANGED nready)

PollStep ==
    \/ Poll \/ PollAccept
    \/ ScanEnd \/ Skip \/ ScanRecv \/ ScanClose \/ ScanError
    \/ ScanSend
    \/ SendKilled /\ UNCHANGED nready
=============================================================================
