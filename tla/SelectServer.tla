----------------------------- MODULE SelectServer -----------------------------
(***************************************************************************)
(* The loop on select() of `1 epoll/server3.c`.  A descriptor is watched   *)
(* for reading (fds, the set origin_rfd of the code) until something was   *)
(* read from it, then for writing (origin_wfd) until that was sent back.   *)
(* One buffer and one ret serve all clients.                               *)
(*                                                                         *)
(* The two sets and ret are never initialised: the descriptors in Garbage  *)
(* may be in origin_wfd at the start.  (Descriptors below ListenFd are     *)
(* never looked at, and accept() puts every other one into origin_rfd      *)
(* before select() looks at it.)                                           *)
(***************************************************************************)
EXTENDS EchoLoop

CONSTANT Garbage

ASSUME GarbageAssumption == Garbage \subseteq Fd

VARIABLES
    origin_wfd,     \* the clients to watch for writing
    wfds,           \* those select() returned as writable
    buffer          \* what recv() left in the buffer

selectVars == <<origin_wfd, wfds, buffer>>

\* The buffer is zeroed; what was received replaces its beginning.  What is in
\* ret at first matters only when something is to be written before it is set.
SelectInit ==
    /\ origin_wfd \in IF program = "server3" THEN SUBSET Garbage ELSE {{}}
    /\ wfds = {}
    /\ ret \in IF origin_wfd # {} THEN -1..BUFFER_LENGTH ELSE {0}
    /\ buffer = [k \in 1..BUFFER_LENGTH |-> Zero]

-----------------------------------------------------------------------------
\* select() waits without a timeout.
Select ==
    /\ pc = "wait"
    /\ ready' = Reported
    /\ wfds' = {fd \in origin_wfd : fd <= maxfd /\ Writable(fdtab[fd])}
    /\ ready' \cup wfds' # {}
    /\ pc' = IF ListenFd \in ready' THEN "accept" ELSE "read"
    /\ i' = ListenFd + 1
    /\ UNCHANGED <<sockVars, program, fds, origin_wfd, maxfd, ret, buffer, left, alive>>

\* Mutant of SelectAccept: the new client is looked at in this round already.
SelectAccept_AtOnce ==
    /\ pc = "accept"
    /\ \E fd \in Fd : Watch(fd) /\ ready' = ready \cup {fd}
    /\ pc' = "read"
    /\ UNCHANGED <<selectVars, program, i, ret, left, alive>>

SelectAccept ==
    /\ pc = "accept"
    /\ \E fd \in Fd : Watch(fd)
    /\ pc' = "read"
    /\ UNCHANGED <<selectVars, program, ready, i, ret, left, alive>>

LoopEnd ==
    /\ pc = "read" /\ i > maxfd
    /\ pc' = "wait"
    /\ UNCHANGED <<sockVars, selectVars, program, fds, ready, maxfd, i, ret, left, alive>>

NotReadable ==
    /\ pc = "read" /\ i <= maxfd /\ i \notin ready
    /\ pc' = "write"
    /\ UNCHANGED <<sockVars, selectVars, program, fds, ready, maxfd, i, ret, left, alive>>

Reading == pc = "read" /\ i <= maxfd /\ i \in ready

ReadOk ==
    /\ Reading
    /\ RecvOk(i)
    /\ ret' = Len(Data(i))
    /\ buffer' = Data(i) \o SubSeq(buffer, Len(Data(i)) + 1, BUFFER_LENGTH)
    /\ origin_wfd' = origin_wfd \cup {i}
    /\ fds' = fds \ {i}
    /\ pc' = "write"
    /\ UNCHANGED <<program, ready, wfds, maxfd, i, left, alive>>

\* recv() returned 0: the loop ends here, whoever else is ready.
ReadClose ==
    /\ Reading
    /\ RecvEndClose(i)
    /\ ret' = 0
    /\ fds' = fds \ {i}
    /\ origin_wfd' = origin_wfd \ {i}
    /\ pc' = "wait"
    /\ UNCHANGED <<program, ready, wfds, maxfd, i, buffer, left, alive>>

ReadError ==
    /\ Reading
    /\ RecvError(i)
    /\ ret' = -1
    /\ pc' = "write"
    /\ UNCHANGED <<selectVars, program, fds, ready, maxfd, i, left, alive>>

NotWritable ==
    /\ pc = "write" /\ i \notin wfds
    /\ i' = i + 1
    /\ pc' = "read"
    /\ UNCHANGED <<sockVars, selectVars, program, fds, ready, maxfd, ret, left, alive>>

\* send() is called with ret of the last recv(), whichever client that was for;
\* with -1 it is asked for the memory from buffer on, and takes some of it.
WriteStart ==
    /\ pc = "write" /\ i \in wfds
    /\ left' = IF ret = -1 THEN Append(buffer, Zero) ELSE SubSeq(buffer, 1, ret)
    /\ pc' = "send"
    /\ UNCHANGED <<sockVars, selectVars, program, fds, ready, maxfd, i, ret, alive>>

\* Mutant of Written: the descriptor is not watched for reading again.
Written_NotRearmed ==
    /\ origin_wfd' = origin_wfd \ {i}
    /\ i' = i + 1
    /\ pc' = "read"
    /\ UNCHANGED <<fds, wfds, buffer>>

\* send() has returned: the descriptor is for reading again.
Written ==
    /\ fds' = fds \cup {i}
    /\ origin_wfd' = origin_wfd \ {i}
    /\ i' = i + 1
    /\ pc' = "read"
    /\ UNCHANGED <<wfds, buffer>>

SelectSend == Sending(Written, UNCHANGED selectVars)

SelectStep ==
    \/ Select \/ SelectAccept \/ LoopEnd
    \/ NotReadable \/ ReadOk \/ ReadClose \/ ReadError
    \/ NotWritable \/ WriteStart \/ SelectSend
    \/ SendKilled /\ UNCHANGED selectVars
=============================================================================
