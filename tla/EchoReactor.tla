----------------------------- MODULE EchoReactor -----------------------------
(***************************************************************************)
(* The echo server of `2 react/reactor_server_my.c`: the reactor with its  *)
(* recv_cb and send_cb.  A byte is a pair <<c, k>>, the k-th byte client c *)
(* sent, so that loss, repetition, reordering and bytes that reach another *)
(* client can all be told apart.                                           *)
(***************************************************************************)
EXTENDS ReactorCore

CONSTANT MaxBytes       \* bound: bytes one client sends

ASSUME MaxBytesAssumption == MaxBytes \in Nat

VARIABLES
    rbuffer,    \* rbuffer[s]: the first rlength bytes of the control block's rbuffer
    sent,       \* sent[c]: how many bytes client c sent
    out         \* out[c]: the bytes send() accepted for c, in order

vars == <<coreVars, rbuffer, sent, out>>

Byte == Conn \X Nat
Stream(c, n) == [k \in 1..n |-> <<c, k>>]

Init ==
    /\ CoreInit
    /\ rbuffer = [s \in Slots |-> <<>>]
    /\ sent = [c \in Conn |-> 0]
    /\ out = [c \in Conn |-> <<>>]

ClientSend(c) ==
    /\ sent[c] < MaxBytes
    /\ Arrive(c, <<<<c, sent[c] + 1>>>>)
    /\ sent' = [sent EXCEPT ![c] = @ + 1]
    /\ UNCHANGED <<rbuffer, out>>

Client(c) ==
    \/ ClientSend(c)
    \/ CoreClient(c) /\ UNCHANGED <<rbuffer, sent, out>>

-----------------------------------------------------------------------------
(* recv_cb *)

\* Mutant of RecvData: the event is removed and send_cb is never armed.
RecvData_NotRearmed(b) ==
    /\ Dispatch(b, "recv_cb")
    /\ LET fd == ev[b.ptr].fd
           n  == Min2(Len(rx[fdtab[fd]]), BUFFER_LENGTH)
       IN  /\ n > 0
           /\ rbuffer' = [rbuffer EXCEPT ![Slot(fd)] = SubSeq(rx[fdtab[fd]], 1, n)]
           /\ rx' = [rx EXCEPT ![fdtab[fd]] = SubSeq(@, n + 1, Len(@))]
           /\ DelOnly(fd)
    /\ UNCHANGED <<backlog, peer, inflight, blkcnt, alive, sent, out>>

\* recv() returned data: keep it, and wait to send it back before reading more.
RecvData(b) ==
    /\ Dispatch(b, "recv_cb")
    /\ LET fd == ev[b.ptr].fd
           c  == fdtab[fd]
           n  == Min2(Len(rx[c]), BUFFER_LENGTH)
       IN  /\ n > 0
           /\ rbuffer' = [rbuffer EXCEPT ![Slot(fd)] = SubSeq(rx[c], 1, n)]
           /\ rx' = [rx EXCEPT ![c] = SubSeq(@, n + 1, Len(@))]
           /\ Rearm(fd, "send_cb", {"OUT"})
    /\ UNCHANGED <<fdtab, backlog, stage, peer, inflight, blkcnt, alive, sent, out>>

\* Mutant of RecvEnd: forgets to close the descriptor.
RecvEnd_NotClosed(b) ==
    /\ Dispatch(b, "recv_cb")
    /\ LET fd == ev[b.ptr].fd
       IN  /\ rx[fdtab[fd]] = <<>> /\ peer[fdtab[fd]] \in {"fin", "pipe", "reset"}
           /\ DelOnly(fd)
    /\ UNCHANGED <<backlog, peer, rx, inflight, blkcnt, alive, rbuffer, sent, out>>

\* Mutant of RecvEnd: closes when the client half-closed, read or not.
RecvEnd_Early(b) ==
    /\ Dispatch(b, "recv_cb")
    /\ LET fd == ev[b.ptr].fd
       IN  /\ peer[fdtab[fd]] \in {"fin", "pipe", "reset"}
           /\ DelAndClose(fd)
    /\ UNCHANGED <<backlog, peer, rx, inflight, blkcnt, alive, rbuffer, sent, out>>

\* recv() returned 0 (the client closed), or failed with ECONNRESET.
RecvEnd(b) ==
    /\ Dispatch(b, "recv_cb")
    /\ LET fd == ev[b.ptr].fd
           c  == fdtab[fd]
       IN  /\ rx[c] = <<>> /\ peer[c] \in {"fin", "pipe", "reset"}
           /\ DelAndClose(fd)
    /\ UNCHANGED <<backlog, peer, rx, inflight, blkcnt, alive, rbuffer, sent, out>>

\* recv() failed with any other errno: the event was already removed, and
\* neither branch adds it again or closes the descriptor.
RecvError(b) ==
    /\ Dispatch(b, "recv_cb")
    /\ LET fd == ev[b.ptr].fd
           c  == fdtab[fd]
       IN  /\ rx[c] = <<>> /\ peer[c] \in {"open", "timeout"}
           /\ DelOnly(fd)
    /\ UNCHANGED <<backlog, peer, rx, inflight, blkcnt, alive, rbuffer, sent, out>>

recv_cb(b) == RecvData(b) \/ RecvEnd(b) \/ RecvError(b)

-----------------------------------------------------------------------------
(* send_cb *)

\* Mutant of SendOk: stays in send_cb, so rbuffer is sent again.
SendOk_Again(b) ==
    /\ Dispatch(b, "send_cb")
    /\ LET fd  == ev[b.ptr].fd
           c   == fdtab[fd]
           n   == Min2(Len(rbuffer[Slot(fd)]), Room(c))
       IN  /\ peer[c] \in {"open", "fin"}
           /\ Len(out[c]) < 2 * MaxBytes
           /\ out' = [out EXCEPT ![c] = @ \o SubSeq(rbuffer[Slot(fd)], 1, n)]
           /\ inflight' = [inflight EXCEPT ![c] = @ + n]
           /\ Rearm(fd, "send_cb", {"OUT"})
    /\ UNCHANGED <<fdtab, backlog, stage, peer, rx, blkcnt, alive, rbuffer, sent>>

\* Mutant of SendOk: hands over rlength bytes without looking at the room.
SendOk_Overfills(b) ==
    /\ Dispatch(b, "send_cb")
    /\ LET fd  == ev[b.ptr].fd
           c   == fdtab[fd]
       IN  /\ peer[c] \in {"open", "fin"}
           /\ out' = [out EXCEPT ![c] = @ \o rbuffer[Slot(fd)]]
           /\ inflight' = [inflight EXCEPT ![c] = @ + Len(rbuffer[Slot(fd)])]
           /\ Rearm(fd, "recv_cb", {"IN"})
    /\ UNCHANGED <<fdtab, backlog, stage, peer, rx, blkcnt, alive, rbuffer, sent>>

\* send() took some of rbuffer; the callback goes back to reading, whether or
\* not it took all of it.
SendOk(b) ==
    /\ Dispatch(b, "send_cb")
    /\ LET fd  == ev[b.ptr].fd
           c   == fdtab[fd]
           buf == rbuffer[Slot(fd)]
           n   == Min2(Len(buf), Room(c))
       IN  /\ peer[c] \in {"open", "fin"}
           /\ out' = [out EXCEPT ![c] = @ \o SubSeq(buf, 1, n)]
           /\ inflight' = [inflight EXCEPT ![c] = @ + n]
           /\ Rearm(fd, "recv_cb", {"IN"})
    /\ UNCHANGED <<fdtab, backlog, stage, peer, rx, blkcnt, alive, rbuffer, sent>>

SendError(b) ==
    /\ Dispatch(b, "send_cb")
    /\ LET fd == ev[b.ptr].fd
       IN  /\ peer[fdtab[fd]] \in {"reset", "timeout"}
           /\ DelAndClose(fd)
    /\ UNCHANGED <<backlog, peer, rx, inflight, blkcnt, alive, rbuffer, sent, out>>

\* SIGPIPE, which the program neither ignores nor handles.
SendKilled(b) ==
    /\ Dispatch(b, "send_cb")
    /\ peer[fdtab[ev[b.ptr].fd]] = "pipe"
    /\ alive' = FALSE
    /\ UNCHANGED <<kernelVars, ev, blkcnt, rbuffer, sent, out>>

send_cb(b) == SendOk(b) \/ SendError(b) \/ SendKilled(b)

-----------------------------------------------------------------------------
Server ==
    \/ EpollWait /\ UNCHANGED <<rbuffer, sent, out>>
    \/ \E b \in batch :
          \/ accept_cb(b) /\ UNCHANGED <<rbuffer, sent, out>>
          \/ recv_cb(b)
          \/ send_cb(b)

Idle == EpollTimeout /\ UNCHANGED <<rbuffer, sent, out>>

Next == Server \/ Idle \/ \E c \in Conn : Client(c)

Spec == Init /\ [][Next]_vars

\* The loop never stops by itself, and clients read what they are sent.
Fairness == WF_vars(Server) /\ \A c \in Conn : WF_vars(ClientRead(c) /\ UNCHANGED <<rbuffer, sent, out>>)

FairSpec == Spec /\ Fairness

-----------------------------------------------------------------------------
(* Properties *)

TypeOK ==
    /\ CoreTypeOK
    /\ rx \in [Conn -> Seq(Byte)]
    /\ rbuffer \in [Slots -> Seq(Byte)]
    /\ sent \in [Conn -> 0..MaxBytes]
    /\ out \in [Conn -> Seq(Byte)]

\* Bytes of the connection on fd that were read and not sent yet.
Pending(fd) ==
    IF ev[Slot(fd)].callback = "send_cb" THEN rbuffer[Slot(fd)] ELSE <<>>

\* On an open connection, what was sent back, then what recv_cb holds for
\* send_cb, then what was not read yet, is exactly what the client sent:
\* nothing is lost, repeated, reordered or taken from another client.
EchoConservation ==
    \A fd \in Fd :
        interest[fd] # {} /\ fdtab[fd] # NoConn =>
            LET c == fdtab[fd]
            IN  out[c] \o Pending(fd) \o rx[c] = Stream(c, sent[c])

\* Even when send() is short and the rest of rbuffer is forgotten, a client
\* receives only its own bytes, each at most once and in the order it sent them.
OwnBytesInOrder ==
    \A c \in Conn : \A i \in 1..Len(out[c]) :
        /\ out[c][i][1] = c
        /\ out[c][i][2] <= sent[c]
        /\ i > 1 => out[c][i - 1][2] < out[c][i][2]

\* The server closes a connection whose client only half-closed it after it
\* has sent back every byte (recv_cb reads queued data before it sees the end).
DrainBeforeClose ==
    \A c \in Conn : stage[c] = "closed" /\ peer[c] = "fin" => out[c] = Stream(c, sent[c])

\* A byte sent on an accepted connection comes back, unless the peer is lost.
EventuallyEchoed ==
    \A c \in Conn : \A k \in 1..MaxBytes :
        (stage[c] = "accepted" /\ sent[c] >= k) ~> (Len(out[c]) >= k \/ Gone(c))

\* The descriptor of a client that left is given back.
Reclaimed ==
    \A c \in Conn : (stage[c] = "accepted" /\ peer[c] # "open") ~> (stage[c] = "closed")

\* What the server promises its clients; a connection is "up", "left" (the
\* client sends no more), "lost" (the network or the client broke it) or "down".
ServiceState(c) ==
    IF stage[c] = "closed" THEN "down"
    ELSE IF Gone(c) THEN "lost"
    ELSE IF peer[c] = "fin" THEN "left" ELSE "up"

Service == INSTANCE EchoService WITH
               asked <- sent,
               answered <- out,
               state <- [c \in Conn |-> ServiceState(c)]

\* The reactor implements the echo service.
Refinement == Service!Spec
=============================================================================
