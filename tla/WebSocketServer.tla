--------------------------- MODULE WebSocketServer ---------------------------
(***************************************************************************)
(* The WebSocket server of `4 websocket/websocket_server_my.c`: the        *)
(* reactor with the recv_cb, send_cb and wshandle of that file.  The       *)
(* protocol state ws_stat, is_close and wlength is kept in the control     *)
(* block of the descriptor, which nty_event_set does not clear.            *)
(*                                                                         *)
(* A message of a client is one of a few kinds that the code tells apart,  *)
(* and arrives whole; what the server sends is a sequence of parts.        *)
(***************************************************************************)
EXTENDS ReactorCore

CONSTANTS
    Kinds,      \* the kinds of messages clients send, a subset of AllKinds
    Habits,     \* what clients do that a browser page in no hurry does not
    MaxSaid     \* bound: messages one client sends

\* "upgrade"  a handshake request of more than 122 bytes
\* "upgrade0" the same, with a key whose SHA-1 digest has a zero byte
\* "text"     a masked frame with 1 to 115 bytes of payload
\* "near"     a masked frame with 116 to 125 bytes of payload
\* "empty"    a masked frame without payload
\* "long"     a masked frame with 126 to 255 bytes of payload
\* "close"    a frame with opcode 8
Upgrades == {"upgrade", "upgrade0"}
AllKinds == Upgrades \cup {"text", "near", "empty", "long", "close"}

ASSUME KindsAssumption  == Kinds \subseteq AllKinds
ASSUME HabitsAssumption == Habits \subseteq {"abrupt", "pipelined", "unruly"}
ASSUME SaidAssumption   == MaxSaid \in Nat

VARIABLES
    ws_stat,    \* ws_stat[s] of the control block, "HANDSHARK" or "TRANSMISSION"
    is_close,   \* is_close[s] of the control block
    wbuffer,    \* wbuffer[s]: the first wlength bytes of wbuffer, as parts
    said,       \* said[c]: the messages client c sent
    out         \* out[c]: the parts send() accepted for c

wsVars == <<ws_stat, is_close, wbuffer>>
vars   == <<coreVars, wsVars, said, out>>

\* "101" a handshake answer with the right key, "bad101" with a wrong one; "echo" a
\* text frame, "garbled" one with bytes of a later frame in it; "junk" four bytes
\* of wbuffer behind a frame, left over from an earlier reply.
Part == {"101", "bad101", "echo", "garbled", "junk"}

Init ==
    /\ CoreInit
    /\ ws_stat = [s \in Slots |-> "HANDSHARK"]
    /\ is_close = [s \in Slots |-> FALSE]
    /\ wbuffer = [s \in Slots |-> <<>>]
    /\ said = [c \in Conn |-> <<>>]
    /\ out = [c \in Conn |-> <<>>]

-----------------------------------------------------------------------------
(* Clients *)

LastSaid(c) == said[c][Len(said[c])]
Leaving(c)  == said[c] # <<>> /\ LastSaid(c) = "close"

\* Where the parts that answer a message are in what client c was sent.
Answers(c) == {i \in 1..Len(out[c]) : out[c][i] # "junk"}

\* A client with manners opens with a request, waits for a good answer to it, and
\* sends no more after a close frame.  In no hurry, it waits for every answer.
Mannered(c, m) ==
    IF said[c] = <<>> THEN m \in Upgrades
    ELSE /\ m \notin Upgrades /\ ~Leaving(c)
         /\ out[c] # <<>> /\ out[c][1] = "101"
         /\ "pipelined" \in Habits \/ (Cardinality(Answers(c)) = Len(said[c]) /\ inflight[c] = 0)

\* An unruly one says anything at any time: a frame before its handshake, a second
\* handshake, more after a close frame.
MaySay(c, m) == "unruly" \in Habits \/ Mannered(c, m)

ClientSay(c, m) ==
    /\ Len(said[c]) < MaxSaid /\ MaySay(c, m)
    /\ Arrive(c, <<m>>)
    /\ said' = [said EXCEPT ![c] = Append(@, m)]
    /\ UNCHANGED <<wsVars, out>>

\* Only an abrupt client leaves an open session without a close frame.
MayLeave(c) == "abrupt" \in Habits \/ said[c] = <<>> \/ Leaving(c)

ClientMove(c) ==
    \/ Connect(c) \/ ClientRead(c)
    \/ MayLeave(c) /\ (ClientFin(c) \/ ClientReset(c))
    \/ ClientPipe(c) \/ PeerTimeout(c)

Client(c) ==
    \/ \E m \in Kinds : ClientSay(c, m)
    \/ ClientMove(c) /\ UNCHANGED <<wsVars, said, out>>

-----------------------------------------------------------------------------
(* wshandle *)

\* handshark answers whatever comes first, with the key it finds in what was read:
\* behind another message (late) it finds one unless a zero byte ends the text.
\* Without a key the answer is computed from the GUID alone, and a zero byte in the
\* digest cuts it short.
HandsharkReplies(m, late) ==
    IF m = "upgrade" THEN {<<"101">>}
    ELSE IF m \in {"upgrade0", "long"} \/ "upgrade" \notin late THEN {<<"bad101">>}
    ELSE {<<"101">>, <<"bad101">>}

\* The replies transmission may leave in wbuffer for message m; strlen runs on
\* into a frame read with it (late), and a reply of 126 bytes is not written.
TransmissionReplies(m, late) ==
    IF m = "text"
    THEN IF late = {} THEN {<<"echo", "junk">>}
         ELSE {<<>>} \cup {<<"garbled", "junk">> : k \in late \ Upgrades}
    ELSE {<<>>}

\* transmission dereferences payload, which these kinds leave NULL.
Crashes(m) == m \in {"empty", "long"}

\* Mutants of handshark: is_close is not reset; wlength is not set; ws_stat is
\* not moved on.
handshark_KeepsClose(s, m, late) ==
    /\ \E r \in HandsharkReplies(m, late) : wbuffer' = [wbuffer EXCEPT ![s] = r]
    /\ ws_stat' = [ws_stat EXCEPT ![s] = "TRANSMISSION"]
    /\ UNCHANGED is_close
handshark_Silent(s, m, late) ==
    /\ is_close' = [is_close EXCEPT ![s] = FALSE]
    /\ ws_stat' = [ws_stat EXCEPT ![s] = "TRANSMISSION"]
    /\ UNCHANGED wbuffer
handshark_Stays(s, m, late) ==
    /\ is_close' = [is_close EXCEPT ![s] = FALSE]
    /\ \E r \in HandsharkReplies(m, late) : wbuffer' = [wbuffer EXCEPT ![s] = r]
    /\ UNCHANGED ws_stat

\* handshark, and the move to WS_TRANSMISSION that wshandle makes after it.
handshark(s, m, late) ==
    /\ is_close' = [is_close EXCEPT ![s] = FALSE]
    /\ \E r \in HandsharkReplies(m, late) : wbuffer' = [wbuffer EXCEPT ![s] = r]
    /\ ws_stat' = [ws_stat EXCEPT ![s] = "TRANSMISSION"]

\* Mutant of CloseFrame: the session is not put back to WS_HANDSHARK.
CloseFrame_KeepsStat(s, m) ==
    /\ m = "close"
    /\ is_close' = [is_close EXCEPT ![s] = TRUE]
    /\ UNCHANGED <<wbuffer, ws_stat>>

CloseFrame(s, m) ==
    /\ m = "close"
    /\ is_close' = [is_close EXCEPT ![s] = TRUE]
    /\ ws_stat' = [ws_stat EXCEPT ![s] = "HANDSHARK"]
    /\ UNCHANGED wbuffer

\* A frame that gets no reply leaves wbuffer and wlength as they were.
DataFrame(s, m, late) ==
    /\ m # "close" /\ ~Crashes(m)
    /\ \E r \in TransmissionReplies(m, late) :
          wbuffer' = [wbuffer EXCEPT ![s] = IF r = <<>> THEN @ ELSE r]
    /\ UNCHANGED <<ws_stat, is_close>>

transmission(s, m, late) == CloseFrame(s, m) \/ DataFrame(s, m, late)

wshandle(s, m, late) ==
    \/ ws_stat[s] = "HANDSHARK" /\ handshark(s, m, late)
    \/ ws_stat[s] = "TRANSMISSION" /\ transmission(s, m, late)

-----------------------------------------------------------------------------
(* recv_cb *)

\* recv_cb got n messages: it handles m, the first; the others are lost, but for
\* what the handling of the first finds behind it.
Received(b, fd, m, n) ==
    /\ Dispatch(b, "recv_cb")
    /\ fd = ev[b.ptr].fd
    /\ n = Min2(Len(rx[fdtab[fd]]), BUFFER_LENGTH) /\ n > 0
    /\ m = rx[fdtab[fd]][1]
    /\ rx' = [rx EXCEPT ![fdtab[fd]] = SubSeq(@, n + 1, Len(@))]
    /\ UNCHANGED <<backlog, peer, inflight, blkcnt, said, out>>

Behind(fd, n) == {rx[fdtab[fd]][k] : k \in 2..n}

RecvHandled(b) ==
    \E fd \in Fd, m \in Kinds, n \in 1..BUFFER_LENGTH :
        /\ Received(b, fd, m, n)
        /\ wshandle(Slot(fd), m, Behind(fd, n))
        /\ IF is_close'[Slot(fd)]
           THEN DelAndClose(fd)
           ELSE Rearm(fd, "send_cb", {"OUT"}) /\ UNCHANGED <<fdtab, stage>>
        /\ UNCHANGED alive

RecvCrash(b) ==
    \E fd \in Fd, m \in Kinds, n \in 1..BUFFER_LENGTH :
        /\ Received(b, fd, m, n)
        /\ ws_stat[Slot(fd)] = "TRANSMISSION" /\ Crashes(m)
        /\ alive' = FALSE
        /\ UNCHANGED <<fdtab, stage, interest, ev, wsVars>>

\* recv() returned 0 or ECONNRESET; ws_stat stays what this client left.
RecvEnd(b) ==
    /\ Dispatch(b, "recv_cb")
    /\ LET fd == ev[b.ptr].fd
       IN  /\ rx[fdtab[fd]] = <<>> /\ peer[fdtab[fd]] \in {"fin", "pipe", "reset"}
           /\ DelAndClose(fd)
    /\ UNCHANGED <<backlog, peer, rx, inflight, blkcnt, alive, wsVars, said, out>>

\* Any other errno: the event was removed and is not added again.
RecvError(b) ==
    /\ Dispatch(b, "recv_cb")
    /\ LET fd == ev[b.ptr].fd
       IN  /\ rx[fdtab[fd]] = <<>> /\ peer[fdtab[fd]] \in {"open", "timeout"}
           /\ DelOnly(fd)
    /\ UNCHANGED <<backlog, peer, rx, inflight, blkcnt, alive, wsVars, said, out>>

recv_cb(b) == RecvHandled(b) \/ RecvCrash(b) \/ RecvEnd(b) \/ RecvError(b)

-----------------------------------------------------------------------------
(* send_cb *)

ClearReply(fd) == wbuffer' = [wbuffer EXCEPT ![Slot(fd)] = <<>>]

\* Mutant of SendOk: wlength keeps its value.
SendOk_KeepsReply(b, fd) ==
    LET c == fdtab[fd]
        n == Min2(Len(wbuffer[Slot(fd)]), Room(c))
    IN  /\ wbuffer[Slot(fd)] # <<>> /\ peer[c] \in {"open", "fin"}
        /\ out' = [out EXCEPT ![c] = @ \o SubSeq(wbuffer[Slot(fd)], 1, n)]
        /\ inflight' = [inflight EXCEPT ![c] = @ + n]
        /\ Rearm(fd, "recv_cb", {"IN"})
        /\ UNCHANGED <<wbuffer, fdtab, stage, alive>>

SendOk(b, fd) ==
    LET c == fdtab[fd]
        n == Min2(Len(wbuffer[Slot(fd)]), Room(c))
    IN  /\ wbuffer[Slot(fd)] # <<>> /\ peer[c] \in {"open", "fin"}
        /\ out' = [out EXCEPT ![c] = @ \o SubSeq(wbuffer[Slot(fd)], 1, n)]
        /\ inflight' = [inflight EXCEPT ![c] = @ + n]
        /\ Rearm(fd, "recv_cb", {"IN"})
        /\ ClearReply(fd)
        /\ UNCHANGED <<fdtab, stage, alive>>

\* Mutant of SendError: the error path returns before wlength is reset.
SendError_KeepsReply(b, fd) ==
    /\ wbuffer[Slot(fd)] # <<>> /\ peer[fdtab[fd]] \in {"reset", "timeout"}
    /\ DelAndClose(fd)
    /\ UNCHANGED <<wbuffer, inflight, alive, out>>

SendError(b, fd) ==
    /\ wbuffer[Slot(fd)] # <<>> /\ peer[fdtab[fd]] \in {"reset", "timeout"}
    /\ DelAndClose(fd)
    /\ ClearReply(fd)
    /\ UNCHANGED <<inflight, alive, out>>

\* SIGPIPE
SendKilled(b, fd) ==
    /\ wbuffer[Slot(fd)] # <<>> /\ peer[fdtab[fd]] = "pipe"
    /\ alive' = FALSE
    /\ UNCHANGED <<fdtab, stage, interest, inflight, ev, wbuffer, out>>

\* wlength is 0: send() is not called, len is 0, and the descriptor stays
\* registered for EPOLLOUT.
SendNothing(b, fd) ==
    /\ wbuffer[Slot(fd)] = <<>>
    /\ UNCHANGED <<fdtab, stage, interest, inflight, ev, wbuffer, alive, out>>

send_cb(b) ==
    \E fd \in Fd :
        /\ Dispatch(b, "send_cb") /\ fd = ev[b.ptr].fd
        /\ SendOk(b, fd) \/ SendError(b, fd) \/ SendKilled(b, fd) \/ SendNothing(b, fd)
        /\ UNCHANGED <<backlog, peer, rx, blkcnt, ws_stat, is_close, said>>

-----------------------------------------------------------------------------
Server ==
    \/ EpollWait /\ UNCHANGED <<wsVars, said, out>>
    \/ \E b \in batch :
          \/ accept_cb(b) /\ UNCHANGED <<wsVars, said, out>>
          \/ recv_cb(b)
          \/ send_cb(b)

Idle == EpollTimeout /\ UNCHANGED <<wsVars, said, out>>

Next == Server \/ Idle \/ \E c \in Conn : Client(c)

Spec == Init /\ [][Next]_vars

Fairness ==
    /\ WF_vars(Server)
    /\ \A c \in Conn : WF_vars(ClientRead(c) /\ UNCHANGED <<wsVars, said, out>>)

FairSpec == Spec /\ Fairness

-----------------------------------------------------------------------------
(* Properties *)

TypeOK ==
    /\ CoreTypeOK
    /\ rx \in [Conn -> Seq(AllKinds)]
    /\ ws_stat \in [Slots -> {"HANDSHARK", "TRANSMISSION"}]
    /\ is_close \in [Slots -> BOOLEAN]
    /\ wbuffer \in [Slots -> Seq(Part)]
    /\ said \in [Conn -> Seq(Kinds)]
    /\ out \in [Conn -> Seq(Part)]

\* A connection from which nothing was read yet is waiting for its handshake,
\* whoever used its control block before (comment of accept_cb at 609).
FreshBlock ==
    \A fd \in Fd :
        fdtab[fd] # NoConn /\ interest[fd] # {} /\ rx[fdtab[fd]] = said[fdtab[fd]] =>
            ws_stat[Slot(fd)] = "HANDSHARK"

\* The reply each message calls for: handshark gives the same answer to a request,
\* whatever was read with it.
Reply(m) ==
    IF m = "upgrade" THEN "101" ELSE IF m = "upgrade0" THEN "bad101" ELSE "echo"

\* A client that waits for its answers gets them one by one, each the answer
\* to the message it sent.
RepliesInOrder ==
    \A c \in Conn :
        /\ Cardinality(Answers(c)) <= Len(said[c])
        /\ \A i \in Answers(c) :
              out[c][i] = Reply(said[c][Cardinality({j \in Answers(c) : j <= i})])

\* A reply never outlives its connection in the control block, where the next
\* client on that descriptor would get it (comment of send_cb at 575).
NoLeftoverReply ==
    \A fd \in Fd :
        wbuffer[Slot(fd)] # <<>> =>
            ev[Slot(fd)].callback = "send_cb" /\ ev[Slot(fd)].status = 1

\* The server hangs up only on a client that left, or after it has read a close
\* frame of that client: an is_close left over in the control block closes nobody
\* else, whatever is said in which order.
HangsUpOnLeaversOnly ==
    \A c \in Conn : stage[c] = "closed" /\ peer[c] = "open" =>
        \E i \in 1..(Len(said[c]) - Len(rx[c])) : said[c][i] = "close"

\* The first thing a client that opens with a request is sent, if anything, is the
\* answer to that request: nothing of the last user of the block, which may still
\* be in its session, and nothing that answers what the client said after it.
HandshakeFirst ==
    \A c \in Conn : out[c] # <<>> /\ said[c][1] \in Upgrades => out[c][1] = Reply(said[c][1])

\* Every message of an accepted client is answered, or the connection ends.
EventuallyAnswered ==
    \A c \in Conn : \A k \in 1..MaxSaid :
        (stage[c] = "accepted" /\ Len(said[c]) >= k) ~>
            (Cardinality(Answers(c)) >= k \/ stage[c] = "closed")
=============================================================================
