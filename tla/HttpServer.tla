------------------------------ MODULE HttpServer ------------------------------
(***************************************************************************)
(* The HTTP server of `3 http/httpserver.c`: the reactor with the recv_cb  *)
(* and send_cb of that file.  The parsed request (method, resource) and    *)
(* the answer (wbuffer, wlength, issend) are kept in the control block of  *)
(* the descriptor, which nty_event_set does not clear.                     *)
(*                                                                         *)
(* A request arrives whole.  What the server sends is a sequence of parts: *)
(* a header, units of a file, the line end behind it, the 404 page.  The   *)
(* files may be changed by somebody else between any two system calls.     *)
(***************************************************************************)
EXTENDS ReactorCore

CONSTANTS
    File,       \* paths of the resources
    NoFile,     \* the empty resource of a fresh control block
    Directory,  \* the resources that are directories
    MaxSize,    \* bound: units of a file
    Start,      \* bound: the sizes the files may have at the start
    Asks,       \* Asks[c]: the requests client c may make
    Edited,     \* the files somebody else changes
    Hasty,      \* the clients that do not wait for answers
    MaxSaid     \* bound: MaxSaid[c] requests are sent by client c

\* "other" stands for every first line without GET or POST in it.
AllMethods == {"GET", "POST", "other"}

Missing == -1
Sizes   == {Missing} \cup 0..MaxSize

\* Descriptor 0 is the standard input, which the server leaves open.
ASSUME StdinAssumption   == 0 \notin Fd
ASSUME FileAssumption    == NoFile \notin File /\ MaxSize \in Nat \ {0}
ASSUME HabitsAssumption  == Edited \subseteq File /\ Hasty \subseteq Conn
ASSUME PlaceAssumption   == Directory \subseteq File \ Edited /\ Start \subseteq [File -> Sizes]
ASSUME SaidAssumption    == MaxSaid \in [Conn -> Nat]

VARIABLES
    method,     \* method[s] of the control block
    resource,   \* resource[s] of the control block
    wbuffer,    \* wbuffer[s]: the first wlength bytes of wbuffer, <<>> or one part
    issend,     \* issend[s] of the control block
    sending,    \* the descriptor send_cb sends a file on, from the header on, or 0
    copied,     \* its sendfile() returned, and the line end is next
    size,       \* size[f]: st_size of f in units, or Missing
    said,       \* said[c]: the requests client c sent
    out         \* out[c]: the parts the kernel accepted for c

httpVars == <<method, resource, wbuffer, issend, sending, copied>>
vars     == <<coreVars, httpVars, size, said, out>>

\* What sendfile() finds in f: it fails for a directory and when open() has failed.
Contents(f) == IF f \in Directory \/ size[f] = Missing THEN 0 ELSE size[f]

Request == {r \in [method : AllMethods, path : File \cup {NoFile}] :
               r.method = "GET" <=> r.path \in File}

ASSUME AsksAssumption == Asks \in [Conn -> SUBSET Request]

Header(f, n) == [what |-> "header", file |-> f, len |-> n]
Unit(f)      == [what |-> "unit", file |-> f, len |-> 1]
LineEnd      == [what |-> "crlf", file |-> NoFile, len |-> 0]
NotFound     == [what |-> "404", file |-> NoFile, len |-> 0]
Part == [what : {"header", "unit", "crlf", "404"}, file : File \cup {NoFile}, len : 0..MaxSize]

Init ==
    /\ CoreInit
    /\ method = [s \in Slots |-> "GET"]
    /\ resource = [s \in Slots |-> NoFile]
    /\ wbuffer = [s \in Slots |-> <<>>]
    /\ issend = [s \in Slots |-> FALSE]
    /\ sending = 0
    /\ copied = FALSE
    /\ size \in Start
    /\ said = [c \in Conn |-> <<>>]
    /\ out = [c \in Conn |-> <<>>]

-----------------------------------------------------------------------------
(* Clients and files *)

\* Where the answers begin in what client c was sent.
Answers(c) == {i \in 1..Len(out[c]) : out[c][i].what \in {"header", "404"}}

\* A patient client has the whole of its last answer before it asks again.
Answered(c) ==
    /\ Cardinality(Answers(c)) = Len(said[c]) /\ inflight[c] = 0
    /\ sending # 0 => fdtab[sending] # c

ClientSay(c, r) ==
    /\ Len(said[c]) < MaxSaid[c] /\ r \in Asks[c]
    /\ c \in Hasty \/ Answered(c)
    /\ Arrive(c, <<r>>)
    /\ said' = [said EXCEPT ![c] = Append(@, r)]
    /\ UNCHANGED <<httpVars, size, out>>

Client(c) ==
    \/ \E r \in Request : ClientSay(c, r)
    \/ CoreClient(c) /\ UNCHANGED <<httpVars, size, said, out>>

Edit(f, n) ==
    /\ f \in Edited /\ n # size[f]
    /\ size' = [size EXCEPT ![f] = n]
    /\ UNCHANGED <<coreVars, httpVars, said, out>>

-----------------------------------------------------------------------------
(* recv_cb *)

\* Mutant of parser_http_request: only the first request of a block counts.
parser_http_request_Once(s, r) ==
    /\ method' = [method EXCEPT ![s] = r.method]
    /\ resource' = [resource EXCEPT ![s] = IF @ = NoFile THEN r.path ELSE @]

\* A first line that is neither GET nor POST leaves what the last one set.
parser_http_request(s, r) ==
    /\ method' = [method EXCEPT ![s] = IF r.method = "other" THEN @ ELSE r.method]
    /\ resource' = [resource EXCEPT ![s] = IF r.method = "GET" THEN r.path ELSE @]

\* Mutant of RecvData: send_cb is never armed.
RecvData_NotRearmed(b) ==
    /\ Dispatch(b, "recv_cb")
    /\ LET fd == ev[b.ptr].fd
           c  == fdtab[fd]
           n  == Min2(Len(rx[c]), BUFFER_LENGTH)
       IN  /\ n > 0
           /\ parser_http_request(Slot(fd), rx[c][1])
           /\ rx' = [rx EXCEPT ![c] = SubSeq(@, n + 1, Len(@))]
           /\ DelOnly(fd)
    /\ UNCHANGED <<backlog, peer, inflight, blkcnt, alive,
                   wbuffer, issend, sending, copied, said, out>>

\* recv() returned data: the first request in it is parsed, the others are lost.
RecvData(b) ==
    /\ Dispatch(b, "recv_cb")
    /\ LET fd == ev[b.ptr].fd
           c  == fdtab[fd]
           n  == Min2(Len(rx[c]), BUFFER_LENGTH)
       IN  /\ n > 0
           /\ parser_http_request(Slot(fd), rx[c][1])
           /\ rx' = [rx EXCEPT ![c] = SubSeq(@, n + 1, Len(@))]
           /\ Rearm(fd, "send_cb", {"OUT"})
    /\ UNCHANGED <<fdtab, backlog, stage, peer, inflight, blkcnt, alive,
                   wbuffer, issend, sending, copied, said, out>>

\* recv() returned 0 or ECONNRESET; the control block keeps the last request.
RecvEnd(b) ==
    /\ Dispatch(b, "recv_cb")
    /\ LET c == fdtab[ev[b.ptr].fd]
       IN  rx[c] = <<>> /\ peer[c] \in {"fin", "pipe", "reset"}
    /\ DelAndClose(ev[b.ptr].fd)
    /\ UNCHANGED <<backlog, peer, rx, inflight, blkcnt, alive, httpVars, said, out>>

\* Any other errno: the event was removed and is not added again.
RecvError(b) ==
    /\ Dispatch(b, "recv_cb")
    /\ LET c == fdtab[ev[b.ptr].fd]
       IN  rx[c] = <<>> /\ peer[c] \in {"open", "timeout"}
    /\ DelOnly(ev[b.ptr].fd)
    /\ UNCHANGED <<backlog, peer, rx, inflight, blkcnt, alive, httpVars, said, out>>

recv_cb(b) == RecvData(b) \/ RecvEnd(b) \/ RecvError(b)

-----------------------------------------------------------------------------
(* send_cb *)

\* Mutant of http_get_response: the 404 page leaves issend alone.
http_get_response_KeepsIssend(s) ==
    LET f == resource[s]
    IN  IF f = NoFile \/ size[f] = Missing
        THEN /\ wbuffer' = [wbuffer EXCEPT ![s] = <<NotFound>>]
             /\ UNCHANGED issend
        ELSE /\ wbuffer' = [wbuffer EXCEPT ![s] = <<Header(f, size[f])>>]
             /\ issend' = [issend EXCEPT ![s] = TRUE]

http_get_response(s) ==
    LET f == resource[s]
    IN  IF f = NoFile \/ size[f] = Missing
        THEN /\ wbuffer' = [wbuffer EXCEPT ![s] = <<NotFound>>]
             /\ issend' = [issend EXCEPT ![s] = FALSE]
        ELSE /\ wbuffer' = [wbuffer EXCEPT ![s] = <<Header(f, size[f])>>]
             /\ issend' = [issend EXCEPT ![s] = TRUE]

\* http_post_response is empty: the last answer of the control block stays.
http_response(s) ==
    \/ method[s] = "GET" /\ http_get_response(s)
    \/ method[s] = "POST" /\ UNCHANGED <<wbuffer, issend>>

\* The beginning of send_cb, up to the result of the first send().
Responding(b, fd) ==
    /\ Dispatch(b, "send_cb") /\ fd = ev[b.ptr].fd
    /\ http_response(Slot(fd))
    /\ UNCHANGED <<backlog, peer, rx, blkcnt, method, resource, copied, said>>

Sent(c, parts) ==
    /\ out' = [out EXCEPT ![c] = @ \o parts]
    /\ inflight' = [inflight EXCEPT ![c] = @ + Len(parts)]

\* Mutant of SendHead: takes the connection down when there is no file to send.
SendHead_Closes(b, fd) ==
    /\ Responding(b, fd) /\ ~Gone(fdtab[fd])
    /\ wbuffer'[Slot(fd)] # <<>>
    /\ Sent(fdtab[fd], wbuffer'[Slot(fd)])
    /\ IF issend'[Slot(fd)]
       THEN sending' = fd /\ UNCHANGED <<ev, interest, fdtab, stage>>
       ELSE DelAndClose(fd) /\ UNCHANGED sending
    /\ UNCHANGED alive

\* send() took wbuffer: the file is next, or the next request.
SendHead(b, fd) ==
    /\ Responding(b, fd) /\ ~Gone(fdtab[fd])
    /\ wbuffer'[Slot(fd)] # <<>>
    /\ Sent(fdtab[fd], wbuffer'[Slot(fd)])
    /\ IF issend'[Slot(fd)]
       THEN sending' = fd /\ UNCHANGED <<ev, interest>>
       ELSE Rearm(fd, "recv_cb", {"IN"}) /\ UNCHANGED sending
    /\ UNCHANGED <<fdtab, stage, alive>>

\* send() failed, or returned 0 because wlength is 0; issend is not reset.
SendClose(b, fd) ==
    /\ Responding(b, fd)
    /\ \/ peer[fdtab[fd]] \in {"reset", "timeout"}
       \/ ~Gone(fdtab[fd]) /\ wbuffer'[Slot(fd)] = <<>>
    /\ DelAndClose(fd)
    /\ UNCHANGED <<inflight, alive, sending, out>>

\* SIGPIPE, which the program neither ignores nor handles.
SendKilled(b, fd) ==
    /\ Responding(b, fd) /\ peer[fdtab[fd]] = "pipe"
    /\ alive' = FALSE
    /\ UNCHANGED <<fdtab, stage, interest, inflight, ev, sending, out>>

send_cb(b) ==
    \E fd \in Fd : SendHead(b, fd) \/ SendClose(b, fd) \/ SendKilled(b, fd)

\* The rest of send_cb behind the line end: the descriptor stays, and is read on.
FileDone(fd) ==
    /\ issend' = [issend EXCEPT ![Slot(fd)] = FALSE]
    /\ sending' = 0 /\ copied' = FALSE
    /\ Rearm(fd, "recv_cb", {"IN"})
    /\ UNCHANGED <<fdtab, backlog, stage, rx, blkcnt, batch, alive,
                   method, resource, wbuffer, said>>

\* The result of sendfile() is logged only.
FileCopied ==
    /\ copied' = TRUE
    /\ UNCHANGED <<fdtab, interest, backlog, stage, rx, reactorVars,
                   method, resource, wbuffer, issend, sending, said>>

ToSend == Contents(resource[Slot(sending)])

\* sendfile() takes what there is room for of the file as it is now.  Without
\* contents it does not look at the socket.
SendFile ==
    /\ alive /\ sending # 0 /\ ~copied
    /\ ~Gone(fdtab[sending]) \/ ToSend = 0
    /\ LET c == fdtab[sending]
       IN  Sent(c, [i \in 1..Min2(ToSend, Room(c)) |-> Unit(resource[Slot(sending)])])
    /\ UNCHANGED peer
    /\ FileCopied

\* A second send() adds the line end, if there is room left.
SendLineEnd ==
    /\ alive /\ sending # 0 /\ copied /\ ~Gone(fdtab[sending])
    /\ LET c == fdtab[sending]
       IN  Sent(c, IF Room(c) > 0 THEN <<LineEnd>> ELSE <<>>)
    /\ UNCHANGED peer
    /\ FileDone(sending)

\* The peer is gone: sendfile(), or send() if sendfile() had nothing to send, gets
\* the error of the socket, and the next call will see its end.
SendFileLate ==
    /\ alive /\ sending # 0
    /\ LET c == fdtab[sending]
       IN  /\ peer[c] \in {"reset", "timeout"}
           /\ peer' = [peer EXCEPT ![c] = "pipe"]
    /\ \/ ~copied /\ ToSend # 0 /\ FileCopied
       \/ copied /\ FileDone(sending)
    /\ UNCHANGED <<out, inflight>>

\* SIGPIPE in sendfile() or in the send() behind it.
SendFileKilled ==
    /\ alive /\ sending # 0 /\ peer[fdtab[sending]] = "pipe"
    /\ copied \/ ToSend # 0
    /\ alive' = FALSE
    /\ UNCHANGED <<kernelVars, ev, blkcnt, batch, httpVars, said, out>>

-----------------------------------------------------------------------------
Server ==
    /\ UNCHANGED size
    /\ \/ sending = 0 /\ EpollWait /\ UNCHANGED <<httpVars, said, out>>
       \/ /\ sending = 0
          /\ \E b \in batch :
                \/ accept_cb(b) /\ UNCHANGED <<httpVars, said, out>>
                \/ recv_cb(b)
                \/ send_cb(b)
       \/ SendFile \/ SendLineEnd \/ SendFileLate \/ SendFileKilled

Idle == EpollTimeout /\ sending = 0 /\ UNCHANGED <<httpVars, size, said, out>>

Next ==
    \/ Server \/ Idle
    \/ \E c \in Conn : Client(c)
    \/ \E f \in File, n \in Sizes : Edit(f, n)

Spec == Init /\ [][Next]_vars

Fairness ==
    /\ WF_vars(Server)
    /\ \A c \in Conn : WF_vars(ClientRead(c) /\ UNCHANGED <<httpVars, size, said, out>>)

FairSpec == Spec /\ Fairness

-----------------------------------------------------------------------------
(* Properties *)

\* The answer to a GET, while the files stay as they are.
Answer(r) ==
    IF size[r.path] = Missing THEN <<NotFound>>
    ELSE <<Header(r.path, size[r.path])>> \o [i \in 1..Contents(r.path) |-> Unit(r.path)]
         \o <<LineEnd>>

\* o is the answers to the requests asked, one after the other: up to cut[k] those
\* to the first k.  Only the last part of o may be less than a whole answer.
InTurn(o, asked) ==
    \E cut \in [0..Len(asked) -> 0..Len(o)] :
        /\ cut[0] = 0 /\ cut[Len(asked)] = Len(o)
        /\ \A k \in 1..Len(asked) :
              LET answer == Answer(asked[k])
                  n      == cut[k] - cut[k - 1]
              IN  /\ n \in 0..Len(answer)
                  /\ n = Len(answer) \/ cut[k] = Len(o)
                  /\ \A i \in 1..n : o[cut[k - 1] + i] = answer[i]

\* A request for a file that nobody edits.
Unedited(r) == r.method = "GET" /\ r.path \notin Edited

\* A client that asks for files nobody edits, and waits for its answers, gets
\* them whole, in order, each for the file it asked for, whatever the last user
\* of the control block asked for (send_cb answers from the resource that
\* parser_http_request left there).
AnswersInOrder ==
    \A c \in Conn \ Hasty :
        (\A i \in 1..Len(said[c]) : Unedited(said[c][i])) => InTurn(out[c], said[c])

\* The contents of a file come behind a header of the same file, without
\* anything in between, even when the file changes between the two open() of
\* send_cb, or issend and wbuffer are left over from another client.
UnitsUnderHeader ==
    \A c \in Conn : \A i \in 1..Len(out[c]) :
        out[c][i].what = "unit" =>
            /\ i > 1 /\ out[c][i - 1].what \in {"header", "unit"}
            /\ out[c][i - 1].file = out[c][i].file

\* Only a client that sent something else than GET is hung up on while it is
\* still there (http_post_response leaves wlength at 0 in a fresh block).
HangsUpOnPostOnly ==
    \A c \in Conn : stage[c] = "closed" /\ peer[c] = "open" =>
        \E i \in 1..Len(said[c]) : said[c][i].method # "GET"

\* Every request of an accepted client that waits for its answers is answered,
\* or the connection ends, as long as the process lives.
EventuallyAnswered ==
    \A c \in Conn \ Hasty : \A k \in 1..MaxSaid[c] :
        (stage[c] = "accepted" /\ Len(said[c]) >= k) ~>
            (Cardinality(Answers(c)) >= k \/ stage[c] = "closed" \/ ~alive)
=============================================================================
