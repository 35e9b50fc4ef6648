-------------------------------- MODULE WsProofs --------------------------------
(***************************************************************************)
(* Theorems of the WebSocket server, for any number of clients,            *)
(* descriptors and messages, every kind of message, habit and fault.       *)
(* The last two are about clients that wait for their answers, and that    *)
(* say goodbye besides.                                                    *)
(***************************************************************************)
EXTENDS WebSocketServer, ReactorProofs, SequenceTheorems, FiniteSetTheorems

\* NoLeftoverReply for one descriptor.
LeftoverAt(fd) ==
    wbuffer[Slot(fd)] # <<>> => ev[Slot(fd)].callback = "send_cb" /\ ev[Slot(fd)].status = 1

\* A reply waits for a client of which something was read.  If that client opened
\* with a request and was sent nothing, it is the answer to the request, and without
\* one the client is not read again.
GreetsAt(fd) ==
    LET c == fdtab[fd] IN
    /\ c # NoConn /\ wbuffer[Slot(fd)] # <<>> => rx[c] # said[c]
    /\ c # NoConn /\ rx[c] # said[c] /\ out[c] = <<>> /\ said[c][1] \in Upgrades =>
          /\ ev[Slot(fd)].callback # "recv_cb"
          /\ wbuffer[Slot(fd)] # <<>> => wbuffer[Slot(fd)][1] = Reply(said[c][1])

\* A block that is to be closed has left the session, so no data frame meets it.
CloseInv == \A s \in Slots : is_close[s] => ws_stat[s] = "HANDSHARK"

\* r is the end of s.
EndOf(r, s) ==
    Len(r) <= Len(s) /\ \A i \in 1..Len(r) : r[i] = s[Len(s) - Len(r) + i]

\* What is still to be read of a client is the end of what it said, nothing was read
\* before it was accepted, and nothing was sent to it before it spoke.
Input(c) ==
    /\ EndOf(rx[c], said[c])
    /\ stage[c] \in {"idle", "queued"} => rx[c] = said[c]
    /\ out[c] # <<>> => said[c] # <<>>

\* For clients with manners: a close frame is the last a client sends; before it was
\* answered it has sent nothing but its request.
RxInv ==
    "unruly" \notin Habits =>
        \A c \in Conn : \A i \in 1..Len(rx[c]) :
            /\ rx[c][i] = "close" => Leaving(c)
            /\ out[c] = <<>> => rx[c][i] \in Upgrades

WsInv ==
    /\ CoreInv /\ TypeOK
    /\ \A fd \in Fd : LeftoverAt(fd) /\ GreetsAt(fd)
    /\ CloseInv /\ RxInv /\ \A c \in Conn : Input(c)
    /\ HangsUpOnLeaversOnly /\ HandshakeFirst

-----------------------------------------------------------------------------
LEMMA AppendLast ==
    ASSUME NEW S, NEW s \in Seq(S), NEW m \in S
    PROVE  /\ Append(s, m) \in Seq(S) /\ Append(s, m) # <<>>
           /\ Append(s, m)[Len(Append(s, m))] = m
<1>1. Append(s, m) \in Seq(S) /\ Len(Append(s, m)) = Len(s) + 1 /\ Len(s) \in Nat
  OBVIOUS
<1>2. Append(s, m)[Len(s) + 1] = m
  OBVIOUS
<1>. QED  BY <1>1, <1>2

LEMMA HeadOfReply ==
    ASSUME NEW S, NEW s \in Seq(S), s # <<>>, NEW n \in 0..Len(s)
    PROVE  /\ SubSeq(s, 1, n) \in Seq(S)
           /\ SubSeq(s, 1, n) # <<>> => SubSeq(s, 1, n)[1] = s[1]
           /\ n # 0 => SubSeq(s, 1, n) # <<>>
<1>1. /\ Len(s) \in Nat /\ 1 \in 1..Len(s) + 1 /\ n \in 1 - 1..Len(s)
      /\ \A i \in 1..n : s[i] \in S
  BY ElementOfSeq, LenProperties
<1>2. SubSeq(s, 1, n) \in Seq(S) /\ Len(SubSeq(s, 1, n)) = n
  BY <1>1, SubSeqProperties
<1>3. ASSUME SubSeq(s, 1, n) # <<>> PROVE SubSeq(s, 1, n)[1] = s[1]
  <2>1. n \in 1..Len(s)
    BY <1>1, <1>2, <1>3, EmptySeq
  <2>. QED  BY <2>1
<1>4. n # 0 => SubSeq(s, 1, n) # <<>>
  BY <1>2, EmptySeq
<1>. QED  BY <1>2, <1>3, <1>4

LEMMA ConcatHead ==
    ASSUME NEW S, NEW s \in Seq(S), NEW t \in Seq(S)
    PROVE  /\ s \o t \in Seq(S)
           /\ s # <<>> => s \o t # <<>> /\ (s \o t)[1] = s[1]
           /\ s = <<>> => s \o t = t
<1>1. s \o t \in Seq(S) /\ Len(s \o t) = Len(s) + Len(t) /\ Len(s) \in Nat /\ Len(t) \in Nat
  OBVIOUS
<1>2. s = <<>> => s \o t = t
  BY ConcatEmptySeq
<1>3. ASSUME s # <<>> PROVE s \o t # <<>> /\ (s \o t)[1] = s[1]
  <2>1. Len(s) \in Nat \ {0}
    BY <1>3, EmptySeq
  <2>2. (s \o t)[1] = s[1]
    BY <2>1
  <2>3. Len(s \o t) # 0
    BY <1>1, <2>1
  <2>. QED  BY <2>2, <2>3, EmptySeq
<1>. QED  BY <1>1, <1>2, <1>3

\* One more message.
LEMMA SayMore ==
    ASSUME NEW S, NEW r \in Seq(S), NEW s \in Seq(S), NEW m \in S, EndOf(r, s)
    PROVE  /\ EndOf(r \o <<m>>, Append(s, m)) /\ Append(s, m) # <<>>
           /\ r \o <<m>> = Append(s, m) <=> r = s
           /\ s # <<>> => Append(s, m)[1] = s[1]
           /\ s = <<>> => r = s
<1>1. PICK k \in Nat, l \in Nat : k = Len(r) /\ l = Len(s) /\ k <= l
  BY DEF EndOf
<1>2. PICK q \in Seq(S), t \in Seq(S) : q = r \o <<m>> /\ t = Append(s, m)
  <2>1. r \o <<m>> \in Seq(S) /\ Append(s, m) \in Seq(S)
    OBVIOUS
  <2>. QED  BY <2>1
<1>3. /\ Len(q) = k + 1 /\ q[k + 1] = m /\ \A i \in 1..k : q[i] = r[i]
      /\ Len(t) = l + 1 /\ t[l + 1] = m /\ \A i \in 1..l : t[i] = s[i]
  BY <1>1, <1>2
<1>4. EndOf(q, t)
  <2>1. ASSUME NEW i \in 1..(k + 1) PROVE q[i] = t[l - k + i]
    <3>1. CASE i \in 1..k
      <4>1. l - k + i \in 1..l
        BY <1>1, <3>1
      <4>2. r[i] = s[l - k + i]
        BY <1>1, <3>1 DEF EndOf
      <4>. QED  BY <1>3, <3>1, <4>1, <4>2
    <3>2. CASE i = k + 1
      BY <1>1, <1>3, <3>2
    <3>. QED  BY <2>1, <3>1, <3>2
  <2>2. \A i \in 1..(k + 1) : (l + 1) - (k + 1) + i = l - k + i
    BY <1>1
  <2>. QED  BY <1>1, <1>3, <2>1, <2>2 DEF EndOf
<1>5. ASSUME q = t PROVE r = s
  <2>1. k = l
    BY <1>1, <1>3, <1>5
  <2>2. \A i \in 1..k : r[i] = s[i]
    BY <1>3, <1>5, <2>1
  <2>. QED  BY <1>1, <2>1, <2>2, SeqEqual
<1>6. ASSUME r = s PROVE q = t
  BY <1>1, <1>2, <1>3, <1>6, SeqEqual
<1>7. s # <<>> => t[1] = s[1]
  <2>1. s # <<>> => 1 \in 1..l
    BY <1>1, EmptySeq
  <2>. QED  BY <1>3, <2>1
<1>8. s = <<>> => r = s
  <2>1. s = <<>> => k = 0
    BY <1>1
  <2>. QED  BY <1>1, <2>1, EmptySeq
<1>9. t # <<>>
  BY <1>3
<1>. QED  BY <1>2, <1>4, <1>5, <1>6, <1>7, <1>8, <1>9

\* n messages less.
LEMMA ReadMore ==
    ASSUME NEW S, NEW r \in Seq(S), NEW s \in Seq(S), EndOf(r, s), NEW n \in 1..Len(r),
           NEW q, q = SubSeq(r, n + 1, Len(r))
    PROVE  /\ EndOf(q, s) /\ q # s /\ s # <<>>
           /\ \E i \in 1..(Len(s) - Len(q)) : s[i] = r[1]
<1>1. PICK k \in Nat, l \in Nat : k = Len(r) /\ l = Len(s) /\ k <= l /\ n \in 1..k
  BY DEF EndOf
<1>2. q \in Seq(S)
  BY <1>1, TailOf
<1>3. Len(q) = k - n /\ \A i \in 1..(k - n) : q[i] = r[n + i]
  BY <1>1, <1>2
<1>4. EndOf(q, s)
  <2>1. ASSUME NEW i \in 1..(k - n) PROVE q[i] = s[l - (k - n) + i]
    <3>1. n + i \in 1..k /\ l - k + (n + i) = l - (k - n) + i
      BY <1>1
    <3>2. r[n + i] = s[l - k + (n + i)]
      BY <1>1, <3>1 DEF EndOf
    <3>. QED  BY <1>3, <3>1, <3>2
  <2>2. k - n <= l
    BY <1>1
  <2>. QED  BY <1>1, <1>3, <2>1, <2>2 DEF EndOf
<1>5. q # s /\ s # <<>>
  <2>1. k - n # l /\ l # 0
    BY <1>1
  <2>. QED  BY <1>1, <1>3, <2>1
<1>6. \E i \in 1..(l - (k - n)) : s[i] = r[1]
  <2>1. 1 \in 1..k /\ l - k + 1 \in 1..(l - (k - n))
    BY <1>1
  <2>2. r[1] = s[l - k + 1]
    BY <1>1, <2>1 DEF EndOf
  <2>. QED  BY <2>1, <2>2
<1>. QED  BY <1>1, <1>2, <1>3, <1>4, <1>5, <1>6

LEMMA WsInit == Init => WsInv
<1>. SUFFICES ASSUME Init PROVE WsInv
  OBVIOUS
<1>1. CoreInv
  BY CoreInitInv DEF Init
<1>2. TypeOK
  BY <1>1 DEF CoreInv, Init, CoreInit, TypeOK
<1>3. \A fd \in Fd : Slot(fd) \in Slots
  BY DEF Slots, AllFd
<1>4. \A c \in Conn : Input(c)
  <2>1. EndOf(<<>>, <<>>)
    BY DEF EndOf
  <2>. QED  BY <2>1 DEF Init, CoreInit, Input
<1>5. \A fd \in Fd : LeftoverAt(fd) /\ GreetsAt(fd)
  BY <1>3 DEF Init, CoreInit, LeftoverAt, GreetsAt
<1>6. RxInv
  BY DEF Init, CoreInit, RxInv
<1>. QED
  BY <1>1, <1>2, <1>4, <1>5, <1>6
  DEF WsInv, Init, CoreInit, CloseInv, HangsUpOnLeaversOnly, HandshakeFirst

\* A step that does not touch the session: of a client, epoll_wait or SIGPIPE.
LEMMA QuietKeeps ==
    ASSUME WsInv, CoreInv', UNCHANGED <<fdtab, ev, rx, wsVars, said, out>>,
           \A c \in Conn :
               /\ stage'[c] = "closed" /\ peer'[c] = "open" => stage[c] = "closed" /\ peer[c] = "open"
               /\ stage'[c] \in {"idle", "queued"} => stage[c] \in {"idle", "queued"}
    PROVE  WsInv'
<1>1. TypeOK'
  BY DEF WsInv, CoreInv, TypeOK, wsVars
<1>2. \A fd \in Fd : LeftoverAt(fd)' /\ GreetsAt(fd)'
  BY DEF WsInv, LeftoverAt, GreetsAt, wsVars
<1>3. CloseInv' /\ RxInv' /\ HandshakeFirst'
  BY DEF WsInv, CloseInv, RxInv, HandshakeFirst, Leaving, LastSaid, wsVars
<1>4. HangsUpOnLeaversOnly'
  BY DEF WsInv, HangsUpOnLeaversOnly
<1>5. \A c \in Conn : Input(c)'
  BY DEF WsInv, Input
<1>. QED  BY <1>1, <1>2, <1>3, <1>4, <1>5 DEF WsInv

LEMMA ClientSayKeeps ==
    ASSUME WsInv, NEW c \in Conn, NEW m \in Kinds, ClientSay(c, m)
    PROVE  WsInv'
<1>1. /\ UNCHANGED <<fdtab, interest, backlog, stage, peer, inflight, ev, blkcnt, batch, alive, wsVars, out>>
      /\ rx' = [rx EXCEPT ![c] = rx[c] \o <<m>>] /\ said' = [said EXCEPT ![c] = Append(said[c], m)]
      /\ stage[c] # "closed" /\ MaySay(c, m)
  BY DEF ClientSay, Arrive, Reaching, reactorVars
<1>2. CoreInv'
  BY SocketStepsKeep DEF ClientSay, WsInv
<1>3. /\ rx \in [Conn -> Seq(AllKinds)] /\ said \in [Conn -> Seq(Kinds)] /\ m \in AllKinds
  BY KindsAssumption DEF WsInv, TypeOK
<1>4. /\ Len(rx[c] \o <<m>>) = Len(rx[c]) + 1 /\ Len(rx[c]) \in Nat
      /\ rx[c] \o <<m>> \in Seq(AllKinds)
      /\ (rx[c] \o <<m>>)[Len(rx[c]) + 1] = m
      /\ \A i \in 1..Len(rx[c]) : (rx[c] \o <<m>>)[i] = rx[c][i]
  BY <1>3
<1>5. /\ Append(said[c], m) \in Seq(Kinds) /\ Append(said[c], m) # <<>>
      /\ Append(said[c], m)[Len(Append(said[c], m))] = m
  <2>1. said[c] \in Seq(Kinds)
    BY <1>3
  <2>. QED  BY <2>1, AppendLast
<1>6. TypeOK'
  BY <1>1, <1>2, <1>3, <1>4, <1>5 DEF WsInv, CoreInv, TypeOK, wsVars
<1>7. /\ EndOf(rx'[c], said'[c]) /\ said'[c] # <<>>
      /\ rx'[c] = said'[c] <=> rx[c] = said[c]
      /\ said[c] # <<>> => said'[c][1] = said[c][1]
      /\ said[c] = <<>> => rx[c] = said[c]
  <2>1. rx[c] \in Seq(AllKinds) /\ said[c] \in Seq(AllKinds) /\ EndOf(rx[c], said[c])
    BY <1>3, KindsAssumption DEF WsInv, Input
  <2>2. rx'[c] = rx[c] \o <<m>> /\ said'[c] = Append(said[c], m)
    BY <1>1, <1>3
  <2>. QED  BY <1>3, <2>1, <2>2, SayMore
<1>8. \A d \in Conn \ {c} : rx'[d] = rx[d] /\ said'[d] = said[d]
  BY <1>1, <1>3
<1>13. ASSUME NEW fd \in Fd PROVE LeftoverAt(fd)' /\ GreetsAt(fd)'
  <2>1. UNCHANGED <<fdtab, ev, wbuffer, out>> /\ LeftoverAt(fd) /\ GreetsAt(fd)
    BY <1>1 DEF WsInv, wsVars
  <2>2. fdtab[fd] \in Conn \/ fdtab[fd] = NoConn
    BY DEF WsInv, CoreInv, CoreTypeOK
  <2>. QED  BY <1>7, <1>8, <2>1, <2>2 DEF LeftoverAt, GreetsAt
<1>14. ASSUME NEW d \in Conn PROVE Input(d)'
  <2>1. CASE d = c
    BY <1>1, <1>7, <2>1 DEF WsInv, Input
  <2>2. CASE d # c
    BY <1>1, <1>8, <2>2 DEF WsInv, Input
  <2>. QED  BY <2>1, <2>2
<1>15. CloseInv'
  BY <1>1 DEF WsInv, CloseInv, wsVars
<1>16. HandshakeFirst'
  <2>1. ASSUME NEW d \in Conn, out'[d] # <<>>, said'[d][1] \in Upgrades
        PROVE  out'[d][1] = Reply(said'[d][1])
    <3>1. out' = out /\ said[d] # <<>>
      BY <1>1, <2>1 DEF WsInv, Input
    <3>. QED  BY <1>7, <1>8, <2>1, <3>1 DEF WsInv, HandshakeFirst
  <2>. QED  BY <2>1 DEF HandshakeFirst
<1>9. \A d \in Conn \ {c} : Leaving(d)' = Leaving(d) /\ rx'[d] = rx[d]
  BY <1>1, <1>3 DEF Leaving, LastSaid
<1>10. ASSUME "unruly" \notin Habits
       PROVE  /\ Leaving(c)' = (m = "close") /\ ~Leaving(c)
              /\ out[c] = <<>> => m \in Upgrades
  <2>1. said'[c] = Append(said[c], m)
    BY <1>1, <1>3
  <2>2. Leaving(c)' = (m = "close")
    BY <1>5, <2>1 DEF Leaving, LastSaid
  <2>. QED  BY <1>1, <1>10, <2>2 DEF MaySay, Mannered, Leaving
<1>11. RxInv'
  <2>1. ASSUME "unruly" \notin Habits, NEW d \in Conn, NEW i \in 1..Len(rx'[d])
        PROVE  /\ rx'[d][i] = "close" => Leaving(d)'
               /\ out[d] = <<>> => rx'[d][i] \in Upgrades
    <3>1. CASE d # c
      BY <1>9, <2>1, <3>1 DEF WsInv, RxInv
    <3>2. CASE d = c
      <4>1. rx'[c] = rx[c] \o <<m>>
        BY <1>1, <1>3
      <4>2. i \in 1..Len(rx[c]) \/ i = Len(rx[c]) + 1
        BY <1>4, <2>1, <3>2, <4>1
      <4>3. CASE i \in 1..Len(rx[c])
        <5>1. rx'[c][i] = rx[c][i]
          BY <1>4, <4>1, <4>3
        <5>. QED  BY <1>10, <2>1, <3>2, <4>3, <5>1 DEF WsInv, RxInv
      <4>4. CASE i = Len(rx[c]) + 1
        BY <1>4, <1>10, <2>1, <3>2, <4>1, <4>4
      <4>. QED  BY <4>2, <4>3, <4>4
    <3>. QED  BY <3>1, <3>2
  <2>2. out' = out
    BY <1>1
  <2>. QED  BY <2>1, <2>2 DEF RxInv
<1>12. HangsUpOnLeaversOnly'
  BY <1>1, <1>8 DEF WsInv, HangsUpOnLeaversOnly
<1>. QED  BY <1>2, <1>6, <1>11, <1>12, <1>13, <1>14, <1>15, <1>16 DEF WsInv

LEMMA ClientMoveKeeps ==
    ASSUME WsInv, NEW c \in Conn, ClientMove(c), UNCHANGED <<wsVars, said, out>>
    PROVE  WsInv'
<1>1. CoreInv'
  BY ConnectKeeps, SocketStepsKeep DEF ClientMove, WsInv
<1>2. UNCHANGED <<fdtab, ev, rx>>
  BY DEF ClientMove, Connect, ClientRead, ClientFin, ClientReset, ClientPipe, PeerTimeout, Lose, reactorVars
<1>3. stage \in [Conn -> Stages] /\ peer \in [Conn -> PeerStates]
  BY DEF WsInv, CoreInv, CoreTypeOK
<1>4. ASSUME NEW d \in Conn
      PROVE  /\ stage'[d] = "closed" /\ peer'[d] = "open" => stage[d] = "closed" /\ peer[d] = "open"
             /\ stage'[d] \in {"idle", "queued"} => stage[d] \in {"idle", "queued"}
  BY <1>3, <1>4
  DEF ClientMove, Connect, ClientRead, ClientFin, ClientReset, ClientPipe, PeerTimeout, Lose, Reaching
<1>. QED  BY <1>1, <1>2, <1>4, QuietKeeps

-----------------------------------------------------------------------------
(* accept_cb *)

LEMMA AcceptKeepsWs ==
    ASSUME WsInv, NEW b \in batch, accept_cb(b), UNCHANGED <<wsVars, said, out>>
    PROVE  WsInv'
<1>1. CoreInv /\ CoreInv'
  BY AcceptKeeps DEF WsInv
<1>2. CASE AcceptFails(b)
  BY <1>1, <1>2, QuietKeeps DEF AcceptFails, kernelVars
<1>3. ASSUME NEW fd \in Fd, Accepting(fd), Dispatch(b, "accept_cb"),
             \/ ev' = [ev EXCEPT ![Slot(fd)] = EventAdd(EventSet(ev[Slot(fd)], fd, "recv_cb"), {"IN"})]
             \/ ev' = ev
      PROVE  WsInv'
  <2>1. backlog # <<>>
    BY <1>1, <1>3, EventFd DEF Dispatch, EventOf
  <2>. DEFINE c == Head(backlog)
  <2>2. /\ c \in Conn /\ fdtab[fd] = NoConn /\ fdtab' = [fdtab EXCEPT ![fd] = c]
        /\ stage' = [stage EXCEPT ![c] = "accepted"] /\ UNCHANGED <<peer, rx>>
    BY <1>1, <1>3, <2>1, AcceptingKeeps DEF Accepting
  <2>11. rx[c] = said[c]
    <3>1. stage[c] = "queued"
      BY <1>1, <1>3, <2>1, AcceptingKeeps
    <3>. QED  BY <2>2, <3>1 DEF WsInv, Input
  <2>3. ev[Slot(fd)].status # 1
    BY <1>1, <2>2, FreeFdIsUnwatched
  <2>4. wbuffer[Slot(fd)] = <<>>
    BY <2>3 DEF WsInv, LeftoverAt
  <2>5. /\ ev \in [Slots -> NtyEvent] /\ stage \in [Conn -> Stages]
        /\ fdtab \in [Fd -> Conn \cup {NoConn}]
        /\ \A g \in Fd : Slot(g) \in Slots
        /\ \A g \in Fd \ {fd} : Slot(g) # Slot(fd)
    BY <1>1, SlotInjective DEF CoreInv, CoreTypeOK, Slots, AllFd
  <2>6. \A g \in Fd \ {fd} : ev'[Slot(g)] = ev[Slot(g)] /\ fdtab'[g] = fdtab[g]
    BY <1>3, <2>2, <2>5
  <2>7. wbuffer' = wbuffer /\ out' = out /\ said' = said /\ ws_stat' = ws_stat /\ is_close' = is_close
    BY DEF wsVars
  <2>8. ASSUME NEW g \in Fd PROVE LeftoverAt(g)' /\ GreetsAt(g)'
    <3>1. CASE g = fd
      BY <2>2, <2>4, <2>5, <2>7, <2>11, <3>1 DEF LeftoverAt, GreetsAt
    <3>2. CASE g # fd
      BY <2>2, <2>6, <2>7, <3>2 DEF WsInv, LeftoverAt, GreetsAt
    <3>. QED  BY <3>1, <3>2
  <2>9. TypeOK'
    BY <1>1, <2>2, <2>7 DEF WsInv, CoreInv, TypeOK
  <2>10. CloseInv' /\ RxInv' /\ HandshakeFirst' /\ HangsUpOnLeaversOnly'
    BY <2>2, <2>5, <2>7
    DEF WsInv, CloseInv, RxInv, HandshakeFirst, HangsUpOnLeaversOnly, Leaving, LastSaid
  <2>12. \A d \in Conn : Input(d)'
    BY <2>2, <2>5, <2>7 DEF WsInv, Input
  <2>. QED  BY <1>1, <2>8, <2>9, <2>10, <2>12 DEF WsInv
<1>4. CASE AcceptOk(b)
  BY <1>3, <1>4 DEF AcceptOk
<1>5. CASE AcceptForgets(b)
  BY <1>3, <1>5 DEF AcceptForgets
<1>. QED  BY <1>2, <1>4, <1>5 DEF accept_cb

-----------------------------------------------------------------------------
(* recv_cb and send_cb *)

\* What a callback may do to other descriptors, to the connection c of its own,
\* and to the input and output of c.
Others(fd, c) ==
    /\ \A g \in Fd \ {fd} : /\ fdtab'[g] = fdtab[g] /\ ev'[Slot(g)] = ev[Slot(g)]
                            /\ wbuffer'[Slot(g)] = wbuffer[Slot(g)]
    /\ \A d \in Conn \ {c} : rx'[d] = rx[d] /\ out'[d] = out[d] /\ stage'[d] = stage[d]

Own(c) ==
    /\ \A i \in 1..Len(rx'[c]) : \E j \in 1..Len(rx[c]) : rx'[c][i] = rx[c][j]
    /\ EndOf(rx'[c], said[c])
    /\ out[c] # <<>> => out'[c] # <<>> /\ out'[c][1] = out[c][1]
    /\ out[c] = <<>> /\ out'[c] # <<>> =>
          said[c] # <<>> /\ (said[c][1] \in Upgrades => out'[c][1] = Reply(said[c][1]))
    /\ stage'[c] \in {"accepted", "closed"}
    /\ stage'[c] = "closed" =>
          peer[c] # "open" \/ \E i \in 1..(Len(said[c]) - Len(rx'[c])) : said[c][i] = "close"

LEMMA OwnSession ==
    ASSUME WsInv, CoreInv', TypeOK', CloseInv',
           NEW fd \in Fd, fdtab[fd] \in Conn,
           UNCHANGED <<said, peer>>,
           Others(fd, fdtab[fd]), Own(fdtab[fd]), LeftoverAt(fd)', GreetsAt(fd)'
    PROVE  WsInv'
<1>. DEFINE c == fdtab[fd]
<1>. USE DEF Others, Own
<1>1. \A d \in Conn : Leaving(d)' = Leaving(d)
  BY DEF Leaving, LastSaid
<1>2. ASSUME NEW g \in Fd PROVE LeftoverAt(g)' /\ GreetsAt(g)'
  <2>1. CASE g = fd
    BY <2>1
  <2>2. CASE g # fd
    <3>1. fdtab[g] # NoConn => fdtab[g] \in Conn \ {c}
      BY <2>2, ConnAssumption DEF WsInv, CoreInv, CoreTypeOK, OneFdPerConn
    <3>2. LeftoverAt(g) /\ GreetsAt(g)
      BY DEF WsInv
    <3>. QED  BY <2>2, <3>1, <3>2 DEF LeftoverAt, GreetsAt
  <2>. QED  BY <2>1, <2>2
<1>3. RxInv'
  <2>1. ASSUME "unruly" \notin Habits, NEW d \in Conn, NEW i \in 1..Len(rx'[d])
        PROVE  /\ rx'[d][i] = "close" => Leaving(d)'
               /\ out'[d] = <<>> => rx'[d][i] \in Upgrades
    <3>1. PICK j \in 1..Len(rx[d]) : rx'[d][i] = rx[d][j]
      BY <2>1
    <3>2. out'[d] = <<>> => out[d] = <<>>
      OBVIOUS
    <3>. QED  BY <1>1, <2>1, <3>1, <3>2 DEF WsInv, RxInv
  <2>. QED  BY <2>1 DEF RxInv
<1>4. HangsUpOnLeaversOnly'
  BY DEF WsInv, HangsUpOnLeaversOnly
<1>5. HandshakeFirst'
  BY DEF WsInv, HandshakeFirst
<1>6. ASSUME NEW d \in Conn PROVE Input(d)'
  <2>1. CASE d = c
    BY <2>1 DEF WsInv, Input
  <2>2. CASE d # c
    BY <2>2 DEF WsInv, Input
  <2>. QED  BY <2>1, <2>2
<1>. QED  BY <1>2, <1>3, <1>4, <1>5, <1>6 DEF WsInv

\* wshandle with no reply pending.
LEMMA Handled ==
    ASSUME WsInv, NEW s \in Slots, wbuffer[s] = <<>>, NEW m \in AllKinds, NEW late,
           wshandle(s, m, late)
    PROVE  /\ ws_stat' \in [Slots -> {"HANDSHARK", "TRANSMISSION"}]
           /\ is_close' \in [Slots -> BOOLEAN]
           /\ wbuffer' \in [Slots -> Seq(Part)]
           /\ CloseInv'
           /\ \A t \in Slots \ {s} : wbuffer'[t] = wbuffer[t]
           /\ is_close'[s] => m = "close" /\ wbuffer'[s] = <<>>
           /\ m \in Upgrades /\ wbuffer'[s] # <<>> => wbuffer'[s][1] = Reply(m)
<1>1. /\ ws_stat \in [Slots -> {"HANDSHARK", "TRANSMISSION"}] /\ is_close \in [Slots -> BOOLEAN]
      /\ wbuffer \in [Slots -> Seq(Part)] /\ CloseInv
  BY DEF WsInv, TypeOK
<1>2. CASE ws_stat[s] = "HANDSHARK"
  <2>1. PICK r \in HandsharkReplies(m, late) :
          /\ is_close' = [is_close EXCEPT ![s] = FALSE]
          /\ wbuffer' = [wbuffer EXCEPT ![s] = r]
          /\ ws_stat' = [ws_stat EXCEPT ![s] = "TRANSMISSION"]
    BY <1>2 DEF wshandle, handshark
  <2>2. r \in Seq(Part) /\ (m \in Upgrades => r[1] = Reply(m))
    <3>1. r \in {<<"101">>, <<"bad101">>}
      BY DEF HandsharkReplies
    <3>2. <<"101">> \in Seq(Part) /\ <<"bad101">> \in Seq(Part)
      BY DEF Part
    <3>3. <<"101">>[1] = "101" /\ <<"bad101">>[1] = "bad101"
      OBVIOUS
    <3>4. m \in Upgrades => r[1] = Reply(m)
      BY <3>3 DEF HandsharkReplies, Reply, Upgrades
    <3>. QED  BY <3>1, <3>2, <3>4
  <2>3. CloseInv'
    BY <1>1, <2>1 DEF CloseInv
  <2>. QED  BY <1>1, <2>1, <2>2, <2>3
<1>3. CASE ws_stat[s] = "TRANSMISSION"
  <2>1. transmission(s, m, late) /\ is_close[s] = FALSE
    BY <1>1, <1>3 DEF wshandle, CloseInv
  <2>2. CASE CloseFrame(s, m)
    BY <1>1, <2>2 DEF CloseFrame, CloseInv, Upgrades
  <2>3. CASE DataFrame(s, m, late)
    <3>1. PICK r \in TransmissionReplies(m, late) :
              wbuffer' = [wbuffer EXCEPT ![s] = IF r = <<>> THEN @ ELSE r]
      BY <2>3 DEF DataFrame
    <3>2. r \in Seq(Part) /\ (m \in Upgrades => r = <<>>)
      <4>1. r \in {<<>>, <<"garbled", "junk">>, <<"echo", "junk">>}
        BY DEF TransmissionReplies
      <4>2. m \in Upgrades => r = <<>>
        BY DEF TransmissionReplies, Upgrades
      <4>3. <<>> \in Seq(Part) /\ <<"garbled", "junk">> \in Seq(Part) /\ <<"echo", "junk">> \in Seq(Part)
        BY DEF Part
      <4>. QED  BY <4>1, <4>2, <4>3
    <3>3. UNCHANGED <<ws_stat, is_close>>
      BY <2>3 DEF DataFrame
    <3>4. wbuffer' \in [Slots -> Seq(Part)] /\ (m \in Upgrades => wbuffer'[s] = <<>>)
          /\ \A t \in Slots \ {s} : wbuffer'[t] = wbuffer[t]
      BY <1>1, <3>1, <3>2
    <3>. QED  BY <1>1, <2>1, <3>3, <3>4 DEF CloseInv
  <2>. QED  BY <2>1, <2>2, <2>3 DEF transmission
<1>. QED  BY <1>1, <1>2, <1>3

LEMMA EmptyEnd ==
    ASSUME NEW S, NEW T, NEW r \in Seq(S), NEW s \in Seq(T), EndOf(r, s), r # s
    PROVE  s # <<>>
<1>1. Len(r) # 0 \/ r = <<>>
  BY EmptySeq
<1>2. s = <<>> => Len(r) <= 0 /\ Len(r) \in Nat
  BY DEF EndOf
<1>. QED  BY <1>1, <1>2

\* What an event of recv_cb or send_cb is about.
LEMMA CallbackOf ==
    ASSUME WsInv, NEW b \in batch, NEW cb \in {"recv_cb", "send_cb"}, Dispatch(b, cb)
    PROVE  LET fd == ev[b.ptr].fd
           IN  /\ fd \in Fd /\ fdtab[fd] \in Conn /\ Slot(fd) \in Slots /\ ev[Slot(fd)].callback = cb
               /\ stage[fdtab[fd]] = "accepted"
               /\ \A g \in Fd \ {fd} : Slot(g) \in Slots /\ Slot(g) # Slot(fd)
               /\ cb = "recv_cb" => wbuffer[Slot(fd)] = <<>>
               /\ cb = "send_cb" => Writable(fdtab[fd])
               /\ batch' = batch \ {b} /\ ev[b.ptr].callback = cb
<1>. DEFINE fd == ev[b.ptr].fd
<1>1. ev[b.ptr].callback = cb /\ batch' = batch \ {b} /\ CoreInv
  BY DEF Dispatch, WsInv
<1>2. fd \in Fd /\ fdtab[fd] \in Conn /\ EventOf(b, fd) /\ stage[fdtab[fd]] = "accepted"
  BY <1>1, EventFd
<1>3. Slot(fd) \in Slots /\ \A g \in Fd \ {fd} : Slot(g) \in Slots /\ Slot(g) # Slot(fd)
  BY <1>2, SlotInjective DEF Slots, AllFd
<1>4. ev[Slot(fd)].callback = cb
  BY <1>1, <1>2 DEF EventOf
<1>5. cb = "recv_cb" => wbuffer[Slot(fd)] = <<>>
  BY <1>2, <1>4 DEF WsInv, LeftoverAt
<1>6. ASSUME cb = "send_cb" PROVE Writable(fdtab[fd])
  <2>1. Mirrors(fd) /\ interest[fd] # {} /\ b.events # {} /\ b.events \subseteq interest[fd]
    BY <1>1, <1>2, MirrorsAll DEF CoreInv, EventOf, AllFd
  <2>2. interest[fd] = {"OUT"}
    BY <1>2, <1>4, <1>6, <2>1, FdAssumption DEF Mirrors
  <2>3. "OUT" \in b.events
    BY <2>1, <2>2
  <2>. QED  BY <1>2, <2>3 DEF EventOf
<1>. QED  BY <1>1, <1>2, <1>3, <1>4, <1>5, <1>6

LEMMA RearmBlock ==
    ASSUME WsInv, NEW fd \in Fd, NEW cb, NEW evs, Rearm(fd, cb, evs)
    PROVE  /\ ev'[Slot(fd)].callback = cb /\ ev'[Slot(fd)].status = 1
           /\ \A g \in Fd \ {fd} : ev'[Slot(g)] = ev[Slot(g)]
<1>1. ev \in [Slots -> NtyEvent] /\ \A g \in Fd : Slot(g) \in Slots
  BY DEF WsInv, CoreInv, CoreTypeOK, Slots, AllFd
<1>2. \A g \in Fd \ {fd} : Slot(g) # Slot(fd)
  BY SlotInjective DEF AllFd
<1>3. ev' = [ev EXCEPT ![Slot(fd)] = EventAdd(EventSet(EventDel(ev[Slot(fd)]), fd, cb), evs)]
  BY DEF Rearm
<1>4. EventAdd(EventSet(EventDel(ev[Slot(fd)]), fd, cb), evs).callback = cb
      /\ EventAdd(EventSet(EventDel(ev[Slot(fd)]), fd, cb), evs).status = 1
  <2>1. ev[Slot(fd)] \in NtyEvent
    BY <1>1
  <2>. QED  BY <2>1 DEF NtyEvent, EventAdd, EventSet, EventDel
<1>. QED  BY <1>1, <1>2, <1>3, <1>4

LEMMA DelBlock ==
    ASSUME WsInv, NEW fd \in Fd, DelAndClose(fd) \/ DelOnly(fd)
    PROVE  \A g \in Fd \ {fd} : ev'[Slot(g)] = ev[Slot(g)]
<1>1. \A g \in Fd \ {fd} : Slot(g) # Slot(fd)
  BY SlotInjective DEF AllFd
<1>2. ev' = [ev EXCEPT ![Slot(fd)] = EventDel(ev[Slot(fd)])] /\ ev \in [Slots -> NtyEvent]
      /\ \A g \in Fd : Slot(g) \in Slots
  BY DEF DelAndClose, DelOnly, WsInv, CoreInv, CoreTypeOK, Slots, AllFd
<1>. QED  BY <1>1, <1>2

LEMMA RecvHandledKeeps ==
    ASSUME WsInv, NEW b \in batch, RecvHandled(b)
    PROVE  WsInv'
<1>1. PICK fd \in Fd, m \in Kinds, n \in 1..BUFFER_LENGTH :
        /\ Received(b, fd, m, n)
        /\ wshandle(Slot(fd), m, Behind(fd, n))
        /\ IF is_close'[Slot(fd)]
           THEN DelAndClose(fd)
           ELSE Rearm(fd, "send_cb", {"OUT"}) /\ UNCHANGED <<fdtab, stage>>
        /\ UNCHANGED alive
  BY DEF RecvHandled
<1>. DEFINE c == fdtab[fd]
            s == Slot(fd)
<1>2. /\ Dispatch(b, "recv_cb") /\ fd = ev[b.ptr].fd
      /\ n = Min2(Len(rx[c]), BUFFER_LENGTH) /\ n > 0 /\ m = rx[c][1]
      /\ rx' = [rx EXCEPT ![c] = SubSeq(rx[c], n + 1, Len(rx[c]))]
      /\ UNCHANGED <<backlog, peer, inflight, blkcnt, said, out>>
  BY <1>1 DEF Received
<1>3. /\ c \in Conn /\ s \in Slots /\ stage[c] = "accepted" /\ wbuffer[s] = <<>>
      /\ \A g \in Fd \ {fd} : Slot(g) \in Slots /\ Slot(g) # s
      /\ batch' = batch \ {b} /\ ev[b.ptr].callback = "recv_cb"
  BY <1>2, CallbackOf
<1>4. /\ rx \in [Conn -> Seq(AllKinds)] /\ fdtab \in [Fd -> Conn \cup {NoConn}]
      /\ stage \in [Conn -> Stages] /\ m \in AllKinds /\ CoreInv
  BY KindsAssumption DEF WsInv, TypeOK, CoreInv, CoreTypeOK
<1>5. n \in 1..Len(rx[c])
  <2>1. Len(rx[c]) \in Nat
    BY <1>3, <1>4
  <2>2. n = Min2(Len(rx[c]), BUFFER_LENGTH)
    BY <1>2
  <2>. QED  BY <2>1, <2>2, ReadRange
<1>6. /\ SubSeq(rx[c], n + 1, Len(rx[c])) \in Seq(AllKinds)
      /\ \A i \in 1..Len(SubSeq(rx[c], n + 1, Len(rx[c]))) :
            \E j \in 1..Len(rx[c]) : SubSeq(rx[c], n + 1, Len(rx[c]))[i] = rx[c][j]
  <2>1. rx[c] \in Seq(AllKinds)
    BY <1>3, <1>4
  <2>. QED  BY <1>5, <2>1, TailOf
<1>7. /\ rx' \in [Conn -> Seq(AllKinds)] /\ \A d \in Conn \ {c} : rx'[d] = rx[d]
      /\ \A i \in 1..Len(rx'[c]) : \E j \in 1..Len(rx[c]) : rx'[c][i] = rx[c][j]
  <2>1. rx'[c] = SubSeq(rx[c], n + 1, Len(rx[c]))
    BY <1>2, <1>3, <1>4
  <2>2. \A i \in 1..Len(rx'[c]) : \E j \in 1..Len(rx[c]) : rx'[c][i] = rx[c][j]
    BY <1>6, <2>1
  <2>. QED  BY <1>2, <1>3, <1>4, <1>6, <2>2
<1>8. /\ EndOf(rx'[c], said[c]) /\ rx'[c] # said[c] /\ said[c] # <<>>
      /\ rx[c] = said[c] => m = said[c][1]
      /\ m = "close" => \E i \in 1..(Len(said[c]) - Len(rx'[c])) : said[c][i] = "close"
  <2>1. rx[c] \in Seq(AllKinds) /\ said[c] \in Seq(AllKinds) /\ EndOf(rx[c], said[c])
    BY <1>3, KindsAssumption DEF WsInv, TypeOK, Input
  <2>2. rx'[c] = SubSeq(rx[c], n + 1, Len(rx[c])) /\ m = rx[c][1]
    BY <1>2, <1>3, <1>4
  <2>3. PICK r, t, q \in Seq(AllKinds) : r = rx[c] /\ t = said[c] /\ q = rx'[c]
    BY <1>3, <1>7, <2>1
  <2>4. EndOf(r, t) /\ n \in 1..Len(r) /\ q = SubSeq(r, n + 1, Len(r))
    BY <1>5, <2>1, <2>2, <2>3
  <2>5. /\ EndOf(q, t) /\ q # t /\ t # <<>>
        /\ \E i \in 1..(Len(t) - Len(q)) : t[i] = r[1]
    BY <2>4, ReadMore
  <2>. QED  BY <2>2, <2>3, <2>5
<1>14. PICK late : wshandle(s, m, late)
  BY <1>1
<1>9. /\ ws_stat' \in [Slots -> {"HANDSHARK", "TRANSMISSION"}]
      /\ is_close' \in [Slots -> BOOLEAN]
      /\ wbuffer' \in [Slots -> Seq(Part)]
      /\ CloseInv'
      /\ \A t \in Slots \ {s} : wbuffer'[t] = wbuffer[t]
      /\ is_close'[s] => m = "close" /\ wbuffer'[s] = <<>>
      /\ m \in Upgrades /\ wbuffer'[s] # <<>> => wbuffer'[s][1] = Reply(m)
  BY <1>3, <1>4, <1>14, Handled
<1>10. out[c] = <<>> /\ said[c][1] \in Upgrades => m = said[c][1]
  <2>1. c # NoConn /\ ev[Slot(fd)].callback = "recv_cb" /\ GreetsAt(fd)
    BY <1>2, <1>3, CallbackOf, ConnAssumption DEF WsInv
  <2>. QED  BY <1>8, <2>1 DEF GreetsAt
<1>11. SocketStep(fd)
  BY <1>2, <1>4 DEF SocketStep, CoreInv, CoreTypeOK
<1>12. CASE is_close'[s]
  <2>1. DelAndClose(fd)
    BY <1>1, <1>12
  <2>2. CoreInv'
    BY <1>1, <1>2, <1>3, <1>4, <2>1, DelAndCloseKeeps
  <2>3. /\ fdtab' = [fdtab EXCEPT ![fd] = NoConn] /\ stage' = [stage EXCEPT ![c] = "closed"]
        /\ \A g \in Fd \ {fd} : ev'[Slot(g)] = ev[Slot(g)]
    BY <2>1, DelBlock DEF DelAndClose
  <2>4. LeftoverAt(fd)' /\ GreetsAt(fd)'
    BY <1>4, <1>9, <1>12, <2>3 DEF LeftoverAt, GreetsAt
  <2>5. TypeOK'
    BY <1>2, <1>7, <1>9, <2>2 DEF TypeOK, CoreInv, WsInv
  <2>6. Others(fd, c)
    <3>1. \A g \in Fd \ {fd} : /\ fdtab'[g] = fdtab[g] /\ ev'[Slot(g)] = ev[Slot(g)]
                               /\ wbuffer'[Slot(g)] = wbuffer[Slot(g)]
      BY <1>3, <1>4, <1>9, <2>3
    <3>2. \A d \in Conn \ {c} : rx'[d] = rx[d] /\ out'[d] = out[d] /\ stage'[d] = stage[d]
      BY <1>2, <1>4, <1>7, <2>3
    <3>. QED  BY <3>1, <3>2 DEF Others
  <2>7. m = "close" /\ stage'[c] = "closed"
    BY <1>3, <1>4, <1>9, <1>12, <2>3
  <2>8. Own(c)
    <3>1. out' = out
      BY <1>2
    <3>. QED  BY <1>7, <1>8, <2>7, <3>1 DEF Own
  <2>9. UNCHANGED <<said, peer>> /\ CloseInv' /\ fdtab[fd] \in Conn
    BY <1>2, <1>3, <1>9
  <2>. QED
    BY <2>2, <2>4, <2>5, <2>6, <2>8, <2>9, OwnSession
<1>13. CASE ~is_close'[s]
  <2>1. Rearm(fd, "send_cb", {"OUT"}) /\ UNCHANGED <<fdtab, stage>>
    BY <1>1, <1>13
  <2>2. CoreInv'
    <3>1. <<"send_cb", {"OUT"}>> \in {<<"recv_cb", {"IN"}>>, <<"send_cb", {"OUT"}>>}
      OBVIOUS
    <3>2. UNCHANGED <<fdtab, backlog, stage, blkcnt, alive>>
      BY <1>1, <1>2, <2>1
    <3>3. ev[b.ptr].callback \in {"recv_cb", "send_cb"} /\ batch' = batch \ {b}
      BY <1>3
    <3>4. CoreInv /\ fd = ev[b.ptr].fd /\ Rearm(fd, "send_cb", {"OUT"})
      BY <1>2, <1>4, <2>1
    <3>. QED  BY <1>11, <3>1, <3>2, <3>3, <3>4, RearmKeeps
  <2>3. /\ ev'[s].callback = "send_cb" /\ ev'[s].status = 1
        /\ \A g \in Fd \ {fd} : ev'[Slot(g)] = ev[Slot(g)]
    BY <2>1, RearmBlock
  <2>4. LeftoverAt(fd)'
    BY <2>3 DEF LeftoverAt
  <2>5. GreetsAt(fd)'
    <3>1. UNCHANGED <<fdtab, out, said>>
      BY <1>2, <2>1
    <3>. QED  BY <1>8, <1>9, <1>10, <2>3, <3>1 DEF GreetsAt
  <2>6. TypeOK'
    BY <1>2, <1>7, <1>9, <2>2 DEF TypeOK, CoreInv, WsInv
  <2>7. Others(fd, c)
    BY <1>2, <1>3, <1>7, <1>9, <2>1, <2>3 DEF Others
  <2>8. Own(c)
    <3>1. out' = out /\ stage'[c] = "accepted"
      BY <1>2, <1>3, <2>1
    <3>. QED  BY <1>7, <1>8, <3>1 DEF Own
  <2>9. UNCHANGED <<said, peer>> /\ CloseInv' /\ fdtab[fd] \in Conn
    BY <1>2, <1>3, <1>9
  <2>. QED
    BY <2>2, <2>4, <2>5, <2>6, <2>7, <2>8, <2>9, OwnSession
<1>. QED  BY <1>12, <1>13

\* The ends of recv_cb that read no message.
LEMMA RecvOverKeeps ==
    ASSUME WsInv, NEW b \in batch, RecvEnd(b) \/ RecvError(b)
    PROVE  WsInv'
<1>1. PICK fd \in Fd :
        /\ fd = ev[b.ptr].fd /\ fdtab[fd] \in Conn /\ stage[fdtab[fd]] = "accepted"
        /\ wbuffer[Slot(fd)] = <<>>
        /\ batch' = batch \ {b} /\ ev[b.ptr].callback = "recv_cb"
  <2>1. Dispatch(b, "recv_cb")
    BY DEF RecvEnd, RecvError
  <2>. QED  BY <2>1, CallbackOf
<1>. DEFINE c == fdtab[fd]
<1>2. /\ \/ DelAndClose(fd) /\ peer[c] # "open"
         \/ DelOnly(fd)
      /\ UNCHANGED <<backlog, peer, rx, inflight, blkcnt, alive, wsVars, said, out>>
  BY <1>1 DEF RecvEnd, RecvError
<1>3. CoreInv'
  BY <1>1, <1>2, DelAndCloseKeeps, DelOnlyKeeps DEF WsInv
<1>4. fdtab \in [Fd -> Conn \cup {NoConn}] /\ stage \in [Conn -> Stages] /\ rx \in [Conn -> Seq(AllKinds)]
  BY DEF WsInv, CoreInv, CoreTypeOK, TypeOK
<1>5. wbuffer' = wbuffer /\ rx' = rx /\ out' = out /\ UNCHANGED <<said, peer>>
  BY <1>2 DEF wsVars
<1>6. Others(fd, c)
  BY <1>1, <1>2, <1>4, <1>5, DelBlock DEF Others, DelAndClose, DelOnly
<1>7. Own(c)
  <2>1. EndOf(rx[c], said[c])
    BY <1>1 DEF WsInv, Input
  <2>. QED  BY <1>1, <1>2, <1>4, <1>5, <2>1 DEF Own, DelAndClose, DelOnly
<1>8. LeftoverAt(fd)' /\ GreetsAt(fd)'
  <2>1. ev'[Slot(fd)].callback = ev[Slot(fd)].callback /\ fdtab'[fd] \in {c, NoConn}
    <3>1. ev \in [Slots -> NtyEvent] /\ Slot(fd) \in Slots
      BY DEF WsInv, CoreInv, CoreTypeOK, Slots, AllFd
    <3>. QED  BY <1>1, <1>2, <1>4, <3>1 DEF DelAndClose, DelOnly, EventDel, NtyEvent
  <2>2. GreetsAt(fd)
    BY DEF WsInv
  <2>. QED  BY <1>1, <1>5, <2>1, <2>2 DEF LeftoverAt, GreetsAt
<1>9. TypeOK' /\ CloseInv'
  BY <1>2, <1>3 DEF WsInv, CoreInv, TypeOK, CloseInv, wsVars
<1>. QED  BY <1>1, <1>3, <1>5, <1>6, <1>7, <1>8, <1>9, OwnSession

LEMMA SendOkKeeps ==
    ASSUME WsInv, NEW b \in batch, NEW fd \in Fd, Dispatch(b, "send_cb"), fd = ev[b.ptr].fd,
           SendOk(b, fd), UNCHANGED <<backlog, peer, rx, blkcnt, ws_stat, is_close, said>>
    PROVE  WsInv'
<1>. DEFINE c == fdtab[fd]
            buf == wbuffer[Slot(fd)]
            n == Min2(Len(buf), Room(c))
<1>1. /\ c \in Conn /\ stage[c] = "accepted" /\ Slot(fd) \in Slots
      /\ \A g \in Fd \ {fd} : Slot(g) \in Slots /\ Slot(g) # Slot(fd)
      /\ batch' = batch \ {b} /\ ev[b.ptr].callback = "send_cb"
  BY CallbackOf
<1>2. /\ buf # <<>> /\ UNCHANGED <<fdtab, stage, alive>>
      /\ out' = [out EXCEPT ![c] = out[c] \o SubSeq(buf, 1, n)]
      /\ inflight' = [inflight EXCEPT ![c] = inflight[c] + n]
      /\ Rearm(fd, "recv_cb", {"IN"})
      /\ wbuffer' = [wbuffer EXCEPT ![Slot(fd)] = <<>>]
  BY DEF SendOk, ClearReply
<1>3. /\ inflight \in [Conn -> 0..SndBuf] /\ wbuffer \in [Slots -> Seq(Part)]
      /\ out \in [Conn -> Seq(Part)] /\ rx \in [Conn -> Seq(AllKinds)] /\ CoreInv
  BY DEF WsInv, TypeOK, CoreInv, CoreTypeOK
<1>4. n \in 1..Len(buf) /\ inflight[c] + n \in 0..SndBuf
  <2>1. Len(buf) \in Nat /\ Len(buf) # 0 /\ inflight[c] \in 0..SndBuf
    <3>1. buf \in Seq(Part)
      BY <1>1, <1>3
    <3>. QED  BY <1>1, <1>2, <1>3, <3>1, EmptySeq
  <2>2. SndBuf - inflight[c] >= SndLowWat
    <3>1. Writable(c) /\ ~Gone(c)
      BY <1>1, CallbackOf DEF SendOk, Gone
    <3>. QED  BY <3>1 DEF Writable
  <2>. QED  BY SMTT(30), <2>1, <2>2, SocketAssumption DEF Min2, Room
<1>5. SubSeq(buf, 1, n) \in Seq(Part) /\ SubSeq(buf, 1, n) # <<>> /\ SubSeq(buf, 1, n)[1] = buf[1]
  <2>1. buf \in Seq(Part)
    BY <1>1, <1>3
  <2>2. n \in 0..Len(buf) /\ buf # <<>>
    <3>1. Len(buf) \in Nat
      BY <2>1
    <3>2. n \in 0..Len(buf)
      BY <1>4, <3>1
    <3>. QED  BY <1>2, <3>2
  <2>3. n # 0
    BY <1>4
  <2>. QED  BY <2>1, <2>2, <2>3, HeadOfReply
<1>6. CoreInv'
  <2>1. SocketStep(fd)
    BY <1>1, <1>2, <1>3, <1>4 DEF SocketStep, CoreInv, CoreTypeOK
  <2>2. <<"recv_cb", {"IN"}>> \in {<<"recv_cb", {"IN"}>>, <<"send_cb", {"OUT"}>>}
    OBVIOUS
  <2>3. UNCHANGED <<fdtab, backlog, stage, blkcnt, alive>> /\ Rearm(fd, "recv_cb", {"IN"})
    BY <1>2
  <2>4. ev[b.ptr].callback \in {"recv_cb", "send_cb"} /\ batch' = batch \ {b} /\ CoreInv
    BY <1>1, <1>3
  <2>. QED  BY <2>1, <2>2, <2>3, <2>4, RearmKeeps
<1>7. /\ out'[c] = out[c] \o SubSeq(buf, 1, n) /\ out'[c] \in Seq(Part)
      /\ out[c] # <<>> => out'[c] # <<>> /\ out'[c][1] = out[c][1]
      /\ out[c] = <<>> => out'[c] = SubSeq(buf, 1, n)
  <2>1. out[c] \in Seq(Part) /\ out'[c] = out[c] \o SubSeq(buf, 1, n)
    BY <1>1, <1>2, <1>3
  <2>2. SubSeq(buf, 1, n) \in Seq(Part)
    BY <1>5
  <2>. DEFINE o == out[c]
              t == SubSeq(buf, 1, n)
  <2>3. o \in Seq(Part) /\ t \in Seq(Part) /\ out'[c] = o \o t
    BY <2>1, <2>2
  <2>. HIDE DEF o, t
  <2>4. /\ o \o t \in Seq(Part)
        /\ o # <<>> => o \o t # <<>> /\ (o \o t)[1] = o[1]
        /\ o = <<>> => o \o t = t
    BY <2>3, ConcatHead
  <2>5. /\ out'[c] = o \o t /\ out'[c] \in Seq(Part)
        /\ o # <<>> => out'[c] # <<>> /\ out'[c][1] = o[1]
        /\ o = <<>> => out'[c] = t
    BY <2>3, <2>4
  <2>. QED  BY <2>5 DEF o, t
<1>8. Own(c)
  <2>1. /\ rx[c] # said[c]
        /\ out[c] = <<>> /\ said[c][1] \in Upgrades => buf[1] = Reply(said[c][1])
    BY <1>1, <1>2, ConnAssumption DEF WsInv, GreetsAt
  <2>2. EndOf(rx[c], said[c]) /\ said[c] # <<>>
    <3>1. EndOf(rx[c], said[c])
      BY <1>1 DEF WsInv, Input
    <3>2. rx[c] \in Seq(AllKinds) /\ said[c] \in Seq(Kinds)
      BY <1>1 DEF WsInv, TypeOK
    <3>. QED  BY <2>1, <3>1, <3>2, EmptyEnd
  <2>3. out'[c] # <<>> /\ (out[c] = <<>> => out'[c][1] = buf[1])
    BY <1>5, <1>7
  <2>4. UNCHANGED <<rx, said, peer, stage>>
    BY <1>2
  <2>. QED  BY <1>1, <1>7, <2>1, <2>2, <2>3, <2>4 DEF Own
<1>9. Others(fd, c)
  BY <1>1, <1>2, <1>3, RearmBlock DEF Others
<1>10. LeftoverAt(fd)' /\ GreetsAt(fd)'
  <2>1. wbuffer'[Slot(fd)] = <<>> /\ fdtab'[fd] = c /\ out'[c] # <<>>
    BY <1>1, <1>2, <1>3, <1>5, <1>7
  <2>. QED  BY <2>1 DEF LeftoverAt, GreetsAt
<1>11. TypeOK'
  <2>1. <<>> \in Seq(Part)
    BY EmptySeq
  <2>2. wbuffer' \in [Slots -> Seq(Part)]
    BY <1>1, <1>2, <1>3, <2>1
  <2>3. out' \in [Conn -> Seq(Part)]
    <3>1. out[c] \o SubSeq(buf, 1, n) \in Seq(Part)
      BY <1>1, <1>2, <1>3, <1>7
    <3>. QED  BY <1>1, <1>2, <1>3, <3>1
  <2>. QED  BY <1>6, <1>2, <2>2, <2>3 DEF WsInv, CoreInv, TypeOK
<1>12. CloseInv' /\ UNCHANGED <<said, peer>>
  BY DEF WsInv, CloseInv
<1>. QED  BY <1>1, <1>6, <1>8, <1>9, <1>10, <1>11, <1>12, OwnSession

LEMMA SendErrorKeeps ==
    ASSUME WsInv, NEW b \in batch, NEW fd \in Fd, Dispatch(b, "send_cb"), fd = ev[b.ptr].fd,
           SendError(b, fd), UNCHANGED <<backlog, peer, rx, blkcnt, ws_stat, is_close, said>>
    PROVE  WsInv'
<1>. DEFINE c == fdtab[fd]
<1>1. /\ c \in Conn /\ stage[c] = "accepted" /\ Slot(fd) \in Slots
      /\ \A g \in Fd \ {fd} : Slot(g) \in Slots /\ Slot(g) # Slot(fd)
      /\ batch' = batch \ {b} /\ ev[b.ptr].callback = "send_cb"
  BY CallbackOf
<1>2. /\ DelAndClose(fd) /\ peer[c] # "open" /\ UNCHANGED <<inflight, alive, out>>
      /\ wbuffer' = [wbuffer EXCEPT ![Slot(fd)] = <<>>]
  BY DEF SendError, ClearReply
<1>3. CoreInv'
  BY <1>1, <1>2, DelAndCloseKeeps DEF WsInv
<1>4. /\ fdtab \in [Fd -> Conn \cup {NoConn}] /\ stage \in [Conn -> Stages]
      /\ rx \in [Conn -> Seq(AllKinds)] /\ wbuffer \in [Slots -> Seq(Part)]
  BY DEF WsInv, CoreInv, CoreTypeOK, TypeOK
<1>5. Others(fd, c)
  BY <1>1, <1>2, <1>4, DelBlock DEF Others, DelAndClose
<1>6. Own(c)
  <2>1. EndOf(rx[c], said[c])
    BY <1>1 DEF WsInv, Input
  <2>. QED  BY <1>1, <1>2, <1>4, <2>1 DEF Own, DelAndClose
<1>7. LeftoverAt(fd)' /\ GreetsAt(fd)'
  <2>1. wbuffer'[Slot(fd)] = <<>> /\ fdtab'[fd] = NoConn
    BY <1>1, <1>2, <1>4 DEF DelAndClose
  <2>. QED  BY <2>1 DEF LeftoverAt, GreetsAt
<1>8. TypeOK'
  <2>1. <<>> \in Seq(Part)
    BY EmptySeq
  <2>2. wbuffer' \in [Slots -> Seq(Part)]
    BY <1>1, <1>2, <1>4, <2>1
  <2>. QED  BY <1>2, <1>3, <2>2 DEF WsInv, CoreInv, TypeOK
<1>9. CloseInv' /\ UNCHANGED <<said, peer>>
  BY DEF WsInv, CloseInv
<1>. QED  BY <1>1, <1>3, <1>5, <1>6, <1>7, <1>8, <1>9, OwnSession

\* SIGPIPE, or send_cb without a reply.
LEMMA SendNoneKeeps ==
    ASSUME WsInv, NEW b \in batch, NEW fd \in Fd, Dispatch(b, "send_cb"), fd = ev[b.ptr].fd,
           SendKilled(b, fd) \/ SendNothing(b, fd),
           UNCHANGED <<backlog, peer, rx, blkcnt, ws_stat, is_close, said>>
    PROVE  WsInv'
<1>1. /\ batch' = batch \ {b} /\ alive' \in BOOLEAN
      /\ UNCHANGED <<fdtab, stage, interest, inflight, ev, wbuffer, out>>
  BY DEF SendKilled, SendNothing, Dispatch, WsInv, CoreInv, CoreTypeOK
<1>2. CoreInv'
  BY <1>1, DispatchOnlyKeeps DEF WsInv
<1>. QED  BY <1>1, <1>2, QuietKeeps DEF wsVars

\* A write through NULL ends the process; what was read is gone.
LEMMA RecvCrashKeeps ==
    ASSUME WsInv, NEW b \in batch, RecvCrash(b)
    PROVE  WsInv'
<1>1. PICK fd \in Fd, m \in Kinds, n \in 1..BUFFER_LENGTH :
        /\ Received(b, fd, m, n)
        /\ Crashes(m)
        /\ alive' = FALSE /\ UNCHANGED <<fdtab, stage, interest, ev, wsVars>>
  BY DEF RecvCrash
<1>. DEFINE c == fdtab[fd]
<1>2. /\ Dispatch(b, "recv_cb") /\ fd = ev[b.ptr].fd
      /\ n = Min2(Len(rx[c]), BUFFER_LENGTH) /\ n > 0 /\ m = rx[c][1]
      /\ rx' = [rx EXCEPT ![c] = SubSeq(rx[c], n + 1, Len(rx[c]))]
      /\ UNCHANGED <<backlog, peer, inflight, blkcnt, said, out>>
  BY <1>1 DEF Received
<1>3. c \in Conn /\ stage[c] = "accepted" /\ batch' = batch \ {b}
  BY <1>2, CallbackOf
<1>4. rx \in [Conn -> Seq(AllKinds)] /\ CoreInv
  BY DEF WsInv, TypeOK
<1>5. n \in 1..Len(rx[c]) /\ rx[c] \in Seq(AllKinds)
  <2>1. Len(rx[c]) \in Nat /\ rx[c] \in Seq(AllKinds)
    BY <1>3, <1>4
  <2>2. n = Min2(Len(rx[c]), BUFFER_LENGTH)
    BY <1>2
  <2>. QED  BY <2>1, <2>2, ReadRange
<1>6. /\ rx' \in [Conn -> Seq(AllKinds)] /\ \A d \in Conn \ {c} : rx'[d] = rx[d]
      /\ \A i \in 1..Len(rx'[c]) : \E j \in 1..Len(rx[c]) : rx'[c][i] = rx[c][j]
  <2>1. /\ SubSeq(rx[c], n + 1, Len(rx[c])) \in Seq(AllKinds)
        /\ \A i \in 1..Len(SubSeq(rx[c], n + 1, Len(rx[c]))) :
              \E j \in 1..Len(rx[c]) : SubSeq(rx[c], n + 1, Len(rx[c]))[i] = rx[c][j]
    BY <1>5, TailOf
  <2>2. rx'[c] = SubSeq(rx[c], n + 1, Len(rx[c]))
    BY <1>2, <1>3, <1>4
  <2>3. \A i \in 1..Len(rx'[c]) : \E j \in 1..Len(rx[c]) : rx'[c][i] = rx[c][j]
    BY <2>1, <2>2
  <2>. QED  BY <1>2, <1>3, <1>4, <2>1, <2>3
<1>7. CoreInv'
  BY <1>1, <1>2, <1>3, <1>4, DispatchOnlyKeeps
<1>8. Others(fd, c)
  BY <1>1, <1>2, <1>6 DEF Others, wsVars
<1>12. EndOf(rx'[c], said[c]) /\ rx'[c] # said[c] /\ (rx[c] = said[c] => m = said[c][1])
  <2>1. rx[c] \in Seq(AllKinds) /\ said[c] \in Seq(AllKinds) /\ EndOf(rx[c], said[c])
    BY <1>3, KindsAssumption DEF WsInv, TypeOK, Input
  <2>2. rx'[c] = SubSeq(rx[c], n + 1, Len(rx[c])) /\ m = rx[c][1]
    BY <1>2, <1>3, <1>4
  <2>3. PICK r, t, q \in Seq(AllKinds) : r = rx[c] /\ t = said[c] /\ q = rx'[c]
    BY <1>3, <1>6, <2>1
  <2>4. EndOf(r, t) /\ n \in 1..Len(r) /\ q = SubSeq(r, n + 1, Len(r))
    BY <1>5, <2>1, <2>2, <2>3
  <2>5. EndOf(q, t) /\ q # t
    BY <2>4, ReadMore
  <2>. QED  BY <2>2, <2>3, <2>5
<1>9. Own(c)
  BY <1>1, <1>2, <1>3, <1>6, <1>12 DEF Own
<1>10. LeftoverAt(fd)' /\ GreetsAt(fd)'
  <2>1. /\ GreetsAt(fd) /\ wbuffer[Slot(fd)] = <<>> /\ c # NoConn
        /\ ev[Slot(fd)].callback = "recv_cb"
    BY <1>2, <1>3, CallbackOf, ConnAssumption DEF WsInv
  <2>2. m \notin Upgrades
    BY <1>1 DEF Crashes, Upgrades
  <2>3. ~(out[c] = <<>> /\ said[c][1] \in Upgrades)
    BY <1>12, <2>1, <2>2 DEF GreetsAt
  <2>4. UNCHANGED <<fdtab, ev, wbuffer, out, said>>
    BY <1>1, <1>2 DEF wsVars
  <2>. QED  BY <2>1, <2>3, <2>4 DEF LeftoverAt, GreetsAt
<1>11. TypeOK' /\ CloseInv' /\ UNCHANGED <<said, peer>>
  BY <1>1, <1>2, <1>6, <1>7 DEF WsInv, CoreInv, TypeOK, CloseInv, wsVars
<1>. QED  BY <1>3, <1>7, <1>8, <1>9, <1>10, <1>11, OwnSession

-----------------------------------------------------------------------------
LEMMA WsStep == WsInv /\ [Next]_vars => WsInv'
<1>. SUFFICES ASSUME WsInv, [Next]_vars PROVE WsInv'
  OBVIOUS
<1>1. CASE UNCHANGED vars \/ Idle
  <2>1. UNCHANGED coreVars /\ UNCHANGED <<wsVars, said, out>>
    BY <1>1 DEF vars, Idle, EpollTimeout
  <2>2. CoreInv'
    BY <2>1, StutterKeeps DEF WsInv
  <2>. QED  BY <2>1, <2>2, QuietKeeps DEF coreVars, kernelVars, reactorVars
<1>2. ASSUME NEW c \in Conn, Client(c) PROVE WsInv'
  BY <1>2, ClientSayKeeps, ClientMoveKeeps DEF Client
<1>3. CASE EpollWait /\ UNCHANGED <<wsVars, said, out>>
  <2>1. CoreInv'
    BY <1>3, EpollWaitKeeps DEF WsInv
  <2>. QED  BY <1>3, <2>1, QuietKeeps DEF EpollWait, kernelVars
<1>4. ASSUME NEW b \in batch, accept_cb(b), UNCHANGED <<wsVars, said, out>> PROVE WsInv'
  BY <1>4, AcceptKeepsWs
<1>5. ASSUME NEW b \in batch, recv_cb(b) PROVE WsInv'
  BY <1>5, RecvHandledKeeps, RecvCrashKeeps, RecvOverKeeps DEF recv_cb
<1>6. ASSUME NEW b \in batch, send_cb(b) PROVE WsInv'
  BY <1>6, SendOkKeeps, SendErrorKeeps, SendNoneKeeps DEF send_cb
<1>. QED  BY <1>1, <1>2, <1>3, <1>4, <1>5, <1>6 DEF Next, Server

LEMMA WsInvariant == Spec => []WsInv
  BY WsInit, WsStep, PTL DEF Spec

\* No reply outlives its connection in the control block (send_cb resets
\* wlength before it knows the result of send()).
THEOREM WsNoLeftoverReply == Spec => []NoLeftoverReply
<1>1. WsInv => NoLeftoverReply
  BY DEF WsInv, NoLeftoverReply, LeftoverAt
<1>. QED  BY <1>1, WsInvariant, PTL

\* Whatever is_close the last user of the block left, and whatever is said in which
\* order, nobody is hung up on of whom no close frame was read.
THEOREM WsHangsUpOnLeaversOnly == Spec => []HangsUpOnLeaversOnly
<1>1. WsInv => HangsUpOnLeaversOnly
  BY DEF WsInv
<1>. QED  BY <1>1, WsInvariant, PTL

\* The first part a client that opens with a request gets is the answer to that
\* request, in whatever state the last client left the block and whatever the client
\* says next, without waiting or in no order at all.
THEOREM WsHandshakeFirst == Spec => []HandshakeFirst
<1>1. WsInv => HandshakeFirst
  BY DEF WsInv
<1>. QED  BY <1>1, WsInvariant, PTL

-----------------------------------------------------------------------------
(* The conversation of a client that waits for its answers *)

\* A client has manners, and never sends before the last answer came.
Patient == "pipelined" \notin Habits /\ "unruly" \notin Habits

AnswersIn(o) == {i \in 1..Len(o) : o[i] # "junk"}
Count(o)     == Cardinality(AnswersIn(o))

\* The answers in o are those to the first messages of s, one by one.
InOrder(o, s) ==
    /\ Count(o) <= Len(s)
    /\ \A i \in AnswersIn(o) : o[i] = Reply(s[Cardinality({j \in AnswersIn(o) : j <= i})])

\* w is the answer to m, and what else of the buffer was sent with it.
ReplyTo(w, m) ==
    w # <<>> /\ w[1] = Reply(m) /\ \A i \in 2..Len(w) : w[i] = "junk"

Pending(c) == {fd \in Fd : fdtab[fd] = c /\ wbuffer[Slot(fd)] # <<>>}

\* Every message was answered, the last is still to be read, or it was read: then
\* its answer waits in the control block, if there is one.
Quiet(c)  == rx[c] = <<>> /\ Count(out[c]) = Len(said[c]) /\ Pending(c) = {}
Asked(c)  ==
    /\ said[c] # <<>> /\ Count(out[c]) + 1 = Len(said[c])
    /\ rx[c] = <<LastSaid(c)>> /\ Pending(c) = {}
Read(c) ==
    /\ said[c] # <<>> /\ Count(out[c]) + 1 = Len(said[c])
    /\ rx[c] = <<>> /\ \A fd \in Pending(c) : ReplyTo(wbuffer[Slot(fd)], LastSaid(c))

Talk(c) ==
    /\ InOrder(out[c], said[c])
    /\ Quiet(c) \/ Asked(c) \/ Read(c)
    /\ stage[c] \in {"idle", "queued"} => out[c] = <<>>

\* Once it has answered its client, or is about to, a block is past the handshake.
SessionAt(fd) ==
    fdtab[fd] # NoConn /\ (out[fdtab[fd]] # <<>> \/ wbuffer[Slot(fd)] # <<>>) =>
        ws_stat[Slot(fd)] = "TRANSMISSION"

TalkInv == (\A c \in Conn : Talk(c)) /\ \A fd \in Fd : SessionAt(fd)

\* A client leaves before it said anything or with a close frame, and no
\* connection breaks down.
Faithful == Habits = {} /\ "timeout" \notin Faults

\* A client that left said nothing, or its close frame is still to be read.
GoodBye(c) ==
    /\ peer[c] # "open" => said[c] = <<>> \/ Leaving(c)
    /\ Leaving(c) /\ stage[c] # "closed" => rx[c] # <<>>

\* A block that nothing was read on for its client waits for a handshake.
FreshAt(fd) ==
    fdtab[fd] = NoConn \/ rx[fdtab[fd]] = said[fdtab[fd]] => ws_stat[Slot(fd)] = "HANDSHARK"

FreshInv == (\A c \in Conn : GoodBye(c)) /\ \A fd \in Fd : FreshAt(fd)

LEMMA AnswersFinite ==
    ASSUME NEW o \in Seq(Part)
    PROVE  /\ IsFiniteSet(AnswersIn(o)) /\ Count(o) \in Nat
           /\ \A T \in SUBSET AnswersIn(o) : Cardinality(T) \in Nat /\ Cardinality(T) <= Count(o)
<1>1. PICK n \in Nat : n = Len(o)
  OBVIOUS
<1>2. IsFiniteSet(1..n)
  BY <1>1, FS_Interval
<1>3. AnswersIn(o) \in SUBSET (1..n)
  BY <1>1 DEF AnswersIn
<1>4. IsFiniteSet(AnswersIn(o))
  BY <1>2, <1>3, FS_Subset
<1>5. \A T \in SUBSET AnswersIn(o) : IsFiniteSet(T) /\ Cardinality(T) <= Cardinality(AnswersIn(o))
  BY <1>4, FS_Subset
<1>. QED  BY <1>4, <1>5, FS_CardinalityType DEF Count

\* The place of an answer among the answers.
LEMMA Place ==
    ASSUME NEW o \in Seq(Part), NEW i \in AnswersIn(o)
    PROVE  Cardinality({j \in AnswersIn(o) : j <= i}) \in 1..Count(o)
<1>. DEFINE T == {j \in AnswersIn(o) : j <= i}
<1>1. T \in SUBSET AnswersIn(o) /\ i \in T
  BY DEF AnswersIn
<1>2. IsFiniteSet(T) /\ T # {}
  BY <1>1, AnswersFinite, FS_Subset
<1>3. Cardinality(T) # 0 /\ Cardinality(T) \in Nat /\ Cardinality(T) <= Count(o)
  BY <1>1, <1>2, AnswersFinite, FS_EmptySet
<1>. QED  BY <1>3, AnswersFinite

LEMMA AnswersMore ==
    ASSUME NEW o \in Seq(Part), NEW w \in Seq(Part), NEW m \in AllKinds, ReplyTo(w, m)
    PROVE  /\ AnswersIn(o \o w) = AnswersIn(o) \cup {Len(o) + 1}
           /\ Count(o \o w) = Count(o) + 1
<1>1. PICK n \in Nat, l \in Nat : n = Len(o) /\ l = Len(w)
  OBVIOUS
<1>2. /\ Len(o \o w) = n + l
      /\ \A i \in 1..n : (o \o w)[i] = o[i]
      /\ \A i \in 1..l : (o \o w)[n + i] = w[i]
  BY <1>1
<1>3. l > 0 /\ w[1] # "junk" /\ \A i \in 2..l : w[i] = "junk"
  <2>1. Reply(m) # "junk"
    BY DEF Reply
  <2>2. l # 0
    BY <1>1, EmptySeq DEF ReplyTo
  <2>. QED  BY <1>1, <2>1, <2>2 DEF ReplyTo
<1>4. ASSUME NEW i \in 1..(n + l), i \notin 1..n, i # n + 1 PROVE (o \o w)[i] = "junk"
  <2>1. i - n \in 2..l /\ i - n \in 1..l /\ n + (i - n) = i
    BY <1>1, <1>4
  <2>2. (o \o w)[i] = w[i - n]
    BY <1>2, <2>1
  <2>. QED  BY <1>3, <2>1, <2>2
<1>5. (o \o w)[n + 1] # "junk" /\ n + 1 \in 1..(n + l) /\ \A i \in 1..n : i \in 1..(n + l)
  <2>1. 1 \in 1..l
    BY <1>3
  <2>. QED  BY <1>1, <1>2, <1>3, <2>1
<1>6. AnswersIn(o \o w) = AnswersIn(o) \cup {n + 1}
  BY <1>1, <1>2, <1>4, <1>5 DEF AnswersIn
<1>7. n + 1 \notin AnswersIn(o)
  BY <1>1 DEF AnswersIn
<1>8. Cardinality(AnswersIn(o) \cup {n + 1}) = Cardinality(AnswersIn(o)) + 1
  BY <1>7, AnswersFinite, FS_AddElement
<1>. QED  BY <1>1, <1>6, <1>8 DEF Count

\* The answer to the last message keeps the order.
LEMMA InOrderMore ==
    ASSUME NEW o \in Seq(Part), NEW w \in Seq(Part), NEW s \in Seq(AllKinds), s # <<>>,
           InOrder(o, s), Count(o) + 1 = Len(s), ReplyTo(w, s[Len(s)])
    PROVE  InOrder(o \o w, s) /\ Count(o \o w) = Len(s) /\ o \o w \in Seq(Part)
<1>1. s[Len(s)] \in AllKinds
  OBVIOUS
<1>2. PICK z \in Seq(Part) : z = o \o w
  <2>1. o \o w \in Seq(Part)
    OBVIOUS
  <2>. QED  BY <2>1
<1>3. PICK n \in Nat : n = Len(o)
  OBVIOUS
<1>4. AnswersIn(z) = AnswersIn(o) \cup {n + 1} /\ Count(z) = Count(o) + 1 /\ Count(z) = Len(s)
  BY <1>1, <1>2, <1>3, AnswersMore
<1>5. \A i \in AnswersIn(o) : i \in 1..n /\ z[i] = o[i]
  BY <1>2, <1>3 DEF AnswersIn
<1>6. z[n + 1] = Reply(s[Len(s)])
  <2>1. PICK l \in Nat : l = Len(w)
    OBVIOUS
  <2>2. l # 0
    BY <2>1, EmptySeq DEF ReplyTo
  <2>3. z[n + 1] = w[1]
    BY <1>2, <1>3, <2>1, <2>2
  <2>. QED  BY <2>3 DEF ReplyTo
<1>7. ASSUME NEW i \in AnswersIn(z)
      PROVE  z[i] = Reply(s[Cardinality({j \in AnswersIn(z) : j <= i})])
  <2>1. CASE i \in AnswersIn(o)
    <3>1. {j \in AnswersIn(z) : j <= i} = {j \in AnswersIn(o) : j <= i}
      <4>1. i \in 1..n
        BY <1>5, <2>1
      <4>2. ~(n + 1 <= i)
        BY <4>1
      <4>. QED  BY <1>4, <4>2
    <3>. QED  BY <1>5, <2>1, <3>1 DEF InOrder
  <2>2. CASE i = n + 1
    <3>1. \A j \in AnswersIn(o) : j <= n + 1
      BY <1>5
    <3>2. {j \in AnswersIn(z) : j <= n + 1} = AnswersIn(z)
      BY <1>4, <3>1
    <3>. QED  BY <1>4, <1>6, <2>2, <3>2 DEF Count
  <2>. QED  BY <1>4, <1>7, <2>1, <2>2
<1>8. Count(z) <= Len(s)
  BY <1>4
<1>. QED  BY <1>2, <1>4, <1>7, <1>8 DEF InOrder

LEMMA InOrderSay ==
    ASSUME NEW o \in Seq(Part), NEW s \in Seq(AllKinds), NEW m \in AllKinds, InOrder(o, s)
    PROVE  InOrder(o, Append(s, m))
<1>1. PICK n \in Nat : n = Len(s)
  OBVIOUS
<1>2. Len(Append(s, m)) = n + 1 /\ \A i \in 1..n : Append(s, m)[i] = s[i]
  BY <1>1
<1>3. PICK k \in Nat : k = Count(o)
  BY AnswersFinite
<1>4. k <= n
  BY <1>1, <1>3 DEF InOrder
<1>5. \A i \in AnswersIn(o) : Cardinality({j \in AnswersIn(o) : j <= i}) \in 1..n
  BY <1>3, <1>4, Place
<1>6. k <= n + 1
  BY <1>4
<1>. QED  BY <1>2, <1>3, <1>5, <1>6 DEF InOrder

LEMMA ReplyCut ==
    ASSUME NEW w \in Seq(Part), NEW m, ReplyTo(w, m), NEW n \in 0..Len(w)
    PROVE  /\ SubSeq(w, 1, n) \in Seq(Part)
           /\ SubSeq(w, 1, n) = <<>> \/ ReplyTo(SubSeq(w, 1, n), m)
<1>1. w # <<>>
  BY DEF ReplyTo
<1>2. /\ SubSeq(w, 1, n) \in Seq(Part)
      /\ SubSeq(w, 1, n) # <<>> => SubSeq(w, 1, n)[1] = w[1]
  BY <1>1, HeadOfReply
<1>3. PICK l \in Nat, k \in Nat : l = Len(w) /\ k = n /\ k <= l
  OBVIOUS
<1>4. Len(SubSeq(w, 1, n)) = k /\ \A i \in 1..k : SubSeq(w, 1, n)[i] = w[i]
  BY <1>3
<1>5. \A i \in 2..k : i \in 1..k /\ i \in 2..l
  BY <1>3
<1>6. \A i \in 2..k : SubSeq(w, 1, n)[i] = "junk"
  BY <1>3, <1>4, <1>5 DEF ReplyTo
<1>. QED  BY <1>2, <1>4, <1>6 DEF ReplyTo

-----------------------------------------------------------------------------
(* The steps of a conversation *)

\* Nobody says more, nothing is read or sent, and a block changes hands only when
\* no reply is in it and its new client was sent nothing.
LEMMA EndTurn ==
    ASSUME TalkInv, UNCHANGED <<rx, said, out, ws_stat>>,
           \A g \in Fd : /\ wbuffer'[Slot(g)] \in {wbuffer[Slot(g)], <<>>}
                         /\ \/ fdtab'[g] \in {fdtab[g], NoConn}
                            \/ wbuffer'[Slot(g)] = <<>> /\ out[fdtab'[g]] = <<>>,
           \A c \in Conn : /\ stage'[c] \in {"idle", "queued"} => stage[c] \in {"idle", "queued"}
    PROVE  TalkInv'
<1>1. ASSUME NEW c \in Conn PROVE Talk(c)'
  <2>1. LastSaid(c)' = LastSaid(c)
    BY DEF LastSaid
  <2>2. \A fd \in Pending(c)' : fd \in Pending(c) /\ wbuffer'[Slot(fd)] = wbuffer[Slot(fd)]
    BY ConnAssumption DEF Pending
  <2>3. Quiet(c) => Quiet(c)'
    BY <2>2 DEF Quiet
  <2>4. Asked(c) => Asked(c)'
    BY <2>1, <2>2 DEF Asked
  <2>5. Read(c) => Read(c)'
    BY <2>1, <2>2 DEF Read
  <2>6. Talk(c)
    BY DEF TalkInv
  <2>. QED  BY <2>3, <2>4, <2>5, <2>6 DEF Talk
<1>2. ASSUME NEW fd \in Fd PROVE SessionAt(fd)'
  BY DEF TalkInv, SessionAt
<1>. QED  BY <1>1, <1>2 DEF TalkInv

\* A callback leaves the conversations of other clients alone.
LEMMA OwnTurn ==
    ASSUME TalkInv, UNCHANGED said,
           NEW fd \in Fd, NEW c \in Conn, c = fdtab[fd], fdtab'[fd] \in {c, NoConn}, CoreInv,
           \A g \in Fd \ {fd} : /\ fdtab'[g] = fdtab[g]
                                /\ wbuffer'[Slot(g)] = wbuffer[Slot(g)]
                                /\ ws_stat'[Slot(g)] = ws_stat[Slot(g)],
           \A d \in Conn \ {c} : rx'[d] = rx[d] /\ out'[d] = out[d] /\ stage'[d] = stage[d],
           Talk(c)', SessionAt(fd)'
    PROVE  TalkInv'
<1>1. ASSUME NEW d \in Conn \ {c} PROVE Talk(d)'
  <2>1. LastSaid(d)' = LastSaid(d) /\ said'[d] = said[d] /\ rx'[d] = rx[d] /\ out'[d] = out[d]
        /\ stage'[d] = stage[d]
    BY DEF LastSaid
  <2>2. \A g \in Pending(d)' : g \in Pending(d) /\ wbuffer'[Slot(g)] = wbuffer[Slot(g)]
    BY ConnAssumption DEF Pending
  <2>3. Quiet(d) => Quiet(d)'
    BY <2>1, <2>2 DEF Quiet
  <2>4. Asked(d) => Asked(d)'
    BY <2>1, <2>2 DEF Asked
  <2>5. Read(d) => Read(d)'
    BY <2>1, <2>2 DEF Read
  <2>6. Talk(d)
    BY DEF TalkInv
  <2>. QED  BY <2>1, <2>3, <2>4, <2>5, <2>6 DEF Talk
<1>2. ASSUME NEW g \in Fd PROVE SessionAt(g)'
  <2>1. CASE g = fd
    BY <2>1
  <2>2. CASE g # fd
    <3>1. fdtab[g] # c
      BY <2>2, ConnAssumption DEF CoreInv, OneFdPerConn
    <3>2. fdtab[g] # NoConn => fdtab[g] \in Conn
      BY DEF CoreInv, CoreTypeOK
    <3>. QED  BY <2>2, <3>1, <3>2 DEF TalkInv, SessionAt
  <2>. QED  BY <2>1, <2>2
<1>. QED  BY <1>1, <1>2 DEF TalkInv

LEMMA ClientSayTurn ==
    ASSUME Patient, WsInv, TalkInv, NEW c \in Conn, NEW m \in Kinds, ClientSay(c, m)
    PROVE  TalkInv'
<1>1. /\ UNCHANGED <<fdtab, stage, wsVars, out>> /\ MaySay(c, m)
      /\ rx' = [rx EXCEPT ![c] = rx[c] \o <<m>>] /\ said' = [said EXCEPT ![c] = Append(said[c], m)]
  BY DEF ClientSay, Arrive, reactorVars
<1>2. /\ rx \in [Conn -> Seq(AllKinds)] /\ said \in [Conn -> Seq(Kinds)] /\ m \in AllKinds
      /\ out \in [Conn -> Seq(Part)]
  BY KindsAssumption DEF WsInv, TypeOK
<1>3. PICK s \in Seq(AllKinds), o \in Seq(Part) : s = said[c] /\ o = out[c]
  <2>1. said[c] \in Seq(AllKinds)
    BY <1>2, KindsAssumption
  <2>. QED  BY <1>2, <2>1
<1>4. InOrder(o, s) /\ Talk(c)
  BY <1>3 DEF TalkInv, Talk
<1>5. PICK k \in Nat, n \in Nat : k = Count(o) /\ n = Len(s)
  BY AnswersFinite
<1>6. k = n
  <2>1. CASE s = <<>>
    BY <1>4, <1>5, <2>1 DEF InOrder
  <2>2. CASE s # <<>>
    <3>1. Cardinality(Answers(c)) = Len(said[c])
      BY <1>1, <1>3, <2>2 DEF MaySay, Mannered, Patient
    <3>2. Answers(c) = AnswersIn(o)
      BY <1>3 DEF Answers, AnswersIn
    <3>. QED  BY <1>3, <1>5, <3>1, <3>2 DEF Count
  <2>. QED  BY <2>1, <2>2
<1>7. Quiet(c)
  <2>1. Count(out[c]) + 1 # Len(said[c])
    BY <1>3, <1>5, <1>6
  <2>. QED  BY <1>4, <2>1 DEF Talk, Asked, Read
<1>8. said'[c] = Append(s, m) /\ rx'[c] = <<m>> /\ out' = out
  <2>1. rx[c] = <<>> /\ <<>> \o <<m>> = <<m>>
    BY <1>7 DEF Quiet
  <2>. QED  BY <1>1, <1>2, <1>3, <2>1
<1>9. Append(s, m) # <<>> /\ Append(s, m)[Len(Append(s, m))] = m /\ Len(Append(s, m)) = n + 1
  <2>1. m \in AllKinds /\ n = Len(s)
    BY <1>2, <1>5
  <2>2. Len(Append(s, m)) = n + 1 /\ Append(s, m)[n + 1] = m
    BY <2>1
  <2>3. Len(Append(s, m)) # Len(<<>>)
    BY <2>2
  <2>. QED  BY <2>2, <2>3
<1>10. Asked(c)'
  <2>1. LastSaid(c)' = m
    BY <1>8, <1>9 DEF LastSaid
  <2>2. Count(out'[c]) + 1 = Len(said'[c])
    BY <1>3, <1>5, <1>6, <1>8, <1>9
  <2>3. Pending(c)' = {}
    BY <1>1, <1>7 DEF Quiet, Pending, wsVars
  <2>. QED  BY <1>8, <1>9, <2>1, <2>2, <2>3 DEF Asked
<1>11. InOrder(o, Append(s, m))
  BY <1>2, <1>4, InOrderSay
<1>12. Talk(c)'
  <2>1. stage'[c] \in {"idle", "queued"} => out'[c] = <<>>
    BY <1>1, <1>4 DEF Talk
  <2>2. InOrder(out'[c], said'[c])
    BY <1>3, <1>8, <1>11
  <2>. QED  BY <1>10, <2>1, <2>2 DEF Talk
<1>13. ASSUME NEW d \in Conn \ {c} PROVE Talk(d)'
  <2>1. /\ said'[d] = said[d] /\ rx'[d] = rx[d] /\ out' = out /\ stage' = stage
        /\ wbuffer' = wbuffer /\ fdtab' = fdtab
    BY <1>1, <1>2 DEF wsVars
  <2>2. LastSaid(d)' = LastSaid(d) /\ Pending(d)' = Pending(d)
    BY <2>1 DEF LastSaid, Pending
  <2>3. Talk(d)
    BY DEF TalkInv
  <2>. QED  BY <2>1, <2>2, <2>3 DEF Talk, Quiet, Asked, Read
<1>14. \A fd \in Fd : SessionAt(fd)'
  BY <1>1 DEF TalkInv, SessionAt, wsVars
<1>. QED  BY <1>12, <1>13, <1>14 DEF TalkInv

LEMMA HandledReply ==
    ASSUME WsInv, NEW s \in Slots, wbuffer[s] = <<>>, NEW m \in AllKinds,
           wshandle(s, m, {}), ws_stat[s] = "HANDSHARK" => m \in Upgrades
    PROVE  /\ \A t \in Slots \ {s} : wbuffer'[t] = wbuffer[t] /\ ws_stat'[t] = ws_stat[t]
           /\ wbuffer'[s] = <<>> \/ ReplyTo(wbuffer'[s], m)
           /\ ~is_close'[s] => ws_stat'[s] = "TRANSMISSION"
           /\ is_close'[s] => m = "close" /\ ws_stat'[s] = "HANDSHARK"
           /\ m = "close" => is_close'[s]
<1>1. /\ ws_stat \in [Slots -> {"HANDSHARK", "TRANSMISSION"}] /\ is_close \in [Slots -> BOOLEAN]
      /\ wbuffer \in [Slots -> Seq(Part)] /\ CloseInv
  BY DEF WsInv, TypeOK
<1>2. CASE ws_stat[s] = "HANDSHARK"
  <2>1. PICK r \in HandsharkReplies(m, {}) :
          /\ is_close' = [is_close EXCEPT ![s] = FALSE]
          /\ wbuffer' = [wbuffer EXCEPT ![s] = r]
          /\ ws_stat' = [ws_stat EXCEPT ![s] = "TRANSMISSION"]
    BY <1>2 DEF wshandle, handshark
  <2>2. ReplyTo(r, m)
    <3>1. r \in {<<"101">>, <<"bad101">>} /\ Reply(m) = r[1]
      BY <1>2 DEF HandsharkReplies, Reply, Upgrades
    <3>2. Len(r) = 1 /\ r # <<>>
      BY <3>1
    <3>. QED  BY <3>1, <3>2 DEF ReplyTo
  <2>3. m # "close"
    BY <1>2 DEF Upgrades
  <2>. QED  BY <1>1, <2>1, <2>2, <2>3
<1>3. CASE ws_stat[s] = "TRANSMISSION"
  <2>1. transmission(s, m, {}) /\ is_close[s] = FALSE
    BY <1>1, <1>3 DEF wshandle, CloseInv
  <2>2. CASE CloseFrame(s, m)
    BY <1>1, <2>2 DEF CloseFrame
  <2>3. CASE DataFrame(s, m, {})
    <3>1. PICK r \in TransmissionReplies(m, {}) :
              wbuffer' = [wbuffer EXCEPT ![s] = IF r = <<>> THEN wbuffer[s] ELSE r]
      BY <2>3 DEF DataFrame
    <3>2. r = <<>> \/ (m = "text" /\ r = <<"echo", "junk">>)
      BY DEF TransmissionReplies
    <3>3. m = "text" => ReplyTo(<<"echo", "junk">>, m)
      BY DEF ReplyTo, Reply, Upgrades
    <3>4. wbuffer'[s] \in {<<>>, r} /\ \A t \in Slots \ {s} : wbuffer'[t] = wbuffer[t]
      BY <1>1, <3>1
    <3>5. UNCHANGED <<ws_stat, is_close>> /\ m # "close"
      BY <2>3 DEF DataFrame
    <3>. QED  BY <1>1, <1>3, <2>1, <3>2, <3>3, <3>4, <3>5
  <2>. QED  BY <2>1, <2>2, <2>3 DEF transmission
<1>. QED  BY <1>1, <1>2, <1>3

\* recv_cb finds one message: the last its client sent.
LEMMA ReadTurn ==
    ASSUME Patient, WsInv, TalkInv, NEW b \in batch, NEW fd \in Fd, NEW m \in Kinds,
           NEW n \in 1..BUFFER_LENGTH, Received(b, fd, m, n), NEW c, c = fdtab[fd]
    PROVE  /\ c \in Conn /\ stage[c] = "accepted" /\ Slot(fd) \in Slots /\ wbuffer[Slot(fd)] = <<>>
           /\ \A g \in Fd \ {fd} : Slot(g) \in Slots /\ Slot(g) # Slot(fd)
           /\ n = 1 /\ m = LastSaid(c) /\ m \in AllKinds /\ Asked(c)
           /\ rx'[c] = <<>> /\ \A d \in Conn \ {c} : rx'[d] = rx[d]
           /\ ws_stat[Slot(fd)] = "HANDSHARK" => m \in Upgrades
           /\ m = "close" => Leaving(c)
<1>1. /\ Dispatch(b, "recv_cb") /\ fd = ev[b.ptr].fd
      /\ n = Min2(Len(rx[c]), BUFFER_LENGTH) /\ n > 0 /\ m = rx[c][1]
      /\ rx' = [rx EXCEPT ![c] = SubSeq(rx[c], n + 1, Len(rx[c]))]
  <2>1. /\ Dispatch(b, "recv_cb") /\ fd = ev[b.ptr].fd
        /\ n = Min2(Len(rx[fdtab[fd]]), BUFFER_LENGTH) /\ n > 0 /\ m = rx[fdtab[fd]][1]
        /\ rx' = [rx EXCEPT ![fdtab[fd]] = SubSeq(rx[fdtab[fd]], n + 1, Len(rx[fdtab[fd]]))]
    BY DEF Received
  <2>. QED  BY <2>1
<1>2. /\ c \in Conn /\ Slot(fd) \in Slots /\ stage[c] = "accepted" /\ wbuffer[Slot(fd)] = <<>>
      /\ \A g \in Fd \ {fd} : Slot(g) \in Slots /\ Slot(g) # Slot(fd)
  BY <1>1, CallbackOf
<1>3. rx \in [Conn -> Seq(AllKinds)] /\ m \in AllKinds /\ c # NoConn
  BY <1>2, KindsAssumption, ConnAssumption DEF WsInv, TypeOK
<1>4. PICK r \in Seq(AllKinds) : r = rx[c]
  BY <1>2, <1>3
<1>5. n \in 1..Len(r)
  <2>1. Len(r) \in Nat
    OBVIOUS
  <2>2. n = Min2(Len(r), BUFFER_LENGTH) /\ n > 0
    BY <1>1, <1>4, Zenon
  <2>. QED  BY <2>1, <2>2, ReadRange
<1>6. r # <<>>
  BY <1>5
<1>7. Asked(c) /\ Talk(c)
  BY <1>2, <1>4, <1>6 DEF TalkInv, Talk, Quiet, Read
<1>8. r = <<LastSaid(c)>>
  BY <1>4, <1>7 DEF Asked
<1>9. Len(r) = 1 /\ r[1] = LastSaid(c)
  BY <1>8
<1>10. n = 1 /\ m = LastSaid(c)
  <2>1. n \in 1..1
    BY <1>5, <1>9
  <2>2. m = r[1]
    BY <1>1, <1>4
  <2>. QED  BY <1>9, <2>1, <2>2
<1>11. rx'[c] = <<>> /\ \A d \in Conn \ {c} : rx'[d] = rx[d]
  <2>1. SubSeq(r, 2, 1) = <<>>
    BY <1>9
  <2>2. rx'[c] = SubSeq(r, 2, 1)
    <3>1. rx'[c] = SubSeq(rx[c], n + 1, Len(rx[c]))
      BY <1>1, <1>2, <1>3
    <3>2. n + 1 = 2 /\ Len(r) = 1
      BY <1>9, <1>10
    <3>. QED  BY <1>4, <3>1, <3>2
  <2>3. \A d \in Conn \ {c} : rx'[d] = rx[d]
    BY <1>1, <1>2, <1>3
  <2>. QED  BY <2>1, <2>2, <2>3
<1>12. (out[c] = <<>> => m \in Upgrades) /\ (m = "close" => Leaving(c))
  <2>1. 1 \in 1..Len(rx[c])
    BY <1>4, <1>9
  <2>. QED  BY <1>1, <1>2, <2>1 DEF WsInv, RxInv, Patient
<1>13. out[c] # <<>> => ws_stat[Slot(fd)] = "TRANSMISSION"
  BY <1>3 DEF TalkInv, SessionAt
<1>. QED  BY <1>2, <1>3, <1>7, <1>10, <1>11, <1>12, <1>13

\* What was read is answered, or never will be.
LEMMA AnsweredTurn ==
    ASSUME NEW fd \in Fd, NEW c \in Conn, c = fdtab[fd], stage'[c] \notin {"idle", "queued"},
           InOrder(out[c], said[c]), Asked(c), UNCHANGED <<said, out>>, rx'[c] = <<>>,
           \A g \in Fd \ {fd} : fdtab'[g] = fdtab[g] /\ fdtab[g] # c,
           wbuffer'[Slot(fd)] = <<>> \/ ReplyTo(wbuffer'[Slot(fd)], LastSaid(c))
    PROVE  Talk(c)'
<1>1. LastSaid(c)' = LastSaid(c)
  BY DEF LastSaid
<1>2. \A g \in Pending(c)' : ReplyTo(wbuffer'[Slot(g)], LastSaid(c)')
  BY <1>1 DEF Pending
<1>3. Read(c)'
  BY <1>2 DEF Read, Asked
<1>. QED  BY <1>3 DEF Talk

LEMMA RecvHandledTurn ==
    ASSUME Patient, WsInv, TalkInv, NEW b \in batch, RecvHandled(b)
    PROVE  TalkInv'
<1>1. PICK fd \in Fd, m \in Kinds, n \in 1..BUFFER_LENGTH :
        /\ Received(b, fd, m, n)
        /\ wshandle(Slot(fd), m, Behind(fd, n))
        /\ IF is_close'[Slot(fd)]
           THEN DelAndClose(fd)
           ELSE Rearm(fd, "send_cb", {"OUT"}) /\ UNCHANGED <<fdtab, stage>>
        /\ UNCHANGED alive
  BY DEF RecvHandled
<1>2. PICK c : c = fdtab[fd]
  OBVIOUS
<1>. DEFINE s == Slot(fd)
<1>3. /\ c \in Conn /\ stage[c] = "accepted" /\ s \in Slots /\ wbuffer[s] = <<>>
      /\ \A g \in Fd \ {fd} : Slot(g) \in Slots /\ Slot(g) # s
      /\ n = 1 /\ m = LastSaid(c) /\ m \in AllKinds /\ Asked(c)
      /\ rx'[c] = <<>> /\ \A d \in Conn \ {c} : rx'[d] = rx[d]
      /\ ws_stat[s] = "HANDSHARK" => m \in Upgrades
  BY <1>1, <1>2, ReadTurn
<1>4. /\ UNCHANGED <<said, out>> /\ CoreInv
      /\ stage \in [Conn -> Stages] /\ fdtab \in [Fd -> Conn \cup {NoConn}]
  BY <1>1 DEF Received, WsInv, CoreInv, CoreTypeOK
<1>5. wshandle(s, m, {})
  <2>1. Behind(fd, n) = {}
    BY <1>3 DEF Behind
  <2>. QED  BY <1>1, <2>1
<1>6. /\ \A t \in Slots \ {s} : wbuffer'[t] = wbuffer[t] /\ ws_stat'[t] = ws_stat[t]
      /\ wbuffer'[s] = <<>> \/ ReplyTo(wbuffer'[s], m)
      /\ ~is_close'[s] => ws_stat'[s] = "TRANSMISSION"
  BY <1>3, <1>5, HandledReply
<1>7. /\ \A g \in Fd \ {fd} : fdtab'[g] = fdtab[g] /\ fdtab[g] # c
      /\ fdtab'[fd] \in {c, NoConn} /\ (is_close'[s] => fdtab'[fd] = NoConn)
      /\ stage'[c] \in {"accepted", "closed"} /\ \A d \in Conn \ {c} : stage'[d] = stage[d]
  <2>1. \A g \in Fd \ {fd} : fdtab[g] # c
    BY <1>2, <1>3, <1>4, ConnAssumption DEF CoreInv, OneFdPerConn
  <2>2. CASE is_close'[s]
    <3>1. fdtab' = [fdtab EXCEPT ![fd] = NoConn] /\ stage' = [stage EXCEPT ![c] = "closed"]
      BY <1>1, <1>2, <2>2 DEF DelAndClose
    <3>. QED  BY <1>3, <1>4, <2>1, <3>1
  <2>3. CASE ~is_close'[s]
    BY <1>1, <1>2, <1>3, <2>1, <2>3
  <2>. QED  BY <2>2, <2>3
<1>8. Talk(c)'
  <2>1. InOrder(out[c], said[c]) /\ stage'[c] \notin {"idle", "queued"}
    BY <1>3, <1>7 DEF TalkInv, Talk
  <2>. QED  BY <1>2, <1>3, <1>4, <1>6, <1>7, <2>1, AnsweredTurn
<1>9. SessionAt(fd)'
  BY <1>6, <1>7 DEF SessionAt
<1>10. \A g \in Fd \ {fd} : /\ fdtab'[g] = fdtab[g] /\ wbuffer'[Slot(g)] = wbuffer[Slot(g)]
                            /\ ws_stat'[Slot(g)] = ws_stat[Slot(g)]
  BY <1>3, <1>6, <1>7
<1>11. \A d \in Conn \ {c} : rx'[d] = rx[d] /\ out'[d] = out[d] /\ stage'[d] = stage[d]
  BY <1>3, <1>4, <1>7
<1>. QED  BY <1>2, <1>3, <1>4, <1>7, <1>8, <1>9, <1>10, <1>11, OwnTurn

LEMMA RecvCrashTurn ==
    ASSUME Patient, WsInv, TalkInv, NEW b \in batch, RecvCrash(b)
    PROVE  TalkInv'
<1>1. PICK fd \in Fd, m \in Kinds, n \in 1..BUFFER_LENGTH :
        /\ Received(b, fd, m, n)
        /\ UNCHANGED <<fdtab, stage, interest, ev, wsVars>>
  BY DEF RecvCrash
<1>2. PICK c : c = fdtab[fd]
  OBVIOUS
<1>3. /\ c \in Conn /\ stage[c] = "accepted" /\ wbuffer[Slot(fd)] = <<>> /\ Asked(c)
      /\ rx'[c] = <<>> /\ \A d \in Conn \ {c} : rx'[d] = rx[d]
  BY <1>1, <1>2, ReadTurn
<1>4. UNCHANGED <<said, out, fdtab, stage, wbuffer, ws_stat>> /\ CoreInv
  BY <1>1 DEF Received, WsInv, wsVars
<1>5. \A g \in Fd \ {fd} : fdtab'[g] = fdtab[g] /\ fdtab[g] # c
  BY <1>2, <1>3, <1>4, ConnAssumption DEF CoreInv, OneFdPerConn
<1>6. Talk(c)'
  <2>1. InOrder(out[c], said[c]) /\ stage'[c] \notin {"idle", "queued"} /\ wbuffer'[Slot(fd)] = <<>>
    BY <1>3, <1>4 DEF TalkInv, Talk
  <2>. QED  BY <1>2, <1>3, <1>4, <1>5, <2>1, AnsweredTurn
<1>7. SessionAt(fd)'
  BY <1>4 DEF TalkInv, SessionAt
<1>. QED  BY <1>2, <1>3, <1>4, <1>6, <1>7, OwnTurn

\* The part of the reply that fits is sent, and the rest is dropped.
LEMMA SendOkTurn ==
    ASSUME WsInv, TalkInv, NEW b \in batch, NEW fd \in Fd, Dispatch(b, "send_cb"), fd = ev[b.ptr].fd,
           SendOk(b, fd), UNCHANGED <<rx, ws_stat, said>>
    PROVE  TalkInv'
<1>1. PICK c : c = fdtab[fd]
  OBVIOUS
<1>2. /\ c \in Conn /\ stage[c] = "accepted" /\ Slot(fd) \in Slots
      /\ \A g \in Fd \ {fd} : Slot(g) \in Slots /\ Slot(g) # Slot(fd)
  BY <1>1, CallbackOf
<1>3. /\ inflight \in [Conn -> 0..SndBuf] /\ wbuffer \in [Slots -> Seq(Part)]
      /\ out \in [Conn -> Seq(Part)] /\ said \in [Conn -> Seq(Kinds)] /\ CoreInv
  BY DEF WsInv, TypeOK, CoreInv, CoreTypeOK
<1>4. PICK w \in Seq(Part) : w = wbuffer[Slot(fd)]
  BY <1>2, <1>3
<1>5. PICK n \in 0..Len(w) : n = Min2(Len(w), Room(c))
  <2>1. Len(w) \in Nat /\ inflight[c] \in 0..SndBuf
    BY <1>2, <1>3
  <2>2. Min2(Len(w), Room(c)) \in 0..Len(w)
    BY SMTT(30), <2>1, SocketAssumption DEF Min2, Room
  <2>. QED  BY <2>2
<1>6. /\ w # <<>> /\ UNCHANGED <<fdtab, stage>>
      /\ out' = [out EXCEPT ![c] = out[c] \o SubSeq(w, 1, n)]
      /\ wbuffer' = [wbuffer EXCEPT ![Slot(fd)] = <<>>]
  <2>1. /\ wbuffer[Slot(fd)] # <<>> /\ UNCHANGED <<fdtab, stage>>
        /\ out' = [out EXCEPT ![fdtab[fd]] = out[fdtab[fd]] \o
                      SubSeq(wbuffer[Slot(fd)], 1, Min2(Len(wbuffer[Slot(fd)]), Room(fdtab[fd])))]
        /\ wbuffer' = [wbuffer EXCEPT ![Slot(fd)] = <<>>]
    BY DEF SendOk, ClearReply
  <2>. QED  BY <1>1, <1>4, <1>5, <2>1
<1>7. PICK o \in Seq(Part), s \in Seq(AllKinds) : o = out[c] /\ s = said[c]
  <2>1. out[c] \in Seq(Part)
    BY <1>2, <1>3
  <2>2. said[c] \in Seq(AllKinds)
    BY <1>2, <1>3, KindsAssumption
  <2>. QED  BY <2>1, <2>2
<1>8. PICK t \in Seq(Part) : t = SubSeq(w, 1, n)
  BY <1>5, <1>6, HeadOfReply, Zenon
<1>9. /\ \A g \in Fd \ {fd} : fdtab[g] # c /\ wbuffer'[Slot(g)] = wbuffer[Slot(g)]
      /\ wbuffer'[Slot(fd)] = <<>> /\ out'[c] = o \o t /\ \A d \in Conn \ {c} : out'[d] = out[d]
  <2>1. \A g \in Fd \ {fd} : fdtab[g] # c
    BY <1>1, <1>2, <1>3, ConnAssumption DEF CoreInv, OneFdPerConn
  <2>2. \A g \in Fd \ {fd} : wbuffer'[Slot(g)] = wbuffer[Slot(g)]
    BY <1>2, <1>3, <1>6
  <2>3. wbuffer'[Slot(fd)] = <<>>
    BY <1>2, <1>3, <1>6
  <2>4. out'[c] = o \o t /\ \A d \in Conn \ {c} : out'[d] = out[d]
    BY <1>2, <1>3, <1>6, <1>7, <1>8
  <2>. QED  BY <2>1, <2>2, <2>3, <2>4
<1>10. fd \in Pending(c) /\ Pending(c)' = {}
  BY <1>1, <1>4, <1>6, <1>9 DEF Pending
<1>11. /\ Talk(c) /\ Read(c) /\ ReplyTo(w, LastSaid(c)) /\ rx' = rx
       /\ ws_stat[Slot(fd)] = "TRANSMISSION"
  <2>1. Talk(c) /\ SessionAt(fd)
    BY <1>2 DEF TalkInv
  <2>2. Read(c)
    BY <1>10, <2>1 DEF Talk, Quiet, Asked
  <2>. QED  BY <1>1, <1>2, <1>4, <1>6, <1>10, <2>1, <2>2, ConnAssumption DEF Read, SessionAt
<1>12. LastSaid(c) = s[Len(s)] /\ s # <<>> /\ InOrder(o, s) /\ Count(o) + 1 = Len(s) /\ rx[c] = <<>>
  BY <1>7, <1>11 DEF LastSaid, Read, Talk
<1>13. InOrder(o \o t, s) /\ (Count(o \o t) = Len(s) \/ Count(o \o t) + 1 = Len(s))
  <2>1. t = <<>> \/ ReplyTo(t, s[Len(s)])
    BY <1>8, <1>11, <1>12, ReplyCut
  <2>2. CASE t = <<>>
    <3>1. o \o t = o
      BY <2>2, ConcatEmptySeq
    <3>. QED  BY <1>12, <3>1
  <2>3. CASE ReplyTo(t, s[Len(s)])
    BY <1>12, <2>3, InOrderMore
  <2>. QED  BY <2>1, <2>2, <2>3
<1>14. Talk(c)'
  <2>1. Quiet(c)' \/ Read(c)'
    BY <1>7, <1>9, <1>10, <1>11, <1>12, <1>13 DEF Quiet, Read
  <2>2. InOrder(out'[c], said'[c])
    BY <1>7, <1>9, <1>13
  <2>. QED  BY <1>2, <1>6, <2>1, <2>2 DEF Talk
<1>15. SessionAt(fd)'
  BY <1>11 DEF SessionAt
<1>16. /\ UNCHANGED said /\ fdtab'[fd] = c
       /\ \A g \in Fd \ {fd} : /\ fdtab'[g] = fdtab[g] /\ wbuffer'[Slot(g)] = wbuffer[Slot(g)]
                               /\ ws_stat'[Slot(g)] = ws_stat[Slot(g)]
       /\ \A d \in Conn \ {c} : rx'[d] = rx[d] /\ out'[d] = out[d] /\ stage'[d] = stage[d]
  BY <1>1, <1>6, <1>9
<1>. QED  BY <1>1, <1>2, <1>3, <1>14, <1>15, <1>16, OwnTurn

\* The other steps say, read and send nothing.
LEMMA ClientMoveTurn ==
    ASSUME WsInv, TalkInv, NEW c \in Conn, ClientMove(c), UNCHANGED <<wsVars, said, out>>
    PROVE  TalkInv'
<1>1. UNCHANGED <<fdtab, rx, wbuffer, ws_stat>>
  BY DEF ClientMove, Connect, ClientRead, ClientFin, ClientReset, ClientPipe, PeerTimeout, Lose,
         reactorVars, wsVars
<1>2. \A d \in Conn : stage'[d] \in {"idle", "queued"} => stage[d] \in {"idle", "queued"}
  <2>1. stage \in [Conn -> Stages]
    BY DEF WsInv, CoreInv, CoreTypeOK
  <2>2. CASE Connect(c)
    BY <2>1, <2>2 DEF Connect
  <2>3. CASE ~Connect(c)
    BY <2>3 DEF ClientMove, ClientRead, ClientFin, ClientReset, ClientPipe, PeerTimeout, Lose
  <2>. QED  BY <2>2, <2>3
<1>. QED  BY <1>1, <1>2, EndTurn

LEMMA AcceptTurn ==
    ASSUME WsInv, TalkInv, NEW b \in batch, accept_cb(b), UNCHANGED <<wsVars, said, out>>
    PROVE  TalkInv'
<1>1. /\ CoreInv /\ wbuffer' = wbuffer /\ ws_stat' = ws_stat
      /\ fdtab \in [Fd -> Conn \cup {NoConn}] /\ stage \in [Conn -> Stages]
  BY DEF WsInv, CoreInv, CoreTypeOK, wsVars
<1>2. CASE AcceptFails(b)
  <2>1. UNCHANGED <<fdtab, stage, rx>>
    BY <1>2 DEF AcceptFails, kernelVars
  <2>. QED  BY <1>1, <2>1, EndTurn
<1>3. ASSUME NEW fd \in Fd, Accepting(fd), Dispatch(b, "accept_cb") PROVE TalkInv'
  <2>1. backlog # <<>>
    BY <1>1, <1>3, EventFd DEF Dispatch, EventOf
  <2>2. PICK c \in Conn : /\ c = Head(backlog) /\ stage[c] = "queued" /\ fdtab[fd] = NoConn
                          /\ fdtab' = [fdtab EXCEPT ![fd] = c]
    BY <1>1, <1>3, <2>1, AcceptingKeeps
  <2>3. stage' = [stage EXCEPT ![c] = "accepted"] /\ rx' = rx
    BY <1>3, <2>2 DEF Accepting
  <2>4. wbuffer[Slot(fd)] = <<>>
    BY <1>1, <2>2, FreeFdIsUnwatched DEF WsInv, LeftoverAt
  <2>5. out[c] = <<>>
    BY <2>2 DEF TalkInv, Talk
  <2>6. \A g \in Fd : \/ fdtab'[g] = fdtab[g]
                      \/ wbuffer'[Slot(g)] = <<>> /\ out[fdtab'[g]] = <<>>
    BY <1>1, <2>2, <2>4, <2>5
  <2>7. \A d \in Conn : stage'[d] \in {"idle", "queued"} => stage[d] \in {"idle", "queued"}
    BY <1>1, <2>2, <2>3
  <2>. QED  BY <1>1, <2>3, <2>6, <2>7, EndTurn
<1>. QED  BY <1>2, <1>3 DEF accept_cb, AcceptOk, AcceptForgets

\* A callback that lets go of its connection, and of what waits for it.
LEMMA HangUpTurn ==
    ASSUME WsInv, TalkInv, NEW fd \in Fd, fdtab[fd] \in Conn, DelAndClose(fd) \/ DelOnly(fd),
           UNCHANGED <<rx, said, out, ws_stat>>,
           wbuffer' = wbuffer \/ wbuffer' = [wbuffer EXCEPT ![Slot(fd)] = <<>>]
    PROVE  TalkInv'
<1>1. /\ fdtab \in [Fd -> Conn \cup {NoConn}] /\ stage \in [Conn -> Stages]
      /\ wbuffer \in [Slots -> Seq(Part)] /\ \A g \in Fd : Slot(g) \in Slots
  BY DEF WsInv, TypeOK, CoreInv, CoreTypeOK, Slots, AllFd
<1>2. \A g \in Fd : wbuffer'[Slot(g)] \in {wbuffer[Slot(g)], <<>>}
  BY <1>1
<1>3. \A g \in Fd : fdtab'[g] \in {fdtab[g], NoConn}
  BY <1>1 DEF DelAndClose, DelOnly
<1>4. \A d \in Conn : stage'[d] \in {"idle", "queued"} => stage[d] \in {"idle", "queued"}
  BY <1>1 DEF DelAndClose, DelOnly
<1>. QED  BY <1>2, <1>3, <1>4, EndTurn

LEMMA RecvOverTurn ==
    ASSUME WsInv, TalkInv, NEW b \in batch, RecvEnd(b) \/ RecvError(b)
    PROVE  TalkInv'
<1>1. PICK fd \in Fd : fd = ev[b.ptr].fd /\ fdtab[fd] \in Conn
  <2>1. Dispatch(b, "recv_cb")
    BY DEF RecvEnd, RecvError
  <2>. QED  BY <2>1, CallbackOf
<1>2. (DelAndClose(fd) \/ DelOnly(fd)) /\ UNCHANGED <<rx, said, out, ws_stat, wbuffer>>
  BY <1>1 DEF RecvEnd, RecvError, wsVars
<1>. QED  BY <1>1, <1>2, HangUpTurn

LEMMA SendRestTurn ==
    ASSUME WsInv, TalkInv, NEW b \in batch, NEW fd \in Fd, Dispatch(b, "send_cb"), fd = ev[b.ptr].fd,
           SendError(b, fd) \/ SendKilled(b, fd) \/ SendNothing(b, fd),
           UNCHANGED <<rx, ws_stat, said>>
    PROVE  TalkInv'
<1>1. fdtab[fd] \in Conn
  BY CallbackOf
<1>2. CASE SendError(b, fd)
  BY <1>1, <1>2, HangUpTurn DEF SendError, ClearReply
<1>3. CASE SendKilled(b, fd) \/ SendNothing(b, fd)
  <2>1. UNCHANGED <<fdtab, stage, wbuffer, out>>
    BY <1>3 DEF SendKilled, SendNothing
  <2>. QED  BY <2>1, EndTurn
<1>. QED  BY <1>2, <1>3

LEMMA TalkInit == Init => TalkInv
<1>. SUFFICES ASSUME Init PROVE TalkInv
  OBVIOUS
<1>1. \A fd \in Fd : Slot(fd) \in Slots
  BY DEF Slots, AllFd
<1>2. AnswersIn(<<>>) = {}
  BY DEF AnswersIn
<1>3. Count(<<>>) = 0
  BY <1>2, FS_EmptySet DEF Count
<1>4. InOrder(<<>>, <<>>)
  BY <1>2, <1>3 DEF InOrder
<1>5. ASSUME NEW c \in Conn PROVE Talk(c)
  <2>1. rx[c] = <<>> /\ said[c] = <<>> /\ out[c] = <<>> /\ Pending(c) = {}
    BY <1>1 DEF Init, CoreInit, Pending
  <2>. QED  BY <1>3, <1>4, <2>1 DEF Talk, Quiet
<1>6. ASSUME NEW fd \in Fd PROVE SessionAt(fd)
  BY DEF Init, CoreInit, SessionAt
<1>. QED  BY <1>5, <1>6 DEF TalkInv

LEMMA TalkStep ==
    ASSUME Patient
    PROVE  WsInv /\ TalkInv /\ [Next]_vars => TalkInv'
<1>. SUFFICES ASSUME WsInv, TalkInv, [Next]_vars PROVE TalkInv'
  OBVIOUS
<1>1. CASE UNCHANGED vars \/ Idle \/ (EpollWait /\ UNCHANGED <<wsVars, said, out>>)
  <2>1. UNCHANGED <<fdtab, stage, rx, said, out, ws_stat, wbuffer>>
    BY <1>1 DEF vars, Idle, EpollTimeout, EpollWait, coreVars, kernelVars, wsVars
  <2>. QED  BY <2>1, EndTurn
<1>2. ASSUME NEW c \in Conn, Client(c) PROVE TalkInv'
  BY <1>2, ClientSayTurn, ClientMoveTurn DEF Client
<1>3. ASSUME NEW b \in batch, accept_cb(b), UNCHANGED <<wsVars, said, out>> PROVE TalkInv'
  BY <1>3, AcceptTurn
<1>4. ASSUME NEW b \in batch, recv_cb(b) PROVE TalkInv'
  BY <1>4, RecvHandledTurn, RecvCrashTurn, RecvOverTurn DEF recv_cb
<1>5. ASSUME NEW b \in batch, send_cb(b) PROVE TalkInv'
  <2>1. PICK fd \in Fd :
            /\ Dispatch(b, "send_cb") /\ fd = ev[b.ptr].fd
            /\ SendOk(b, fd) \/ SendError(b, fd) \/ SendKilled(b, fd) \/ SendNothing(b, fd)
            /\ UNCHANGED <<backlog, peer, rx, blkcnt, ws_stat, is_close, said>>
    BY <1>5 DEF send_cb
  <2>2. UNCHANGED <<rx, ws_stat, said>>
    BY <2>1
  <2>3. CASE SendOk(b, fd)
    BY <2>1, <2>2, <2>3, SendOkTurn
  <2>4. CASE ~SendOk(b, fd)
    BY <2>1, <2>2, <2>4, SendRestTurn
  <2>. QED  BY <2>3, <2>4
<1>. QED  BY <1>1, <1>2, <1>3, <1>4, <1>5 DEF Next, Server

\* A client that waits for its answers gets them one by one and in order: each is
\* the reply to the message it sent, also when send() cuts a reply short, the block
\* had another client before, or the connection breaks down in between.
THEOREM WsRepliesInOrder ==
    ASSUME Patient
    PROVE  Spec => []RepliesInOrder
<1>1. TalkInv => RepliesInOrder
  <2>1. \A c \in Conn : Answers(c) = AnswersIn(out[c])
    BY DEF Answers, AnswersIn
  <2>. QED  BY <2>1 DEF TalkInv, Talk, InOrder, Count, RepliesInOrder
<1>2. Init => TalkInv
  BY TalkInit
<1>3. WsInv /\ TalkInv /\ [Next]_vars => TalkInv'
  BY TalkStep
<1>. QED  BY <1>1, <1>2, <1>3, WsInvariant, PTL DEF Spec

-----------------------------------------------------------------------------
(* The handshake of every client *)

\* Nobody says more and nothing is read; a block changes hands when it waits for a
\* handshake.
LEMMA EndFresh ==
    ASSUME FreshInv, UNCHANGED <<rx, said>>,
           \A g \in Fd : \/ ws_stat'[Slot(g)] = "HANDSHARK"
                         \/ fdtab'[g] = fdtab[g] /\ ws_stat'[Slot(g)] = ws_stat[Slot(g)],
           \A c \in Conn : /\ peer'[c] # "open" => peer[c] # "open" \/ said[c] = <<>> \/ Leaving(c)
                           /\ stage'[c] # "closed" => stage[c] # "closed"
    PROVE  FreshInv'
<1>1. ASSUME NEW c \in Conn PROVE GoodBye(c)'
  <2>1. Leaving(c)' = Leaving(c)
    BY DEF Leaving, LastSaid
  <2>. QED  BY <2>1 DEF FreshInv, GoodBye
<1>2. ASSUME NEW g \in Fd PROVE FreshAt(g)'
  BY DEF FreshInv, FreshAt
<1>. QED  BY <1>1, <1>2 DEF FreshInv

LEMMA ClientSayFresh ==
    ASSUME Faithful, WsInv, TalkInv, FreshInv, NEW c \in Conn, NEW m \in Kinds, ClientSay(c, m)
    PROVE  FreshInv'
<1>1. /\ UNCHANGED <<fdtab, stage, peer, ws_stat>> /\ peer[c] = "open" /\ m \in AllKinds
      /\ rx' = [rx EXCEPT ![c] = rx[c] \o <<m>>] /\ said' = [said EXCEPT ![c] = Append(said[c], m)]
  BY KindsAssumption DEF ClientSay, Arrive, reactorVars, wsVars
<1>2. /\ rx \in [Conn -> Seq(AllKinds)] /\ said \in [Conn -> Seq(Kinds)]
  BY DEF WsInv, TypeOK
<1>3. PICK r \in Seq(AllKinds), s \in Seq(Kinds) : r = rx[c] /\ s = said[c]
  BY <1>2
<1>4. rx'[c] = r \o <<m>> /\ said'[c] = Append(s, m)
  BY <1>1, <1>2, <1>3
<1>5. r \o <<m>> # <<>>
  OBVIOUS
<1>6. TalkInv' /\ Patient
  BY ClientSayTurn DEF Faithful, Patient
<1>7. ASSUME rx'[c] = said'[c] PROVE rx[c] = said[c]
  <2>1. Asked(c)'
    BY <1>4, <1>5, <1>6 DEF TalkInv, Talk, Quiet, Read
  <2>2. Append(s, m) = <<LastSaid(c)'>>
    BY <1>4, <1>7, <2>1 DEF Asked
  <2>3. Len(Append(s, m)) = 1
    BY <2>2
  <2>4. s = <<>>
    <3>1. Len(s) \in Nat /\ Len(Append(s, m)) = Len(s) + 1
      BY <1>1
    <3>2. Len(s) = 0
      BY <2>3, <3>1
    <3>. QED  BY <3>2, EmptySeq
  <2>5. rx[c] = <<>>
    BY <1>3, <2>4 DEF TalkInv, Talk, Quiet, Asked, Read
  <2>. QED  BY <1>3, <2>4, <2>5
<1>8. ASSUME NEW d \in Conn PROVE GoodBye(d)'
  <2>1. CASE d = c
    BY <1>1, <1>4, <1>5, <2>1 DEF GoodBye
  <2>2. CASE d # c
    <3>1. rx'[d] = rx[d] /\ said'[d] = said[d]
      BY <1>1, <1>2, <2>2
    <3>2. Leaving(d)' = Leaving(d)
      BY <3>1 DEF Leaving, LastSaid
    <3>. QED  BY <1>1, <3>1, <3>2 DEF FreshInv, GoodBye
  <2>. QED  BY <2>1, <2>2
<1>9. ASSUME NEW g \in Fd PROVE FreshAt(g)'
  <2>1. fdtab[g] # NoConn => fdtab[g] \in Conn
    BY DEF WsInv, CoreInv, CoreTypeOK
  <2>2. CASE fdtab[g] = c
    BY <1>1, <1>7, <2>2 DEF FreshInv, FreshAt
  <2>3. CASE fdtab[g] # c
    <3>1. fdtab[g] # NoConn => rx'[fdtab[g]] = rx[fdtab[g]] /\ said'[fdtab[g]] = said[fdtab[g]]
      BY <1>1, <1>2, <2>1, <2>3
    <3>. QED  BY <1>1, <3>1 DEF FreshInv, FreshAt
  <2>. QED  BY <2>2, <2>3
<1>. QED  BY <1>8, <1>9 DEF FreshInv

LEMMA ClientMoveFresh ==
    ASSUME Faithful, WsInv, FreshInv, NEW c \in Conn, ClientMove(c), UNCHANGED <<wsVars, said, out>>
    PROVE  FreshInv'
<1>1. UNCHANGED <<fdtab, rx, ws_stat>> /\ ~PeerTimeout(c)
  BY DEF ClientMove, Connect, ClientRead, ClientFin, ClientReset, ClientPipe, PeerTimeout, Lose,
         reactorVars, wsVars, Faithful
<1>2. stage \in [Conn -> Stages] /\ peer \in [Conn -> PeerStates]
  BY DEF WsInv, CoreInv, CoreTypeOK
<1>3. \A d \in Conn : stage'[d] # "closed" => stage[d] # "closed"
  <2>1. CASE Connect(c)
    BY <1>2, <2>1 DEF Connect
  <2>2. CASE ~Connect(c)
    BY <2>2 DEF ClientMove, ClientRead, ClientFin, ClientReset, ClientPipe, PeerTimeout, Lose
  <2>. QED  BY <2>1, <2>2
<1>4. ASSUME NEW d \in Conn, peer'[d] # "open"
      PROVE  peer[d] # "open" \/ said[d] = <<>> \/ Leaving(d)
  <2>1. CASE Connect(c) \/ ClientRead(c)
    BY <1>4, <2>1 DEF Connect, ClientRead
  <2>2. CASE MayLeave(c) /\ (ClientFin(c) \/ ClientReset(c))
    <3>1. said[c] = <<>> \/ Leaving(c)
      BY <2>2 DEF MayLeave, Faithful
    <3>2. d # c => peer'[d] = peer[d]
      BY <1>2, <2>2 DEF ClientFin, ClientReset, Lose
    <3>. QED  BY <1>4, <3>1, <3>2
  <2>3. CASE ClientPipe(c)
    <3>1. peer[c] # "open"
      BY <2>3 DEF ClientPipe
    <3>2. d # c => peer'[d] = peer[d]
      BY <1>2, <2>3 DEF ClientPipe, Lose
    <3>. QED  BY <1>4, <3>1, <3>2
  <2>. QED  BY <1>1, <2>1, <2>2, <2>3 DEF ClientMove
<1>. QED  BY <1>1, <1>3, <1>4, EndFresh

LEMMA AcceptFresh ==
    ASSUME WsInv, FreshInv, NEW b \in batch, accept_cb(b), UNCHANGED <<wsVars, said, out>>
    PROVE  FreshInv'
<1>1. CoreInv /\ ws_stat' = ws_stat /\ fdtab \in [Fd -> Conn \cup {NoConn}] /\ stage \in [Conn -> Stages]
  BY DEF WsInv, CoreInv, CoreTypeOK, wsVars
<1>2. CASE AcceptFails(b)
  <2>1. UNCHANGED <<fdtab, stage, peer, rx>>
    BY <1>2 DEF AcceptFails, kernelVars
  <2>. QED  BY <1>1, <2>1, EndFresh
<1>3. ASSUME NEW fd \in Fd, Accepting(fd), Dispatch(b, "accept_cb") PROVE FreshInv'
  <2>1. backlog # <<>>
    BY <1>1, <1>3, EventFd DEF Dispatch, EventOf
  <2>2. PICK c \in Conn : /\ c = Head(backlog) /\ stage[c] = "queued" /\ fdtab[fd] = NoConn
                          /\ fdtab' = [fdtab EXCEPT ![fd] = c]
    BY <1>1, <1>3, <2>1, AcceptingKeeps
  <2>3. stage' = [stage EXCEPT ![c] = "accepted"] /\ rx' = rx /\ peer' = peer
    BY <1>3, <2>2 DEF Accepting
  <2>4. ws_stat[Slot(fd)] = "HANDSHARK"
    BY <2>2 DEF FreshInv, FreshAt
  <2>5. \A g \in Fd : ws_stat'[Slot(g)] = "HANDSHARK" \/ fdtab'[g] = fdtab[g]
    BY <1>1, <2>2, <2>4
  <2>6. \A d \in Conn : stage'[d] # "closed" => stage[d] # "closed"
    BY <1>1, <2>2, <2>3
  <2>. QED  BY <1>1, <2>3, <2>5, <2>6, EndFresh
<1>. QED  BY <1>2, <1>3 DEF accept_cb, AcceptOk, AcceptForgets

\* The message that is read is the first, and opens a session, or a close frame, and
\* ends it.
LEMMA ReadFresh ==
    ASSUME WsInv, FreshInv, NEW fd \in Fd, NEW c \in Conn, c = fdtab[fd], Asked(c), rx'[c] = <<>>,
           UNCHANGED <<peer, said>>, \A d \in Conn \ {c} : rx'[d] = rx[d],
           Leaving(c) => stage'[c] = "closed",
           fdtab'[fd] = c \/ (fdtab'[fd] = NoConn /\ ws_stat'[Slot(fd)] = "HANDSHARK"),
           \A g \in Fd \ {fd} : fdtab'[g] = fdtab[g] /\ ws_stat'[Slot(g)] = ws_stat[Slot(g)],
           \A d \in Conn \ {c} : stage'[d] = stage[d]
    PROVE  FreshInv'
<1>1. \A d \in Conn : Leaving(d)' = Leaving(d) /\ said'[d] = said[d] /\ peer'[d] = peer[d]
  BY DEF Leaving, LastSaid
<1>2. ASSUME NEW d \in Conn PROVE GoodBye(d)'
  BY <1>1 DEF FreshInv, GoodBye
<1>3. ASSUME NEW g \in Fd PROVE FreshAt(g)'
  <2>1. CASE g = fd
    <3>1. said'[c] # rx'[c] /\ c # NoConn
      BY ConnAssumption DEF Asked
    <3>. QED  BY <2>1, <3>1 DEF FreshAt
  <2>2. CASE g # fd
    <3>1. fdtab[g] # c
      BY <2>2, ConnAssumption DEF WsInv, CoreInv, OneFdPerConn
    <3>2. fdtab[g] # NoConn => fdtab[g] \in Conn
      BY DEF WsInv, CoreInv, CoreTypeOK
    <3>. QED  BY <1>1, <2>2, <3>1, <3>2 DEF FreshInv, FreshAt
  <2>. QED  BY <2>1, <2>2
<1>. QED  BY <1>2, <1>3 DEF FreshInv

LEMMA RecvHandledFresh ==
    ASSUME Patient, WsInv, TalkInv, FreshInv, NEW b \in batch, RecvHandled(b)
    PROVE  FreshInv'
<1>1. PICK fd \in Fd, m \in Kinds, n \in 1..BUFFER_LENGTH :
        /\ Received(b, fd, m, n)
        /\ wshandle(Slot(fd), m, Behind(fd, n))
        /\ IF is_close'[Slot(fd)]
           THEN DelAndClose(fd)
           ELSE Rearm(fd, "send_cb", {"OUT"}) /\ UNCHANGED <<fdtab, stage>>
        /\ UNCHANGED alive
  BY DEF RecvHandled
<1>2. PICK c : c = fdtab[fd]
  OBVIOUS
<1>. DEFINE s == Slot(fd)
<1>3. /\ c \in Conn /\ stage[c] = "accepted" /\ s \in Slots /\ wbuffer[s] = <<>>
      /\ \A g \in Fd \ {fd} : Slot(g) \in Slots /\ Slot(g) # s
      /\ n = 1 /\ m = LastSaid(c) /\ m \in AllKinds /\ Asked(c)
      /\ rx'[c] = <<>> /\ \A d \in Conn \ {c} : rx'[d] = rx[d]
      /\ ws_stat[s] = "HANDSHARK" => m \in Upgrades
  BY <1>1, <1>2, ReadTurn
<1>4. /\ UNCHANGED <<said, peer>>
      /\ stage \in [Conn -> Stages] /\ fdtab \in [Fd -> Conn \cup {NoConn}]
  BY <1>1 DEF Received, WsInv, CoreInv, CoreTypeOK
<1>5. wshandle(s, m, {})
  <2>1. Behind(fd, n) = {}
    BY <1>3 DEF Behind
  <2>. QED  BY <1>1, <2>1
<1>6. /\ \A t \in Slots \ {s} : ws_stat'[t] = ws_stat[t]
      /\ is_close'[s] => ws_stat'[s] = "HANDSHARK"
      /\ m = "close" => is_close'[s]
  BY <1>3, <1>5, HandledReply
<1>7. /\ \A g \in Fd \ {fd} : fdtab'[g] = fdtab[g]
      /\ \A d \in Conn \ {c} : stage'[d] = stage[d]
      /\ is_close'[s] => fdtab'[fd] = NoConn /\ stage'[c] = "closed"
      /\ ~is_close'[s] => fdtab'[fd] = c
  <2>1. CASE is_close'[s]
    <3>1. fdtab' = [fdtab EXCEPT ![fd] = NoConn] /\ stage' = [stage EXCEPT ![c] = "closed"]
      BY <1>1, <1>2, <2>1 DEF DelAndClose
    <3>. QED  BY <1>3, <1>4, <2>1, <3>1
  <2>2. CASE ~is_close'[s]
    BY <1>1, <1>2, <2>2
  <2>. QED  BY <2>1, <2>2
<1>8. Leaving(c) => stage'[c] = "closed"
  BY <1>3, <1>6, <1>7 DEF Leaving
<1>9. \A g \in Fd \ {fd} : fdtab'[g] = fdtab[g] /\ ws_stat'[Slot(g)] = ws_stat[Slot(g)]
  BY <1>3, <1>6, <1>7
<1>. QED  BY <1>2, <1>3, <1>4, <1>6, <1>7, <1>8, <1>9, ReadFresh

LEMMA RecvCrashFresh ==
    ASSUME Patient, WsInv, TalkInv, FreshInv, NEW b \in batch, RecvCrash(b)
    PROVE  FreshInv'
<1>1. PICK fd \in Fd, m \in Kinds, n \in 1..BUFFER_LENGTH :
        /\ Received(b, fd, m, n)
        /\ Crashes(m)
        /\ UNCHANGED <<fdtab, stage, interest, ev, wsVars>>
  BY DEF RecvCrash
<1>2. PICK c : c = fdtab[fd]
  OBVIOUS
<1>3. /\ c \in Conn /\ m = LastSaid(c) /\ Asked(c)
      /\ rx'[c] = <<>> /\ \A d \in Conn \ {c} : rx'[d] = rx[d]
  BY <1>1, <1>2, ReadTurn
<1>4. UNCHANGED <<said, peer, fdtab, stage, ws_stat>>
  BY <1>1 DEF Received, wsVars
<1>5. ~Leaving(c)
  BY <1>1, <1>3 DEF Crashes, Leaving
<1>. QED  BY <1>2, <1>3, <1>4, <1>5, ReadFresh

\* The client that hung up said nothing: its block was never used.
LEMMA RecvOverFresh ==
    ASSUME WsInv, TalkInv, FreshInv, NEW b \in batch, RecvEnd(b) \/ RecvError(b)
    PROVE  FreshInv'
<1>1. PICK fd \in Fd : fd = ev[b.ptr].fd /\ fdtab[fd] \in Conn /\ stage[fdtab[fd]] = "accepted"
  <2>1. Dispatch(b, "recv_cb")
    BY DEF RecvEnd, RecvError
  <2>. QED  BY <2>1, CallbackOf
<1>2. /\ UNCHANGED <<rx, said, ws_stat, peer>>
      /\ \/ DelOnly(fd)
         \/ DelAndClose(fd) /\ rx[fdtab[fd]] = <<>> /\ peer[fdtab[fd]] # "open"
  BY <1>1 DEF RecvEnd, RecvError, wsVars
<1>3. fdtab \in [Fd -> Conn \cup {NoConn}] /\ stage \in [Conn -> Stages]
  BY DEF WsInv, CoreInv, CoreTypeOK
<1>4. DelAndClose(fd) /\ ~DelOnly(fd) => ws_stat[Slot(fd)] = "HANDSHARK"
  BY <1>1, <1>2 DEF FreshInv, GoodBye, FreshAt
<1>5. \A g \in Fd : ws_stat'[Slot(g)] = "HANDSHARK" \/ fdtab'[g] = fdtab[g]
  BY <1>2, <1>3, <1>4 DEF DelAndClose, DelOnly
<1>6. \A d \in Conn : stage'[d] # "closed" => stage[d] # "closed"
  BY <1>1, <1>2, <1>3 DEF DelAndClose, DelOnly
<1>. QED  BY <1>2, <1>5, <1>6, EndFresh

\* A client whose answer is on the way is still there to read it.
LEMMA SendFresh ==
    ASSUME WsInv, TalkInv, FreshInv, NEW b \in batch, send_cb(b)
    PROVE  FreshInv'
<1>1. PICK fd \in Fd :
        /\ Dispatch(b, "send_cb") /\ fd = ev[b.ptr].fd
        /\ SendOk(b, fd) \/ SendError(b, fd) \/ SendKilled(b, fd) \/ SendNothing(b, fd)
        /\ UNCHANGED <<backlog, peer, rx, blkcnt, ws_stat, is_close, said>>
  BY DEF send_cb
<1>2. PICK c \in Conn : c = fdtab[fd] /\ stage[c] = "accepted"
  BY <1>1, CallbackOf
<1>3. ~SendError(b, fd)
  <2>. SUFFICES ASSUME wbuffer[Slot(fd)] # <<>>, peer[c] # "open" PROVE FALSE
    BY <1>2 DEF SendError
  <2>1. Pending(c) # {}
    BY <1>2 DEF Pending
  <2>2. rx[c] = <<>> /\ said[c] # <<>>
    BY <2>1 DEF TalkInv, Talk, Quiet, Asked, Read
  <2>. QED  BY <1>2, <2>2 DEF FreshInv, GoodBye
<1>4. UNCHANGED <<fdtab, stage, peer, rx, said, ws_stat>>
  BY <1>1, <1>3 DEF SendOk, SendKilled, SendNothing
<1>. QED  BY <1>4, EndFresh

LEMMA FreshInit == Init => FreshInv
<1>. SUFFICES ASSUME Init PROVE FreshInv
  OBVIOUS
<1>1. \A fd \in Fd : Slot(fd) \in Slots
  BY DEF Slots, AllFd
<1>. QED  BY <1>1 DEF Init, CoreInit, FreshInv, GoodBye, FreshAt, Leaving

LEMMA FreshStep ==
    ASSUME Faithful
    PROVE  WsInv /\ TalkInv /\ FreshInv /\ [Next]_vars => FreshInv'
<1>. SUFFICES ASSUME WsInv, TalkInv, FreshInv, [Next]_vars PROVE FreshInv'
  OBVIOUS
<1>1. CASE UNCHANGED vars \/ Idle \/ (EpollWait /\ UNCHANGED <<wsVars, said, out>>)
  <2>1. UNCHANGED <<fdtab, stage, peer, rx, said, ws_stat>>
    BY <1>1 DEF vars, Idle, EpollTimeout, EpollWait, coreVars, kernelVars, wsVars
  <2>. QED  BY <2>1, EndFresh
<1>2. ASSUME NEW c \in Conn, Client(c) PROVE FreshInv'
  BY <1>2, ClientSayFresh, ClientMoveFresh DEF Client
<1>3. ASSUME NEW b \in batch, accept_cb(b), UNCHANGED <<wsVars, said, out>> PROVE FreshInv'
  BY <1>3, AcceptFresh
<1>4. ASSUME NEW b \in batch, recv_cb(b) PROVE FreshInv'
  BY <1>4, RecvHandledFresh, RecvCrashFresh, RecvOverFresh DEF recv_cb, Faithful, Patient
<1>5. ASSUME NEW b \in batch, send_cb(b) PROVE FreshInv'
  BY <1>5, SendFresh
<1>. QED  BY <1>1, <1>2, <1>3, <1>4, <1>5 DEF Next, Server

\* Among clients that say goodbye, every connection meets a block that waits for a
\* handshake, although accept_cb does not reset ws_stat: whoever had the block
\* before put it back with a close frame, or never used it.
THEOREM WsFreshBlock ==
    ASSUME Faithful
    PROVE  Spec => []FreshBlock
<1>1. FreshInv => FreshBlock
  BY DEF FreshInv, FreshAt, FreshBlock
<1>2. Init => TalkInv /\ FreshInv
  BY TalkInit, FreshInit
<1>3. WsInv /\ TalkInv /\ FreshInv /\ [Next]_vars => TalkInv' /\ FreshInv'
  BY TalkStep, FreshStep DEF Faithful, Patient
<1>. QED  BY <1>1, <1>2, <1>3, WsInvariant, PTL DEF Spec
=============================================================================
