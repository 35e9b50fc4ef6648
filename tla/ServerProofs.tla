------------------------------ MODULE ServerProofs ------------------------------
(***************************************************************************)
(* Theorems of the echo servers that loop over descriptors (server3.c to   *)
(* server6.c and the first reactor), for any number of clients and bytes,  *)
(* and whatever the uninitialised sets of server3.c hold.                  *)
(***************************************************************************)
EXTENDS EchoServers, FiniteSetTheorems, SequenceTheorems, TLAPS

\* The programs on events that are taken one by one out of the batch.
Batched == program \in {"server6", "reactor"}

SockTypes ==
    /\ fdtab \in [Fd -> Conn \cup {NoConn}]
    /\ backlog \in Seq(Conn)
    /\ stage \in [Conn -> Stages] /\ peer \in [Conn -> PeerStates]
    /\ rx \in [Conn -> Seq(Byte)] /\ sent \in [Conn -> Nat]

\* A connection has one descriptor, or waits once in the backlog.
SockInv ==
    /\ SockTypes
    /\ \A fd \in Fd : fdtab[fd] # NoConn => stage[fdtab[fd]] = "accepted"
    /\ \A f, g \in Fd : fdtab[f] # NoConn /\ fdtab[f] = fdtab[g] => f = g
    /\ \A k \in 1..Len(backlog) : stage[backlog[k]] = "queued"
    /\ \A j, k \in 1..Len(backlog) : backlog[j] = backlog[k] => j = k

\* What the server wrote and the client did not take, never more than fits.
Taken == {n \in Int : n <= SndBuf}

\* Only the reactor looks for room before it calls send().
ReactorTypes ==
    program = "reactor" =>
        left \in Seq({Zero}) /\ inflight \in [Conn -> Taken] /\ rlength \in [{Item(fd) : fd \in Fd} -> Int]

LoopTypes ==
    /\ ready \subseteq Fd \cup {ListenFd}
    /\ fds \subseteq Fd /\ origin_wfd \subseteq Fd /\ wfds \subseteq Fd /\ outs \subseteq Fd
    /\ maxfd \in Int /\ i \in Int /\ i > ListenFd
    /\ pc \in {"wait", "accept", "read", "write", "send"}
    /\ program # "reactor" => outs = {}
    /\ program # "server3" => origin_wfd = {} /\ wfds = {}
    /\ ReactorTypes

PlaceInv ==
    /\ pc = "accept" => ~Batched /\ backlog # <<>> /\ i = ListenFd + 1
    /\ pc = "write" => program = "server3"
    /\ pc = "send" => i \in Fd /\ fdtab[i] # NoConn /\ (Batched => i \notin ready)

Good(fd) ==
    /\ fdtab[fd] # NoConn
    /\ IF program = "reactor" /\ fd \in outs THEN Writable(fdtab[fd]) ELSE Readable(fdtab[fd])

\* The reported descriptors no recv() or send() was called on yet.
ToCome(fd) ==
    /\ fd \in ready \ {ListenFd}
    /\ Batched \/ fd > i \/ (fd = i /\ pc \in {"accept", "read"})

PendingInv ==
    pc # "wait" =>
        /\ \A fd \in Fd : ToCome(fd) => Good(fd)
        /\ \A fd \in wfds : fd >= i => fdtab[fd] # NoConn

\* No descriptor is watched for writing that recv() was not called on.
Tidy == Garbage = {} \/ program # "server3"

Writing == IF program = "reactor" THEN outs ELSE origin_wfd

WatchInv ==
    /\ \A fd \in Fd : fd <= maxfd => (fdtab[fd] # NoConn <=> fd \in fds \cup Writing)
    /\ \A fd \in Fd : fd > maxfd => fdtab[fd] = NoConn /\ fd \notin fds /\ fd \notin outs
    /\ Tidy => fds \cap Writing = {} /\ \A fd \in origin_wfd : fd <= maxfd

LoopInv == SockInv /\ LoopTypes /\ PlaceInv /\ PendingInv /\ WatchInv

ServerInv == IF Loops THEN LoopInv ELSE pc = "wait"

\* For CountExact: before the listening entry is handled it counts as well.
CountInv ==
    program = "server4" =>
        /\ ready \subseteq Fd \cup {ListenFd} /\ i \in Int /\ i > ListenFd
        /\ pc \in {"wait", "accept", "read", "send"}
        /\ pc = "accept" => ListenFd \in ready /\ nready = Cardinality(ready) /\ i = ListenFd + 1
        /\ pc \in {"read", "send"} => nready = Cardinality({fd \in ready : fd >= i})
        /\ pc = "send" => i \in ready

-----------------------------------------------------------------------------
(* The calls on sockets *)

LEMMA FdFacts ==
    /\ Fd \subseteq Int /\ ListenFd \in Int /\ ListenFd \notin Fd /\ IsFiniteSet(Fd)
    /\ \A fd \in Fd : fd > ListenFd
<1>1. Cardinality(Conn) \in Nat
  BY ConnAssumption, FS_CardinalityType
<1>2. ListenFd + 1 \in Int /\ ListenFd + Cardinality(Conn) \in Int
  BY <1>1, FdAssumption
<1>3. IsFiniteSet(Fd)
  BY <1>2, FdAssumption, FS_Interval
<1>. QED  BY <1>2, <1>3, FdAssumption

LEMMA RestOf ==
    ASSUME NEW S, NEW s \in Seq(S), NEW k \in 0..Len(s)
    PROVE  SubSeq(s, k + 1, Len(s)) \in Seq(S) /\ SubSeq(s, 1, k) \in Seq(S) /\ Len(SubSeq(s, 1, k)) = k
  OBVIOUS

\* What a call on fd may change of the sockets when it closes nothing.
Touches(fd) ==
    /\ SockInv'
    /\ UNCHANGED <<fdtab, backlog, stage>>
    /\ \A c \in Conn \ {fdtab[fd]} : rx'[c] = rx[c] /\ peer'[c] = peer[c]
    /\ inflight \in [Conn -> Taken] =>
          \A c \in Conn \ {fdtab[fd]} : inflight'[c] = inflight[c]

LEMMA RecvTouches ==
    ASSUME SockInv, NEW fd \in Fd, fdtab[fd] # NoConn, RecvOk(fd)
    PROVE  Touches(fd) /\ inflight' = inflight /\ Len(Data(fd)) \in Nat
<1>. DEFINE c == fdtab[fd]
            k == Min2(Len(rx[c]), BUFFER_LENGTH)
<1>1. c \in Conn /\ rx \in [Conn -> Seq(Byte)]
  BY DEF SockInv, SockTypes
<1>2. rx[c] \in Seq(Byte) /\ Len(rx[c]) \in Nat
  BY <1>1
<1>3. k \in 0..Len(rx[c])
  BY <1>2, SizeAssumption DEF Min2
<1>4. Len(Data(fd)) = k
  BY <1>2, <1>3, RestOf DEF Data
<1>5. SubSeq(rx[c], Len(Data(fd)) + 1, Len(rx[c])) \in Seq(Byte)
  BY <1>2, <1>3, <1>4, RestOf
<1>6. /\ rx' = [rx EXCEPT ![c] = SubSeq(rx[c], Len(Data(fd)) + 1, Len(rx[c]))]
      /\ UNCHANGED <<fdtab, backlog, stage, peer, inflight, sent, out>>
  BY DEF RecvOk
<1>7. rx' \in [Conn -> Seq(Byte)] /\ \A d \in Conn \ {c} : rx'[d] = rx[d]
  BY <1>1, <1>5, <1>6
<1>. QED  BY <1>3, <1>4, <1>6, <1>7 DEF Touches, SockInv, SockTypes

LEMMA ErrorTouches ==
    ASSUME SockInv, NEW fd \in Fd, fdtab[fd] # NoConn, TakeError(fd)
    PROVE  Touches(fd) /\ inflight' = inflight /\ rx' = rx
<1>1. /\ peer' = [peer EXCEPT ![fdtab[fd]] = "pipe"] /\ peer \in [Conn -> PeerStates]
      /\ UNCHANGED <<fdtab, backlog, stage, rx, inflight, sent, out>>
  BY DEF TakeError, SockInv, SockTypes
<1>2. peer' \in [Conn -> PeerStates] /\ \A d \in Conn \ {fdtab[fd]} : peer'[d] = peer[d]
  BY <1>1 DEF PeerStates
<1>. QED  BY <1>1, <1>2 DEF Touches, SockInv, SockTypes

LEMMA SendTouches ==
    ASSUME SockInv, NEW fd \in Fd, fdtab[fd] # NoConn, NEW data, SendSome(fd, data)
    PROVE  Touches(fd)
<1>1. /\ inflight' = [inflight EXCEPT ![fdtab[fd]] = @ + Len(data)]
      /\ UNCHANGED <<fdtab, backlog, stage, peer, rx, sent>>
  BY DEF SendSome
<1>2. SockInv'
  BY <1>1 DEF SockInv, SockTypes
<1>3. inflight \in [Conn -> Taken] => \A c \in Conn \ {fdtab[fd]} : inflight'[c] = inflight[c]
  BY <1>1
<1>. QED  BY <1>1, <1>2, <1>3 DEF Touches

LEMMA SendErrorTouches ==
    ASSUME SockInv, NEW fd \in Fd, fdtab[fd] # NoConn, NEW partial, SendError(fd, partial)
    PROVE  Touches(fd) /\ inflight' = inflight
<1>1. CASE TakeError(fd)
  BY <1>1, ErrorTouches
<1>2. CASE UNCHANGED sockVars
  BY <1>2 DEF sockVars, Touches, SockInv, SockTypes
<1>. QED  BY <1>1, <1>2 DEF SendError

LEMMA CloseSockets ==
    ASSUME SockInv, NEW fd \in Fd, fdtab[fd] # NoConn, RecvEndClose(fd)
    PROVE  /\ SockInv' /\ fdtab' = [fdtab EXCEPT ![fd] = NoConn]
           /\ UNCHANGED <<backlog, peer, rx, inflight>>
<1>. DEFINE c == fdtab[fd]
<1>1. /\ fdtab' = [fdtab EXCEPT ![fd] = NoConn] /\ stage' = [stage EXCEPT ![c] = "closed"]
      /\ UNCHANGED <<backlog, peer, rx, inflight, sent, out>>
  BY DEF RecvEndClose
<1>2. /\ fdtab \in [Fd -> Conn \cup {NoConn}] /\ stage \in [Conn -> Stages] /\ c \in Conn
      /\ stage[c] = "accepted" /\ backlog \in Seq(Conn)
  BY DEF SockInv, SockTypes
<1>3. fdtab' \in [Fd -> Conn \cup {NoConn}] /\ stage' \in [Conn -> Stages]
  BY <1>1, <1>2 DEF Stages
<1>4. \A g \in Fd : fdtab'[g] # NoConn => g # fd /\ fdtab'[g] = fdtab[g] /\ fdtab[g] # c
  BY <1>1, <1>2 DEF SockInv
<1>5. \A g \in Fd : fdtab'[g] # NoConn => stage'[fdtab'[g]] = "accepted"
  BY <1>1, <1>2, <1>4 DEF SockInv
<1>6. \A f, g \in Fd : fdtab'[f] # NoConn /\ fdtab'[f] = fdtab'[g] => f = g
  BY <1>4 DEF SockInv
<1>7. \A k \in 1..Len(backlog) : backlog[k] \in Conn /\ backlog[k] # c
  BY <1>2 DEF SockInv
<1>8. \A k \in 1..Len(backlog) : stage'[backlog[k]] = "queued"
  BY <1>1, <1>2, <1>7 DEF SockInv
<1>. QED  BY <1>1, <1>3, <1>5, <1>6, <1>8 DEF SockInv, SockTypes

LEMMA AcceptSockets ==
    ASSUME SockInv, NEW fd \in Fd, Accept(fd)
    PROVE  /\ SockInv' /\ fdtab' = [fdtab EXCEPT ![fd] = Head(backlog)] /\ Head(backlog) \in Conn
           /\ fdtab[fd] = NoConn /\ \A g \in Fd : g < fd => fdtab[g] # NoConn
           /\ UNCHANGED <<peer, rx, inflight>>
<1>. DEFINE c == Head(backlog)
<1>1. /\ backlog # <<>> /\ fdtab[fd] = NoConn /\ \A g \in Fd : g < fd => fdtab[g] # NoConn
      /\ fdtab' = [fdtab EXCEPT ![fd] = c] /\ stage' = [stage EXCEPT ![c] = "accepted"]
      /\ backlog' = Tail(backlog) /\ UNCHANGED <<peer, rx, inflight, sent, out>>
  BY DEF Accept
<1>2. /\ fdtab \in [Fd -> Conn \cup {NoConn}] /\ stage \in [Conn -> Stages] /\ backlog \in Seq(Conn)
  BY DEF SockInv, SockTypes
<1>3. /\ Len(backlog) \in Nat \ {0} /\ c = backlog[1] /\ c \in Conn /\ Tail(backlog) \in Seq(Conn)
      /\ Len(Tail(backlog)) = Len(backlog) - 1
      /\ \A k \in 1..Len(Tail(backlog)) : Tail(backlog)[k] = backlog[k + 1]
  BY <1>1, <1>2, HeadTailProperties, EmptySeq
<1>4. stage[c] = "queued" /\ \A g \in Fd : fdtab[g] # c
  BY <1>2, <1>3, ConnAssumption DEF SockInv
<1>5. fdtab' \in [Fd -> Conn \cup {NoConn}] /\ stage' \in [Conn -> Stages] /\ backlog' \in Seq(Conn)
  BY <1>1, <1>2, <1>3 DEF Stages
<1>6. \A g \in Fd : fdtab'[g] # NoConn => stage'[fdtab'[g]] = "accepted"
  BY <1>1, <1>2, <1>3 DEF SockInv
<1>7. \A f, g \in Fd : fdtab'[f] # NoConn /\ fdtab'[f] = fdtab'[g] => f = g
  BY <1>1, <1>2, <1>4 DEF SockInv
<1>8. \A k \in 1..Len(backlog') : /\ k + 1 \in 1..Len(backlog) /\ backlog'[k] = backlog[k + 1]
                                  /\ backlog'[k] \in Conn
  BY <1>1, <1>2, <1>3
<1>9. \A k \in 1..Len(backlog') : stage'[backlog'[k]] = "queued"
  <2>1. ASSUME NEW k \in 1..Len(backlog') PROVE backlog'[k] # c /\ stage[backlog'[k]] = "queued"
    BY <1>3, <1>8 DEF SockInv
  <2>. QED  BY <1>1, <1>2, <1>8, <2>1
<1>10. \A j, k \in 1..Len(backlog') : backlog'[j] = backlog'[k] => j = k
  BY <1>3, <1>8 DEF SockInv
<1>. QED  BY <1>1, <1>3, <1>5, <1>6, <1>7, <1>9, <1>10 DEF SockInv, SockTypes

-----------------------------------------------------------------------------
(* Clients *)

\* A client does not take back what a loop was told.
LEMMA ClientSockets ==
    ASSUME SockInv, NEW c \in Conn, Client(c)
    PROVE  /\ SockInv' /\ fdtab' = fdtab /\ (backlog # <<>> => backlog' # <<>>)
           /\ \A d \in Conn : Readable(d) => Readable(d)'
           /\ inflight \in [Conn -> Taken] =>
                 inflight' \in [Conn -> Taken] /\ \A d \in Conn : Writable(d) => Writable(d)'
<1>1. SockTypes
  BY DEF SockInv
<1>2. CASE Connect(c)
  <2>1. /\ stage[c] = "idle" /\ stage' = [stage EXCEPT ![c] = "queued"] /\ backlog' = Append(backlog, c)
        /\ UNCHANGED <<fdtab, peer, rx, inflight, sent, out>>
    BY <1>2 DEF Connect
  <2>2. /\ backlog \in Seq(Conn) /\ Len(backlog) \in Nat /\ stage \in [Conn -> Stages]
        /\ fdtab \in [Fd -> Conn \cup {NoConn}]
    BY <1>1 DEF SockTypes
  <2>3. /\ backlog' \in Seq(Conn) /\ Len(backlog') = Len(backlog) + 1
        /\ backlog'[Len(backlog) + 1] = c
        /\ \A k \in 1..Len(backlog) : backlog'[k] = backlog[k]
    BY <2>1, <2>2, AppendProperties
  <2>4. \A k \in 1..Len(backlog) : backlog[k] \in Conn /\ backlog[k] # c
    BY <2>1, <2>2 DEF SockInv
  <2>5. \A k \in 1..Len(backlog') : k \in 1..Len(backlog) \/ k = Len(backlog) + 1
    BY <2>2, <2>3
  <2>6. \A k \in 1..Len(backlog') : stage'[backlog'[k]] = "queued"
    BY <2>1, <2>2, <2>3, <2>4, <2>5 DEF SockInv
  <2>7. \A j, k \in 1..Len(backlog') : backlog'[j] = backlog'[k] => j = k
    BY <2>3, <2>4, <2>5 DEF SockInv
  <2>8. \A fd \in Fd : fdtab[fd] # NoConn => stage'[fdtab[fd]] = "accepted"
    BY <2>1, <2>2 DEF SockInv
  <2>9. SockTypes'
    BY <1>1, <2>1, <2>2, <2>3 DEF SockTypes, Stages
  <2>10. backlog' # <<>>
    BY <2>2, <2>3, EmptySeq
  <2>. QED
    BY <2>1, <2>6, <2>7, <2>8, <2>9, <2>10 DEF SockInv, Readable, Writable, Room, Gone
<1>3. CASE ClientSend(c)
  <2>1. /\ sent' = [sent EXCEPT ![c] = sent[c] + 1]
        /\ rx' = [rx EXCEPT ![c] = Append(rx[c], <<c, sent[c] + 1>>)]
        /\ UNCHANGED <<fdtab, backlog, stage, peer, inflight, out>>
    BY <1>3 DEF ClientSend
  <2>2. rx \in [Conn -> Seq(Byte)] /\ sent[c] + 1 \in Nat /\ sent \in [Conn -> Nat]
    BY <1>1 DEF SockTypes
  <2>3. <<c, sent[c] + 1>> \in Byte /\ rx[c] \in Seq(Byte)
    BY <2>2 DEF Byte
  <2>4. /\ Append(rx[c], <<c, sent[c] + 1>>) \in Seq(Byte)
        /\ Len(Append(rx[c], <<c, sent[c] + 1>>)) = Len(rx[c]) + 1 /\ Len(rx[c]) \in Nat
    BY <2>3, AppendProperties, LenProperties
  <2>5. Append(rx[c], <<c, sent[c] + 1>>) # <<>>
    BY <2>4, EmptySeq
  <2>6. SockTypes' /\ rx'[c] # <<>> /\ \A d \in Conn \ {c} : rx'[d] = rx[d]
    BY <1>1, <2>1, <2>2, <2>4, <2>5 DEF SockTypes
  <2>. QED  BY <2>1, <2>6 DEF SockInv, Readable, Writable, Room, Gone
<1>4. CASE ClientFin(c) \/ ClientReset(c)
  <2>1. /\ \E p \in {"fin", "reset", "pipe"} : peer' = [peer EXCEPT ![c] = p]
        /\ peer[c] = "open" \/ peer'[c] \in {"reset", "pipe"}
        /\ UNCHANGED <<fdtab, backlog, stage, rx, sent, out>>
        /\ inflight' = inflight \/ (inflight' = [inflight EXCEPT ![c] = 0] /\ Gone(c)')
    BY <1>1, <1>4 DEF ClientFin, ClientReset, SockTypes, Gone
  <2>2. peer' \in [Conn -> PeerStates] /\ peer \in [Conn -> PeerStates]
        /\ peer'[c] # "open" /\ \A d \in Conn \ {c} : peer'[d] = peer[d]
    BY <1>1, <2>1 DEF SockTypes, PeerStates
  <2>3. SockInv'
    BY <1>1, <2>1, <2>2 DEF SockInv, SockTypes
  <2>4. \A d \in Conn : (Readable(d) => Readable(d)') /\ (Gone(d) => Gone(d)')
    BY <2>1, <2>2 DEF Readable, Gone
  <2>5. ASSUME inflight \in [Conn -> Taken]
        PROVE  inflight' \in [Conn -> Taken] /\ \A d \in Conn : Writable(d) => Writable(d)'
    <3>1. \A d \in Conn : inflight[d] \in Int /\ inflight[d] <= SndBuf
      BY <2>5 DEF Taken
    <3>2. inflight' \in [Conn -> Taken]
      BY <2>1, <2>5, SizeAssumption DEF Taken
    <3>3. \A d \in Conn : inflight'[d] = inflight[d] \/ (d = c /\ Gone(d)')
      BY <2>1, <2>5
    <3>. QED  BY <2>4, <3>2, <3>3 DEF Writable, Room
  <2>. QED  BY <2>1, <2>3, <2>4, <2>5
<1>5. CASE ClientRead(c)
  <2>1. inflight' = [inflight EXCEPT ![c] = @ - 1] /\ UNCHANGED <<fdtab, backlog, stage, peer, rx, sent, out>>
    BY <1>5 DEF ClientRead
  <2>2. ASSUME inflight \in [Conn -> Taken]
        PROVE  inflight' \in [Conn -> Taken] /\ \A d \in Conn : Writable(d) => Writable(d)'
    <3>1. \A d \in Conn : inflight[d] \in Int /\ inflight[d] <= SndBuf
      BY <2>2 DEF Taken
    <3>2. inflight' \in [Conn -> Taken]
      BY <2>1, <2>2, <3>1, SizeAssumption DEF Taken
    <3>3. \A d \in Conn : inflight'[d] \in {inflight[d], inflight[d] - 1}
      BY <2>1, <2>2
    <3>. QED  BY <2>1, <3>1, <3>2, <3>3, SizeAssumption DEF Writable, Room, Gone
  <2>. QED  BY <1>1, <2>1, <2>2 DEF SockInv, SockTypes, Readable
<1>. QED  BY <1>2, <1>3, <1>4, <1>5 DEF Client

LEMMA ClientKeeps ==
    ASSUME Loops, LoopInv, NEW c \in Conn, Client(c), UNCHANGED <<loopVars, ownVars>>
    PROVE  LoopInv'
<1>1. /\ UNCHANGED <<program, fds, ready, maxfd, i, pc, ret, left, alive>>
      /\ UNCHANGED <<origin_wfd, wfds, outs, rlength>>
  BY DEF loopVars, ownVars, selectVars, itemVars
<1>2. /\ SockInv' /\ fdtab' = fdtab /\ (backlog # <<>> => backlog' # <<>>)
      /\ \A d \in Conn : Readable(d) => Readable(d)'
      /\ inflight \in [Conn -> Taken] =>
            inflight' \in [Conn -> Taken] /\ \A d \in Conn : Writable(d) => Writable(d)'
  BY ClientSockets DEF LoopInv
<1>3. LoopTypes' /\ PlaceInv' /\ WatchInv'
  BY <1>1, <1>2 DEF LoopInv, LoopTypes, ReactorTypes, PlaceInv, WatchInv, Tidy, Batched, Writing
<1>4. \A fd \in Fd : Good(fd) => Good(fd)'
  <2>1. \A fd \in Fd : fdtab[fd] # NoConn => fdtab[fd] \in Conn
    BY DEF LoopInv, SockInv, SockTypes
  <2>. QED  BY <1>1, <1>2, <2>1 DEF Good, LoopInv, LoopTypes, ReactorTypes
<1>5. PendingInv'
  BY <1>1, <1>2, <1>4 DEF LoopInv, PendingInv, ToCome, Batched
<1>. QED  BY <1>2, <1>3, <1>5 DEF LoopInv

-----------------------------------------------------------------------------
(* What the steps of all loops have in common *)

\* A descriptor the call was not for stays as good as it was.
LEMMA OthersStayGood ==
    ASSUME LoopInv, NEW fd \in Fd, fdtab[fd] # NoConn, Touches(fd), program' = program,
           NEW g \in Fd \ {fd}, Good(g), g \in outs <=> g \in outs'
    PROVE  Good(g)'
<1>1. fdtab'[g] = fdtab[g] /\ fdtab[g] \in Conn \ {fdtab[fd]}
  BY DEF LoopInv, SockInv, SockTypes, Touches, Good
<1>2. Readable(fdtab[g]) => Readable(fdtab[g])'
  BY <1>1 DEF Touches, Readable
<1>3. program = "reactor" /\ Writable(fdtab[g]) => Writable(fdtab[g])'
  BY <1>1 DEF Touches, Writable, Room, Gone, LoopInv, LoopTypes, ReactorTypes
<1>. QED  BY <1>1, <1>2, <1>3 DEF Good

\* accept(), and the new descriptor is watched.
LEMMA WatchKeeps ==
    ASSUME LoopInv, NEW fd \in Fd, Watch(fd), UNCHANGED <<program, origin_wfd, outs>>
    PROVE  /\ SockInv' /\ WatchInv' /\ fds' \subseteq Fd /\ maxfd' \in Int /\ inflight' = inflight
           /\ \A g \in Fd : Good(g) => Good(g)'
           /\ \A g \in Fd : fdtab[g] # NoConn => fdtab'[g] # NoConn
<1>1. /\ SockInv' /\ fdtab' = [fdtab EXCEPT ![fd] = Head(backlog)] /\ Head(backlog) \in Conn
      /\ fdtab[fd] = NoConn /\ \A g \in Fd : g < fd => fdtab[g] # NoConn
      /\ UNCHANGED <<peer, rx, inflight>>
      /\ fds' = fds \cup {fd} /\ maxfd' = Max2(fd, maxfd)
  BY AcceptSockets DEF Watch, LoopInv
<1>2. /\ fdtab \in [Fd -> Conn \cup {NoConn}] /\ fds \subseteq Fd /\ maxfd \in Int /\ Fd \subseteq Int
  BY FdFacts DEF LoopInv, SockInv, SockTypes, LoopTypes
<1>3. fdtab'[fd] # NoConn /\ \A g \in Fd \ {fd} : fdtab'[g] = fdtab[g]
  BY <1>1, <1>2, ConnAssumption
<1>4. \A g \in Fd : Good(g) => Good(g)'
  BY <1>1, <1>3 DEF Good, Readable, Writable, Room, Gone
<1>5. fds' \subseteq Fd /\ maxfd' \in Int /\ maxfd' >= maxfd /\ maxfd' >= fd
      /\ \A g \in Fd : g <= maxfd' => g <= maxfd \/ g <= fd
  BY <1>1, <1>2 DEF Max2
<1>6. \A g \in Fd : g <= maxfd' => g <= maxfd \/ g = fd
  BY <1>1, <1>2, <1>5 DEF LoopInv, WatchInv, Tidy
<1>7. Writing' = Writing
  BY DEF Writing
<1>8. \A g \in Fd : g <= maxfd' => (fdtab'[g] # NoConn <=> g \in fds' \cup Writing')
  BY <1>1, <1>3, <1>6, <1>7 DEF LoopInv, WatchInv, Tidy
<1>9. \A g \in Fd : g > maxfd' => fdtab'[g] = NoConn /\ g \notin fds' /\ g \notin outs'
  BY <1>1, <1>2, <1>3, <1>5 DEF LoopInv, WatchInv, Tidy
<1>10. Tidy' => fds' \cap Writing' = {} /\ \A g \in origin_wfd' : g <= maxfd'
  <2>1. Tidy' => fds \cap Writing = {} /\ \A g \in origin_wfd : g <= maxfd
    BY DEF LoopInv, WatchInv, Tidy
  <2>2. Tidy' => fd \notin Writing
    BY <1>1, <1>2, <2>1 DEF LoopInv, WatchInv, Tidy, Writing
  <2>3. origin_wfd \subseteq Fd
    BY DEF LoopInv, LoopTypes
  <2>. QED  BY <1>1, <1>2, <1>5, <1>7, <2>1, <2>2, <2>3
<1>. QED  BY <1>1, <1>3, <1>4, <1>5, <1>8, <1>9, <1>10 DEF WatchInv, Tidy

LEMMA ReportedGood ==
    ASSUME LoopInv, NEW fd \in Reported
    PROVE  \/ fd = ListenFd /\ backlog # <<>>
           \/ fd \in Fd /\ fd \in fds /\ fdtab[fd] # NoConn /\ Readable(fdtab[fd])
  BY DEF Reported, LoopInv, LoopTypes, WatchInv, Tidy

\* What is to come after a call on i is as it was.
LEMMA RestStaysGood ==
    ASSUME LoopInv, i \in Fd, fdtab[i] # NoConn, Touches(i), UNCHANGED <<program, outs>>,
           pc # "wait",
           NEW g \in Fd, g # i, ToCome(g)
    PROVE  Good(g)'
<1>1. Good(g)
  BY DEF LoopInv, PendingInv
<1>. QED  BY <1>1, OthersStayGood

\* close() leaves the others as they were.
LEMMA CloseKeeps ==
    ASSUME LoopInv, NEW fd \in Fd, fdtab[fd] # NoConn, RecvEndClose(fd), fds' = fds \ {fd},
           origin_wfd' = origin_wfd \ {fd}, UNCHANGED <<program, maxfd>>,
           outs' = outs, fd \notin outs
    PROVE  /\ SockInv' /\ WatchInv' /\ inflight' = inflight /\ backlog' = backlog
           /\ \A g \in Fd \ {fd} : Good(g) => Good(g)'
           /\ \A g \in Fd \ {fd} : fdtab'[g] = fdtab[g]
<1>1. /\ SockInv' /\ fdtab' = [fdtab EXCEPT ![fd] = NoConn]
      /\ UNCHANGED <<backlog, peer, rx, inflight>>
  BY CloseSockets DEF LoopInv
<1>2. fdtab \in [Fd -> Conn \cup {NoConn}] /\ Fd \subseteq Int
  BY FdFacts DEF LoopInv, SockInv, SockTypes
<1>3. fdtab'[fd] = NoConn /\ \A g \in Fd \ {fd} : fdtab'[g] = fdtab[g]
  BY <1>1, <1>2
<1>4. \A g \in Fd \ {fd} : Good(g) => Good(g)'
  BY <1>1, <1>3 DEF Good, Readable, Writable, Room, Gone
<1>5. Writing' = Writing \ {fd}
  BY DEF Writing
<1>6. WatchInv'
  BY <1>3, <1>5 DEF LoopInv, WatchInv, Tidy
<1>. QED  BY <1>1, <1>3, <1>4, <1>6

-----------------------------------------------------------------------------
(* The loops on poll() *)

LEMMA PollTypes ==
    ASSUME program' \in {"server4", "server5"}, ready' \subseteq Fd \cup {ListenFd}, fds' \subseteq Fd,
           origin_wfd' = {}, wfds' = {}, outs' = {}, maxfd' \in Int, i' \in Int, i' > ListenFd,
           pc' \in {"wait", "accept", "read", "send"}
    PROVE  LoopTypes'
<1>1. program' # "reactor"
  OBVIOUS
<1>2. ReactorTypes'
  BY <1>1 DEF ReactorTypes
<1>. QED  BY <1>2 DEF LoopTypes

LEMMA PollKeeps ==
    ASSUME Loops, LoopInv, program \in {"server4", "server5"}, PollStep,
           UNCHANGED <<selectVars, itemVars, threadVars>>
    PROVE  LoopInv'
<1>1. /\ origin_wfd = {} /\ wfds = {} /\ outs = {} /\ ~Batched /\ Writing = origin_wfd
      /\ UNCHANGED <<origin_wfd, wfds, outs>>
  BY DEF LoopInv, LoopTypes, Batched, Writing, selectVars, itemVars
<1>2. ready \subseteq Fd \cup {ListenFd} /\ i \in Int /\ i > ListenFd /\ maxfd \in Int
      /\ fds \subseteq Fd
  BY DEF LoopInv, LoopTypes
<1>3. CASE Poll
  <2>1. /\ ready' = Reported /\ pc' \in {"accept", "read"} /\ i' = ListenFd + 1
        /\ (pc' = "accept" => ListenFd \in Reported)
        /\ UNCHANGED <<sockVars, program, fds, maxfd>>
    BY <1>3 DEF Poll
  <2>2. UNCHANGED <<fdtab, backlog, stage, peer, rx, inflight, sent, out>>
    BY <2>1 DEF sockVars
  <2>3. SockInv' /\ WatchInv'
    BY <1>1, <2>1, <2>2 DEF LoopInv, SockInv, SockTypes, WatchInv, Tidy, Writing
  <2>4. LoopTypes'
    BY <1>1, <1>2, <2>1, ReportedGood, FdFacts DEF LoopTypes, ReactorTypes
  <2>5. PlaceInv'
    <3>1. ListenFd \in Reported => backlog # <<>>
      BY ReportedGood, FdFacts
    <3>. QED  BY <1>1, <2>1, <2>2, <3>1 DEF PlaceInv, Batched
  <2>6. PendingInv'
    <3>1. ASSUME NEW fd \in Fd, ToCome(fd)' PROVE Good(fd)'
      <4>1. fd \in Reported /\ fd # ListenFd
        BY <2>1, <3>1 DEF ToCome
      <4>. QED  BY <1>1, <2>1, <2>2, <4>1, ReportedGood DEF Good, Readable
    <3>. QED  BY <1>1, <3>1 DEF PendingInv
  <2>. QED  BY <2>3, <2>4, <2>5, <2>6 DEF LoopInv
<1>4. CASE PollAccept
  <2>1. PICK fd \in Fd : Watch(fd)
    BY <1>4 DEF PollAccept
  <2>2. pc = "accept" /\ pc' \in {"read", "wait"} /\ UNCHANGED <<program, ready, i>>
    BY <1>4 DEF PollAccept
  <2>3. /\ SockInv' /\ WatchInv' /\ fds' \subseteq Fd /\ maxfd' \in Int
        /\ \A g \in Fd : Good(g) => Good(g)'
    BY <1>1, <2>1, <2>2, WatchKeeps
  <2>4. LoopTypes'
    BY <1>1, <1>2, <2>2, <2>3 DEF LoopTypes, ReactorTypes
  <2>5. PlaceInv'
    BY <2>2 DEF PlaceInv
  <2>6. PendingInv'
    BY <1>1, <2>2, <2>3 DEF LoopInv, PendingInv, ToCome, Batched
  <2>. QED  BY <2>3, <2>4, <2>5, <2>6 DEF LoopInv
<1>5. CASE ScanEnd \/ Skip
  <2>1. /\ pc = "read" /\ pc' \in {"read", "wait"} /\ i' \in {i, i + 1} /\ (i' = i => pc' = "wait")
        /\ UNCHANGED <<sockVars, program, fds, ready, maxfd>>
    BY <1>2, <1>5 DEF ScanEnd, Skip, Handled
  <2>2. UNCHANGED <<fdtab, backlog, stage, peer, rx, inflight, sent, out>>
    BY <2>1 DEF sockVars
  <2>3. LoopTypes'
    BY <1>1, <1>2, <2>1, FdFacts, PollTypes
  <2>5. SockInv' /\ WatchInv' /\ PlaceInv'
    BY <1>1, <2>1, <2>2 DEF LoopInv, SockInv, SockTypes, WatchInv, Tidy, Writing, PlaceInv
  <2>4. PendingInv'
    <3>1. ASSUME NEW fd \in Fd, pc' # "wait", ToCome(fd)' PROVE Good(fd)'
      <4>1. ToCome(fd)
        BY <1>1, <1>2, <2>1, <3>1, FdFacts DEF ToCome, Batched
      <4>2. Good(fd)
        BY <2>1, <4>1 DEF LoopInv, PendingInv
      <4>. QED  BY <1>1, <2>1, <2>2, <4>2 DEF Good, Readable, Writable, Room, Gone
    <3>. QED  BY <1>1, <3>1 DEF PendingInv
  <2>. QED  BY <2>3, <2>4, <2>5 DEF LoopInv
<1>6. ASSUME Scanning PROVE i \in Fd /\ fdtab[i] # NoConn /\ pc = "read"
  <2>1. i \in Fd /\ pc = "read" /\ i \in ready
    BY <1>2, <1>6, FdFacts DEF Scanning
  <2>2. ToCome(i)
    BY <2>1, FdFacts DEF ToCome
  <2>. QED  BY <2>1, <2>2 DEF LoopInv, PendingInv, Good
\* A call on i after which the loop stays at i to send, or goes on.
<1>7. ASSUME i \in Fd, fdtab[i] # NoConn, pc # "wait", Touches(i), UNCHANGED <<program, fds, ready, maxfd>>,
             \/ pc' = "send" /\ i' = i
             \/ pc' \in {"read", "wait"} /\ i' = i + 1
      PROVE  LoopInv'
  <2>1. SockInv' /\ UNCHANGED <<fdtab, backlog>>
    BY <1>7 DEF Touches
  <2>2. WatchInv' /\ PlaceInv'
    BY <1>1, <1>7, <2>1 DEF LoopInv, WatchInv, Tidy, Writing, PlaceInv, Batched
  <2>5. LoopTypes'
    BY <1>1, <1>2, <1>7, FdFacts, PollTypes
  <2>3. ASSUME NEW g \in Fd, ToCome(g)' PROVE Good(g)'
    <3>1. g # i /\ ToCome(g)
      BY <1>1, <1>2, <1>7, <2>3, FdFacts DEF ToCome, Batched
    <3>. QED  BY <1>1, <1>7, <3>1, RestStaysGood
  <2>4. PendingInv'
    BY <1>1, <2>3 DEF PendingInv
  <2>. QED  BY <2>1, <2>2, <2>4, <2>5 DEF LoopInv
<1>8. CASE ScanRecv
  <2>1. Touches(i)
    BY <1>6, <1>8, RecvTouches DEF ScanRecv, LoopInv
  <2>. QED  BY <1>6, <1>7, <1>8, <2>1 DEF ScanRecv
<1>9. CASE ScanError
  <2>1. Touches(i)
    BY <1>6, <1>9, ErrorTouches DEF ScanError, RecvError, LoopInv
  <2>. QED  BY <1>6, <1>7, <1>9, <2>1 DEF ScanError, Handled
<1>10. CASE ScanClose
  <2>1. /\ i \in Fd /\ fdtab[i] # NoConn /\ pc = "read" /\ RecvEndClose(i)
        /\ fds' = fds \ {i} /\ i' = i + 1 /\ pc' \in {"read", "wait"}
        /\ UNCHANGED <<program, ready, maxfd>>
    BY <1>6, <1>10 DEF ScanClose, Handled
  <2>2. /\ SockInv' /\ WatchInv' /\ \A g \in Fd \ {i} : Good(g) => Good(g)'
    BY <1>1, <2>1, CloseKeeps
  <2>3. LoopTypes'
    BY <1>1, <1>2, <2>1, FdFacts, PollTypes
  <2>6. PlaceInv'
    BY <2>1 DEF PlaceInv
  <2>4. ASSUME NEW g \in Fd, ToCome(g)' PROVE Good(g)'
    <3>1. g # i /\ ToCome(g)
      BY <1>1, <1>2, <2>1, <2>4, FdFacts DEF ToCome, Batched
    <3>2. Good(g)
      BY <2>1, <3>1 DEF LoopInv, PendingInv
    <3>. QED  BY <2>2, <3>1, <3>2
  <2>5. PendingInv'
    BY <1>1, <2>4 DEF PendingInv
  <2>. QED  BY <2>2, <2>3, <2>5, <2>6 DEF LoopInv
<1>11. CASE ScanSend
  <2>1. pc = "send" /\ i \in Fd /\ fdtab[i] # NoConn
    BY <1>11 DEF ScanSend, Sending, LoopInv, PlaceInv
  <2>2. Touches(i)
    BY <1>11, <2>1, SendTouches, SendErrorTouches DEF ScanSend, Sending, TakeBytes, LoopInv
  <2>3. /\ UNCHANGED <<program, fds, ready, maxfd>>
        /\ \/ pc' = "send" /\ i' = i
           \/ pc' \in {"read", "wait"} /\ i' = i + 1
    BY <1>11, <2>1 DEF ScanSend, Sending, Handled
  <2>. QED  BY <1>7, <2>1, <2>2, <2>3
<1>12. CASE SendKilled
  <2>1. /\ UNCHANGED <<fdtab, backlog, stage, peer, rx, inflight, sent, out>>
        /\ UNCHANGED <<program, fds, ready, maxfd, i, pc, left>>
    BY <1>12 DEF SendKilled, sockVars
  <2>. QED
    BY <1>1, <2>1 DEF LoopInv, SockInv, SockTypes, WatchInv, Tidy, Writing, LoopTypes, ReactorTypes,
                      PlaceInv, PendingInv, ToCome, Good, Batched, Readable, Writable, Room, Gone
<1>. QED
  BY <1>3, <1>4, <1>5, <1>8, <1>9, <1>10, <1>11, <1>12 DEF PollStep

-----------------------------------------------------------------------------
(* The loop on select() *)

LEMMA SelectTypes ==
    ASSUME program' = "server3", ready' \subseteq Fd \cup {ListenFd}, fds' \subseteq Fd,
           origin_wfd' \subseteq Fd, wfds' \subseteq Fd, outs' = {}, maxfd' \in Int,
           i' \in Int, i' > ListenFd, pc' \in {"wait", "accept", "read", "write", "send"}
    PROVE  LoopTypes'
<1>1. ReactorTypes'
  BY DEF ReactorTypes
<1>. QED  BY <1>1 DEF LoopTypes

LEMMA SelectKeeps ==
    ASSUME Loops, LoopInv, program = "server3", SelectStep,
           UNCHANGED <<itemVars, threadVars>>
    PROVE  LoopInv'
<1>1. outs = {} /\ outs' = {} /\ ~Batched /\ Writing = origin_wfd
  BY DEF LoopInv, LoopTypes, Batched, Writing, itemVars
<1>2. /\ ready \subseteq Fd \cup {ListenFd} /\ i \in Int /\ i > ListenFd /\ maxfd \in Int
      /\ fds \subseteq Fd /\ origin_wfd \subseteq Fd /\ wfds \subseteq Fd
  BY DEF LoopInv, LoopTypes
<1>3. CASE Select
  <2>1. /\ ready' = Reported /\ pc' \in {"accept", "read"} /\ i' = ListenFd + 1
        /\ (pc' = "accept" => ListenFd \in Reported)
        /\ wfds' = {fd \in origin_wfd : fd <= maxfd /\ Writable(fdtab[fd])}
        /\ UNCHANGED <<sockVars, program, fds, origin_wfd, maxfd>>
    BY <1>3 DEF Select
  <2>2. UNCHANGED <<fdtab, backlog, stage, peer, rx, inflight, sent, out>>
    BY <2>1 DEF sockVars
  <2>3. SockInv' /\ WatchInv'
    BY <1>1, <2>1, <2>2 DEF LoopInv, SockInv, SockTypes, WatchInv, Tidy, Writing
  <2>4. Reported \subseteq Fd \cup {ListenFd}
    BY ReportedGood
  <2>5. LoopTypes'
    <3>1. wfds' \subseteq Fd /\ pc' \in {"accept", "read"} /\ i' = ListenFd + 1
          /\ ready' = Reported /\ UNCHANGED <<program, fds, origin_wfd, maxfd>>
      BY <1>2, <2>1
    <3>. QED  BY <1>1, <1>2, <2>4, <3>1, FdFacts, SelectTypes
  <2>6. PlaceInv'
    <3>1. ListenFd \in Reported => backlog # <<>>
      BY ReportedGood, FdFacts
    <3>. QED  BY <1>1, <2>1, <2>2, <3>1 DEF PlaceInv, Batched
  <2>7. PendingInv'
    <3>1. ASSUME NEW fd \in Fd, ToCome(fd)' PROVE Good(fd)'
      <4>1. fd \in Reported /\ fd # ListenFd
        BY <2>1, <3>1 DEF ToCome
      <4>. QED  BY <1>1, <2>1, <2>2, <4>1, ReportedGood DEF Good, Readable
    <3>2. \A fd \in wfds' : fdtab'[fd] # NoConn
      BY <1>1, <1>2, <2>1, <2>2 DEF LoopInv, WatchInv, Tidy
    <3>. QED  BY <3>1, <3>2 DEF PendingInv
  <2>. QED  BY <2>3, <2>5, <2>6, <2>7 DEF LoopInv
<1>4. CASE SelectAccept
  <2>1. PICK fd \in Fd : Watch(fd)
    BY <1>4 DEF SelectAccept
  <2>2. pc = "accept" /\ pc' = "read" /\ UNCHANGED <<program, origin_wfd, wfds, ready, i>>
    BY <1>4 DEF SelectAccept, selectVars
  <2>3. /\ SockInv' /\ WatchInv' /\ fds' \subseteq Fd /\ maxfd' \in Int
        /\ \A g \in Fd : Good(g) => Good(g)'
        /\ \A g \in Fd : fdtab[g] # NoConn => fdtab'[g] # NoConn
    BY <1>1, <2>1, <2>2, WatchKeeps
  <2>4. LoopTypes'
    BY <1>1, <1>2, <2>2, <2>3, SelectTypes
  <2>5. PlaceInv'
    BY <2>2 DEF PlaceInv
  <2>6. PendingInv'
    <3>1. \A g \in Fd : ToCome(g)' => Good(g)'
      BY <1>1, <2>2, <2>3 DEF LoopInv, PendingInv, ToCome, Batched
    <3>2. \A g \in wfds' : g >= i' => fdtab'[g] # NoConn
      BY <1>2, <2>2, <2>3 DEF LoopInv, PendingInv
    <3>. QED  BY <3>1, <3>2 DEF PendingInv
  <2>. QED  BY <2>3, <2>4, <2>5, <2>6 DEF LoopInv
\* A step between two calls.
<1>5. ASSUME pc # "wait", UNCHANGED <<sockVars, program, fds, origin_wfd, wfds, ready, maxfd>>,
             \/ i' = i /\ pc' = "write" /\ pc # "send"
             \/ i' = i + 1 /\ pc' = "read"
             \/ i' = i /\ pc' \in {"wait", "send"} /\ (pc' = "send" => i \in wfds)
      PROVE  LoopInv'
  <2>1. UNCHANGED <<fdtab, backlog, stage, peer, rx, inflight, sent, out>>
    BY <1>5 DEF sockVars
  <2>2. SockInv' /\ WatchInv'
    BY <1>1, <1>5, <2>1 DEF LoopInv, SockInv, SockTypes, WatchInv, Tidy, Writing
  <2>3. LoopTypes'
    BY <1>1, <1>2, <1>5, FdFacts, SelectTypes
  <2>4. PlaceInv'
    BY <1>1, <1>2, <1>5, <2>1 DEF LoopInv, PendingInv, PlaceInv, Batched
  <2>5. ASSUME NEW fd \in Fd, ToCome(fd)' PROVE Good(fd)'
    <3>1. ToCome(fd)
      BY <1>1, <1>2, <1>5, <2>5, FdFacts DEF ToCome, Batched
    <3>2. Good(fd)
      BY <1>5, <3>1 DEF LoopInv, PendingInv
    <3>. QED  BY <1>1, <1>5, <2>1, <3>2 DEF Good, Readable
  <2>6. \A fd \in wfds' : fd >= i' => fdtab'[fd] # NoConn
    BY <1>2, <1>5, <2>1, FdFacts DEF LoopInv, PendingInv
  <2>7. PendingInv'
    BY <2>5, <2>6 DEF PendingInv
  <2>. QED  BY <2>2, <2>3, <2>4, <2>7 DEF LoopInv
<1>6. CASE LoopEnd \/ NotReadable \/ NotWritable \/ WriteStart
  BY <1>5, <1>6 DEF LoopEnd, NotReadable, NotWritable, WriteStart, selectVars
<1>7. ASSUME Reading PROVE i \in Fd /\ fdtab[i] # NoConn /\ pc = "read"
  <2>1. i \in Fd /\ pc = "read" /\ i \in ready
    BY <1>2, <1>7, FdFacts DEF Reading
  <2>2. ToCome(i)
    BY <2>1, FdFacts DEF ToCome
  <2>. QED  BY <2>1, <2>2 DEF LoopInv, PendingInv, Good
\* A call on i, which goes on being watched for one thing or the other.
<1>8. ASSUME i \in Fd, fdtab[i] # NoConn, pc # "wait", Touches(i), UNCHANGED <<program, wfds, ready, maxfd>>,
             \/ UNCHANGED <<fds, origin_wfd>>
             \/ fds' = fds \ {i} /\ origin_wfd' = origin_wfd \cup {i}
             \/ fds' = fds \cup {i} /\ origin_wfd' = origin_wfd \ {i},
             \/ i' = i /\ pc' \in {"write", "send"}
             \/ i' = i + 1 /\ pc' = "read"
      PROVE  LoopInv'
  <2>1. SockInv' /\ UNCHANGED <<fdtab, backlog>>
    BY <1>8 DEF Touches
  <2>2. Writing' = origin_wfd' /\ i <= maxfd
    BY <1>1, <1>2, <1>8, FdFacts DEF LoopInv, WatchInv, Tidy, Writing
  <2>3. fds' \subseteq Fd /\ origin_wfd' \subseteq Fd
        /\ \A g \in Fd \ {i} : (g \in fds' <=> g \in fds) /\ (g \in origin_wfd' <=> g \in origin_wfd)
        /\ (i \in fds \cup origin_wfd => i \in fds' \cup origin_wfd')
        /\ (fds \cap origin_wfd = {} => fds' \cap origin_wfd' = {})
    BY <1>2, <1>8
  <2>4. WatchInv'
    <3>1. \A g \in Fd : g <= maxfd' => (fdtab'[g] # NoConn <=> g \in fds' \cup Writing')
      BY <1>1, <1>8, <2>1, <2>2, <2>3 DEF LoopInv, WatchInv, Tidy
    <3>2. \A g \in Fd : g > maxfd' => fdtab'[g] = NoConn /\ g \notin fds' /\ g \notin outs'
      BY <1>1, <1>8, <2>1, <2>2, <2>3, FdFacts DEF LoopInv, WatchInv, Tidy
    <3>3. Tidy' => fds' \cap Writing' = {} /\ \A g \in origin_wfd' : g <= maxfd'
      BY <1>1, <1>8, <2>2, <2>3 DEF LoopInv, WatchInv, Tidy
    <3>. QED  BY <3>1, <3>2, <3>3 DEF WatchInv, Tidy
  <2>5. LoopTypes'
    BY <1>1, <1>2, <1>8, <2>3, FdFacts, SelectTypes
  <2>6. PlaceInv'
    BY <1>1, <1>8, <2>1 DEF PlaceInv, Batched
  <2>7. ASSUME NEW g \in Fd, ToCome(g)' PROVE Good(g)'
    <3>1. g # i /\ ToCome(g)
      BY <1>1, <1>2, <1>8, <2>7, FdFacts DEF ToCome, Batched
    <3>. QED  BY <1>1, <1>8, <3>1, RestStaysGood
  <2>8. \A g \in wfds' : g >= i' => fdtab'[g] # NoConn
    BY <1>2, <1>8, <2>1, FdFacts DEF LoopInv, PendingInv
  <2>9. PendingInv'
    BY <2>7, <2>8 DEF PendingInv
  <2>. QED  BY <2>1, <2>4, <2>5, <2>6, <2>9 DEF LoopInv
<1>9. CASE ReadOk
  <2>1. Touches(i)
    BY <1>7, <1>9, RecvTouches DEF ReadOk, LoopInv
  <2>. QED  BY <1>7, <1>8, <1>9, <2>1 DEF ReadOk
<1>10. CASE ReadError
  <2>1. Touches(i)
    BY <1>7, <1>10, ErrorTouches DEF ReadError, RecvError, LoopInv
  <2>. QED  BY <1>7, <1>8, <1>10, <2>1 DEF ReadError, selectVars
<1>11. CASE ReadClose
  <2>1. /\ i \in Fd /\ fdtab[i] # NoConn /\ RecvEndClose(i)
        /\ fds' = fds \ {i} /\ origin_wfd' = origin_wfd \ {i} /\ pc' = "wait"
        /\ UNCHANGED <<program, ready, wfds, maxfd, i>>
    BY <1>7, <1>11 DEF ReadClose
  <2>2. SockInv' /\ WatchInv'
    BY <1>1, <2>1, CloseKeeps
  <2>3. LoopTypes'
    BY <1>1, <1>2, <2>1, SelectTypes
  <2>4. PlaceInv' /\ PendingInv'
    BY <2>1 DEF PlaceInv, PendingInv
  <2>. QED  BY <2>2, <2>3, <2>4 DEF LoopInv
<1>12. CASE SelectSend
  <2>1. pc = "send" /\ i \in Fd /\ fdtab[i] # NoConn
    BY <1>12 DEF SelectSend, Sending, LoopInv, PlaceInv
  <2>2. Touches(i)
    BY <1>12, <2>1, SendTouches, SendErrorTouches DEF SelectSend, Sending, TakeBytes, LoopInv
  <2>3. /\ UNCHANGED <<program, ready, wfds, maxfd>>
        /\ \/ pc' = "send" /\ i' = i /\ UNCHANGED <<fds, origin_wfd>>
           \/ pc' = "read" /\ i' = i + 1 /\ fds' = fds \cup {i} /\ origin_wfd' = origin_wfd \ {i}
    BY <1>12, <2>1 DEF SelectSend, Sending, Written, selectVars
  <2>. QED  BY <1>8, <2>1, <2>2, <2>3
<1>13. CASE SendKilled /\ UNCHANGED selectVars
  <2>1. /\ UNCHANGED <<fdtab, backlog, stage, peer, rx, inflight, sent, out>>
        /\ UNCHANGED <<program, fds, ready, maxfd, i, pc, origin_wfd, wfds>>
    BY <1>13 DEF SendKilled, sockVars, selectVars
  <2>2. SockInv' /\ WatchInv' /\ PlaceInv'
    BY <1>1, <2>1 DEF LoopInv, SockInv, SockTypes, WatchInv, Tidy, Writing, PlaceInv, Batched
  <2>3. LoopTypes'
    BY <1>1, <2>1, SelectTypes DEF LoopInv, LoopTypes
  <2>4. PendingInv'
    BY <1>1, <2>1 DEF LoopInv, PendingInv, ToCome, Good, Batched, Readable
  <2>. QED  BY <2>2, <2>3, <2>4 DEF LoopInv
<1>. QED
  BY <1>3, <1>4, <1>6, <1>9, <1>10, <1>11, <1>12, <1>13 DEF SelectStep

-----------------------------------------------------------------------------
(* The loops on epoll *)

\* One event of the batch was handled, or send() went on.
LEMMA BatchKeeps ==
    ASSUME LoopInv, Batched, pc # "wait", program' = program, NEW fd \in Fd \cup {ListenFd},
           SockInv', WatchInv', LoopTypes', ready' \ {ListenFd} \subseteq ready \ {fd},
           \A g \in Fd \ {fd} : Good(g) => Good(g)',
           pc' \in {"wait", "read"} \/ (pc' = "send" /\ fd \in Fd /\ i' = fd /\ fdtab'[fd] # NoConn)
    PROVE  LoopInv'
<1>1. Batched' /\ program' # "server3"
  BY DEF Batched
<1>2. PlaceInv'
  BY <1>1, FdFacts DEF PlaceInv
<1>3. ASSUME NEW g \in Fd, ToCome(g)' PROVE Good(g)'
  <2>1. g # fd /\ ToCome(g)
    BY <1>3, FdFacts DEF ToCome
  <2>. QED  BY <2>1 DEF LoopInv, PendingInv
<1>4. wfds' = {}
  BY <1>1 DEF LoopTypes
<1>5. PendingInv'
  BY <1>3, <1>4 DEF PendingInv
<1>. QED  BY <1>2, <1>5 DEF LoopInv

LEMMA EpollTypes ==
    ASSUME program' = "server6", ready' \subseteq Fd \cup {ListenFd}, fds' \subseteq Fd,
           origin_wfd' = {}, wfds' = {}, outs' = {}, maxfd' \in Int, i' \in Int, i' > ListenFd,
           pc' \in {"wait", "read", "send"}
    PROVE  LoopTypes'
<1>1. ReactorTypes'
  BY DEF ReactorTypes
<1>. QED  BY <1>1 DEF LoopTypes

LEMMA EpollKeeps ==
    ASSUME Loops, LoopInv, program = "server6", EpollStep, UNCHANGED ownVars
    PROVE  LoopInv'
<1>1. /\ origin_wfd = {} /\ wfds = {} /\ outs = {} /\ Batched /\ Writing = origin_wfd
      /\ UNCHANGED <<origin_wfd, wfds, outs>>
  BY DEF LoopInv, LoopTypes, Batched, Writing, ownVars, selectVars, itemVars
<1>2. ready \subseteq Fd \cup {ListenFd} /\ i \in Int /\ i > ListenFd /\ maxfd \in Int
      /\ fds \subseteq Fd
  BY DEF LoopInv, LoopTypes
<1>3. CASE EpollWait
  <2>1. /\ ready' = Reported /\ pc' = "read" /\ i' = i
        /\ UNCHANGED <<sockVars, program, fds, maxfd>>
    BY <1>3 DEF EpollWait
  <2>2. UNCHANGED <<fdtab, backlog, stage, peer, rx, inflight, sent, out>>
    BY <2>1 DEF sockVars
  <2>3. SockInv' /\ WatchInv'
    BY <1>1, <2>1, <2>2 DEF LoopInv, SockInv, SockTypes, WatchInv, Tidy, Writing
  <2>4. Reported \subseteq Fd \cup {ListenFd}
    BY ReportedGood
  <2>5. LoopTypes'
    BY <1>1, <1>2, <2>1, <2>4, EpollTypes
  <2>6. PlaceInv'
    BY <2>1 DEF PlaceInv
  <2>7. ASSUME NEW fd \in Fd, ToCome(fd)' PROVE Good(fd)'
    <3>1. fd \in Reported /\ fd # ListenFd
      BY <2>1, <2>7 DEF ToCome
    <3>. QED  BY <1>1, <2>1, <2>2, <3>1, ReportedGood DEF Good, Readable
  <2>8. PendingInv'
    BY <1>1, <2>7 DEF PendingInv
  <2>. QED  BY <2>3, <2>5, <2>6, <2>8 DEF LoopInv
<1>4. CASE EventAccept
  <2>1. PICK fd \in Fd : Watch(fd)
    BY <1>4 DEF EventAccept
  <2>2. /\ pc = "read" /\ pc' \in {"read", "wait"} /\ ready' = ready \ {ListenFd}
        /\ UNCHANGED <<program, i>>
    BY <1>4 DEF EventAccept, NextEvent
  <2>3. /\ SockInv' /\ WatchInv' /\ fds' \subseteq Fd /\ maxfd' \in Int
        /\ \A g \in Fd : Good(g) => Good(g)'
    BY <1>1, <2>1, <2>2, WatchKeeps
  <2>4. LoopTypes'
    BY <1>1, <1>2, <2>2, <2>3, EpollTypes
  <2>. QED  BY <1>1, <2>2, <2>3, <2>4, BatchKeeps
\* The descriptor of an event that is left.
<1>5. ASSUME NEW fd \in Fd, pc = "read", fd \in ready PROVE fdtab[fd] # NoConn
  <2>1. ToCome(fd)
    BY <1>1, <1>5, FdFacts DEF ToCome
  <2>. QED  BY <1>5, <2>1 DEF LoopInv, PendingInv, Good
\* A call on fd.
<1>6. ASSUME NEW fd \in Fd, fdtab[fd] # NoConn, pc # "wait", Touches(fd),
             UNCHANGED <<program, fds, maxfd>>, i' = fd, ready' \subseteq ready \ {fd},
             pc' \in {"wait", "read", "send"}
      PROVE  LoopInv'
  <2>1. SockInv' /\ fdtab' = fdtab
    BY <1>6 DEF Touches
  <2>2. WatchInv'
    BY <1>1, <1>6, <2>1 DEF LoopInv, WatchInv, Tidy, Writing
  <2>3. LoopTypes'
    BY <1>1, <1>2, <1>6, FdFacts, EpollTypes
  <2>4. \A g \in Fd \ {fd} : Good(g) => Good(g)'
    BY <1>1, <1>6, OthersStayGood
  <2>. QED  BY <1>1, <1>6, <2>1, <2>2, <2>3, <2>4, BatchKeeps
<1>7. ASSUME NEW fd \in Fd, EventRecv(fd) PROVE LoopInv'
  <2>1. fdtab[fd] # NoConn /\ Touches(fd)
    BY <1>5, <1>7, RecvTouches DEF EventRecv, LoopInv
  <2>. QED  BY <1>6, <1>7, <2>1 DEF EventRecv
<1>8. ASSUME NEW fd \in Fd, EventError(fd) PROVE LoopInv'
  <2>1. fdtab[fd] # NoConn /\ Touches(fd)
    BY <1>5, <1>8, ErrorTouches DEF EventError, RecvError, LoopInv
  <2>. QED  BY <1>6, <1>8, <2>1 DEF EventError, NextEvent
<1>9. ASSUME NEW fd \in Fd, EventClose(fd) PROVE LoopInv'
  <2>1. /\ fdtab[fd] # NoConn /\ pc = "read" /\ RecvEndClose(fd)
        /\ fds' = fds \ {fd} /\ i' = fd /\ ready' = ready \ {fd} /\ pc' \in {"read", "wait"}
        /\ UNCHANGED <<program, maxfd>>
    BY <1>5, <1>9 DEF EventClose, NextEvent
  <2>2. /\ SockInv' /\ WatchInv' /\ \A g \in Fd \ {fd} : Good(g) => Good(g)'
    BY <1>1, <2>1, CloseKeeps
  <2>3. LoopTypes'
    BY <1>1, <1>2, <2>1, FdFacts, EpollTypes
  <2>. QED  BY <1>1, <2>1, <2>2, <2>3, BatchKeeps
<1>10. CASE EventSend
  <2>1. pc = "send" /\ i \in Fd /\ fdtab[i] # NoConn /\ i \notin ready
    BY <1>1, <1>10 DEF EventSend, Sending, LoopInv, PlaceInv
  <2>2. Touches(i)
    BY <1>10, <2>1, SendTouches, SendErrorTouches DEF EventSend, Sending, TakeBytes, LoopInv
  <2>3. UNCHANGED <<program, fds, ready, maxfd, i>> /\ pc' \in {"send", "read", "wait"}
    BY <1>10, <2>1 DEF EventSend, Sending, NextEvent
  <2>. QED  BY <1>6, <2>1, <2>2, <2>3
<1>11. CASE SendKilled
  <2>1. /\ UNCHANGED <<fdtab, backlog, stage, peer, rx, inflight, sent, out>>
        /\ UNCHANGED <<program, fds, ready, maxfd, i, pc, left>>
    BY <1>11 DEF SendKilled, sockVars
  <2>. QED
    BY <1>1, <2>1 DEF LoopInv, SockInv, SockTypes, WatchInv, Tidy, Writing, LoopTypes, ReactorTypes,
                      PlaceInv, PendingInv, ToCome, Good, Batched, Readable, Writable, Room, Gone
<1>. QED
  BY <1>3, <1>4, <1>7, <1>8, <1>9, <1>10, <1>11 DEF EpollStep

-----------------------------------------------------------------------------
(* The first reactor *)

ItemInts == [{Item(fd) : fd \in Fd} -> Int]

LEMMA ItemTypes ==
    ASSUME program' = "reactor", ready' \subseteq Fd \cup {ListenFd}, fds' \subseteq Fd,
           origin_wfd' = {}, wfds' = {}, outs' \subseteq Fd, maxfd' \in Int, i' \in Int, i' > ListenFd,
           pc' \in {"wait", "read", "send"},
           left' \in Seq({Zero}), inflight' \in [Conn -> Taken], rlength' \in ItemInts
    PROVE  LoopTypes'
<1>1. ReactorTypes'
  BY DEF ReactorTypes, ItemInts
<1>. QED  BY <1>1 DEF LoopTypes

\* The zeroes send() is given, none for a length of -1.
LEMMA Zeroes ==
    ASSUME NEW n \in Int
    PROVE  [k \in 1..n |-> Zero] \in Seq({Zero})
<1>1. CASE n >= 0
  BY <1>1
<1>2. CASE n < 0
  <2>1. 1..n = 1..0
    BY <1>2
  <2>2. [k \in 1..0 |-> Zero] \in Seq({Zero})
    OBVIOUS
  <2>. QED  BY <2>1, <2>2
<1>. QED  BY <1>1, <1>2

\* send() takes no more than there is room for.
LEMMA TakeBytesFits ==
    ASSUME TakeBytes, fdtab[i] \in Conn, left \in Seq({Zero}), inflight \in [Conn -> Taken]
    PROVE  left' \in Seq({Zero}) /\ inflight' \in [Conn -> Taken]
<1>. DEFINE c == fdtab[i]
            k == Min2(Len(left), Room(c))
<1>1. Room(c) \in Nat /\ inflight[c] \in Int /\ Room(c) = SndBuf - inflight[c]
  BY SizeAssumption DEF Room, Taken
<1>2. k \in 0..Len(left) /\ k <= Room(c)
  BY <1>1 DEF Min2
<1>3. Len(SubSeq(left, 1, k)) = k /\ SubSeq(left, k + 1, Len(left)) \in Seq({Zero})
  BY <1>2, RestOf
<1>4. left' = SubSeq(left, k + 1, Len(left)) /\ SendSome(i, SubSeq(left, 1, k))
  BY DEF TakeBytes
<1>5. inflight' = [inflight EXCEPT ![c] = inflight[c] + k]
  BY <1>3, <1>4 DEF SendSome
<1>6. inflight[c] + k \in Taken
  BY <1>1, <1>2, SizeAssumption DEF Taken
<1>. QED  BY <1>3, <1>4, <1>5, <1>6

LEMMA ItemKeeps ==
    ASSUME Loops, LoopInv, program = "reactor", ItemStep, UNCHANGED <<selectVars, threadVars>>
    PROVE  LoopInv'
<1>1. /\ origin_wfd = {} /\ wfds = {} /\ Batched /\ Writing = outs /\ Tidy
      /\ UNCHANGED <<origin_wfd, wfds>>
  BY DEF LoopInv, LoopTypes, Batched, Writing, Tidy, selectVars
<1>2. /\ ready \subseteq Fd \cup {ListenFd} /\ i \in Int /\ i > ListenFd /\ maxfd \in Int
      /\ fds \subseteq Fd /\ outs \subseteq Fd /\ Fd \subseteq Int
      /\ left \in Seq({Zero}) /\ inflight \in [Conn -> Taken] /\ rlength \in ItemInts
  BY FdFacts DEF LoopInv, LoopTypes, ReactorTypes, ItemInts
<1>3. /\ fdtab \in [Fd -> Conn \cup {NoConn}] /\ fds \cap outs = {}
      /\ \A fd \in Fd : fdtab[fd] # NoConn => fdtab[fd] \in Conn /\ fd <= maxfd
      /\ \A fd \in outs : fdtab[fd] # NoConn
  BY <1>1, <1>2 DEF LoopInv, SockInv, SockTypes, WatchInv
<1>4. CASE ItemWait
  <2>1. /\ ready' = Reported \cup {fd \in outs : Writable(fdtab[fd])} /\ pc' = "read" /\ i' = i
        /\ UNCHANGED <<sockVars, program, fds, maxfd, outs, rlength, left>>
    BY <1>4 DEF ItemWait, itemVars
  <2>2. UNCHANGED <<fdtab, backlog, stage, peer, rx, inflight, sent, out>>
    BY <2>1 DEF sockVars
  <2>3. SockInv' /\ WatchInv'
    BY <1>1, <2>1, <2>2 DEF LoopInv, SockInv, SockTypes, WatchInv, Tidy, Writing
  <2>4. ready' \subseteq Fd \cup {ListenFd}
    <3>1. Reported \subseteq Fd \cup {ListenFd}
      BY ReportedGood
    <3>. QED  BY <1>2, <2>1, <3>1
  <2>5. LoopTypes'
    <3>1. pc' \in {"wait", "read", "send"} /\ i' \in Int /\ i' > ListenFd
          /\ UNCHANGED <<program, fds, maxfd, outs, rlength, left, inflight>>
      BY <1>2, <2>1, <2>2
    <3>. QED  BY <1>1, <1>2, <2>4, <3>1, ItemTypes
  <2>6. PlaceInv'
    BY <2>1 DEF PlaceInv
  <2>7. ASSUME NEW fd \in Fd, ToCome(fd)' PROVE Good(fd)'
    <3>1. fd \in ready' /\ fd # ListenFd
      BY <2>7 DEF ToCome
    <3>2. CASE fd \in Reported
      <4>1. fd \in fds /\ fdtab[fd] # NoConn /\ Readable(fdtab[fd])
        BY <3>1, <3>2, ReportedGood
      <4>. QED  BY <1>3, <2>1, <2>2, <4>1 DEF Good, Readable
    <3>3. CASE fd \in outs /\ Writable(fdtab[fd])
      BY <1>3, <2>1, <2>2, <3>3 DEF Good, Writable, Room, Gone
    <3>. QED  BY <2>1, <3>1, <3>2, <3>3
  <2>8. PendingInv'
    BY <1>1, <2>7 DEF PendingInv
  <2>. QED  BY <2>3, <2>5, <2>6, <2>8 DEF LoopInv
<1>5. CASE ItemAccept \/ ItemKilled
  <2>1. PICK fd \in Fd : /\ Watch(fd)
                         /\ \/ rlength' = [rlength EXCEPT ![Item(fd)] = 0]
                            \/ rlength' = rlength
    BY <1>5 DEF ItemAccept, ItemKilled, itemVars
  <2>2. /\ pc = "read" /\ pc' \in {"read", "wait"}
        /\ ready' \subseteq ready /\ UNCHANGED <<program, outs, i, left>>
    BY <1>5 DEF ItemAccept, ItemKilled, NextEvent, itemVars
  <2>3. /\ SockInv' /\ WatchInv' /\ fds' \subseteq Fd /\ maxfd' \in Int /\ inflight' = inflight
        /\ \A g \in Fd : Good(g) => Good(g)'
    BY <1>1, <2>1, <2>2, WatchKeeps
  <2>4. rlength' \in ItemInts
    BY <1>2, <2>1 DEF ItemInts
  <2>5. LoopTypes'
    BY <1>1, <1>2, <2>2, <2>3, <2>4, ItemTypes
  <2>. QED  BY <1>1, <2>2, <2>3, <2>5, BatchKeeps
<1>6. ASSUME NEW fd \in Fd, pc = "read", fd \in ready PROVE fdtab[fd] # NoConn
  <2>1. ToCome(fd)
    BY <1>1, <1>6, FdFacts DEF ToCome
  <2>. QED  BY <1>6, <2>1 DEF LoopInv, PendingInv, Good
\* A call on fd, which goes on being watched for one thing or the other.
<1>7. ASSUME NEW fd \in Fd, fdtab[fd] # NoConn, pc # "wait", Touches(fd),
             UNCHANGED <<program, maxfd>>, i' \in {i, fd}, ready' \subseteq ready \ {fd},
             \/ UNCHANGED <<fds, outs>>
             \/ fds' = fds \ {fd} /\ outs' = outs \cup {fd}
             \/ fds' = fds \cup {fd} /\ outs' = outs \ {fd},
             pc' \in {"wait", "read"} \/ (pc' = "send" /\ i' = fd),
             left' \in Seq({Zero}), inflight' \in [Conn -> Taken], rlength' \in ItemInts
      PROVE  LoopInv'
  <2>1. SockInv' /\ fdtab' = fdtab
    BY <1>7 DEF Touches
  <2>2. /\ Writing' = outs' /\ fd <= maxfd
        /\ fds' \subseteq Fd /\ outs' \subseteq Fd /\ fds' \cap outs' = {}
        /\ \A g \in Fd \ {fd} : (g \in fds' <=> g \in fds) /\ (g \in outs' <=> g \in outs)
        /\ (fd \in fds \cup outs => fd \in fds' \cup outs')
    BY <1>2, <1>3, <1>7 DEF Writing
  <2>3. WatchInv'
    <3>1. \A g \in Fd : g <= maxfd' => (fdtab'[g] # NoConn <=> g \in fds' \cup Writing')
      BY <1>1, <1>7, <2>1, <2>2 DEF LoopInv, WatchInv
    <3>2. \A g \in Fd : g > maxfd' => fdtab'[g] = NoConn /\ g \notin fds' /\ g \notin outs'
      BY <1>2, <1>7, <2>1, <2>2 DEF LoopInv, WatchInv
    <3>. QED  BY <1>1, <2>2, <3>1, <3>2 DEF WatchInv
  <2>4. LoopTypes'
    BY <1>1, <1>2, <1>7, <2>2, FdFacts, ItemTypes
  <2>5. \A g \in Fd \ {fd} : Good(g) => Good(g)'
    BY <1>7, <2>2, OthersStayGood
  <2>. QED  BY <1>1, <1>7, <2>1, <2>3, <2>4, <2>5, BatchKeeps
<1>8. ASSUME NEW fd \in Fd, ItemRecv(fd) PROVE LoopInv'
  <2>1. fdtab[fd] # NoConn /\ Touches(fd) /\ inflight' = inflight /\ Len(Data(fd)) \in Nat
    BY <1>6, <1>8, RecvTouches DEF ItemRecv, LoopInv
  <2>2. rlength' \in ItemInts
    BY <1>2, <1>8, <2>1 DEF ItemRecv, ItemInts
  <2>. QED  BY <1>2, <1>7, <1>8, <2>1, <2>2 DEF ItemRecv, NextEvent
<1>9. ASSUME NEW fd \in Fd, ItemError(fd) PROVE LoopInv'
  <2>1. fdtab[fd] # NoConn /\ Touches(fd) /\ inflight' = inflight
    BY <1>6, <1>9, ErrorTouches DEF ItemError, RecvError, LoopInv
  <2>2. rlength' \in ItemInts
    BY <1>2, <1>9 DEF ItemError, ItemInts
  <2>. QED  BY <1>2, <1>7, <1>9, <2>1, <2>2 DEF ItemError, NextEvent
<1>10. ASSUME NEW fd \in Fd, ItemClose(fd) PROVE LoopInv'
  <2>1. /\ fdtab[fd] # NoConn /\ pc = "read" /\ RecvEndClose(fd) /\ fd \notin outs
        /\ fds' = fds \ {fd} /\ ready' = ready \ {fd} /\ pc' \in {"read", "wait"}
        /\ UNCHANGED <<program, outs, maxfd, i, left>>
    BY <1>6, <1>10 DEF ItemClose, NextEvent
  <2>2. /\ SockInv' /\ WatchInv' /\ inflight' = inflight
        /\ \A g \in Fd \ {fd} : Good(g) => Good(g)'
    BY <1>1, <2>1, CloseKeeps
  <2>3. rlength' \in ItemInts
    BY <1>2, <1>10 DEF ItemClose, ItemInts
  <2>4. LoopTypes'
    BY <1>1, <1>2, <2>1, <2>2, <2>3, ItemTypes
  <2>. QED  BY <1>1, <2>1, <2>2, <2>4, BatchKeeps
<1>11. ASSUME NEW fd \in Fd, ItemWrite(fd) PROVE LoopInv'
  <2>1. /\ pc = "read" /\ fd \in ready /\ ready' = ready \ {fd} /\ i' = fd /\ pc' = "send"
        /\ UNCHANGED <<program, fds, outs, maxfd, rlength>> /\ UNCHANGED sockVars
        /\ left' = [k \in 1..rlength[Item(fd)] |-> Zero]
    BY <1>11 DEF ItemWrite, itemVars
  <2>2. UNCHANGED <<fdtab, backlog, stage, peer, rx, inflight, sent, out>>
    BY <2>1 DEF sockVars
  <2>3. Touches(fd)
    BY <2>2 DEF Touches, LoopInv, SockInv, SockTypes
  <2>4. left' \in Seq({Zero})
    <3>1. rlength[Item(fd)] \in Int
      BY <1>2 DEF ItemInts
    <3>. QED  BY <2>1, <3>1, Zeroes
  <2>. QED  BY <1>2, <1>6, <1>7, <2>1, <2>2, <2>3, <2>4
<1>12. CASE ItemSend
  <2>1. pc = "send" /\ i \in Fd /\ fdtab[i] # NoConn /\ i \notin ready
    BY <1>1, <1>12 DEF ItemSend, Sending, LoopInv, PlaceInv
  <2>2. Touches(i)
    BY <1>12, <2>1, SendTouches, SendErrorTouches DEF ItemSend, Sending, TakeBytes, LoopInv
  <2>3. left' \in Seq({Zero}) /\ inflight' \in [Conn -> Taken]
    <3>1. CASE TakeBytes
      BY <1>2, <1>3, <2>1, <3>1, TakeBytesFits
    <3>2. CASE SendError(i, Partial) /\ left' = <<>>
      BY <1>2, <2>1, <3>2, SendErrorTouches DEF LoopInv
    <3>. QED  BY <1>12, <3>1, <3>2 DEF ItemSend, Sending
  <2>4. /\ UNCHANGED <<program, ready, maxfd, rlength, i>>
        /\ \/ pc' = "send" /\ UNCHANGED <<fds, outs>>
           \/ pc' \in {"read", "wait"} /\ fds' = fds \cup {i} /\ outs' = outs \ {i}
    BY <1>12, <2>1 DEF ItemSend, Sending, ItemSent, NextEvent, itemVars
  <2>. QED  BY <1>2, <1>7, <2>1, <2>2, <2>3, <2>4
<1>13. CASE SendKilled /\ UNCHANGED itemVars
  <2>1. /\ UNCHANGED <<fdtab, backlog, stage, peer, rx, inflight, sent, out>>
        /\ UNCHANGED <<program, fds, ready, maxfd, i, pc, left, outs, rlength>>
    BY <1>13 DEF SendKilled, sockVars, itemVars
  <2>2. SockInv' /\ WatchInv' /\ PlaceInv'
    BY <1>1, <2>1 DEF LoopInv, SockInv, SockTypes, WatchInv, Tidy, Writing, PlaceInv, Batched
  <2>3. LoopTypes'
    BY <1>1, <2>1 DEF LoopInv, LoopTypes, ReactorTypes
  <2>4. PendingInv'
    BY <1>1, <2>1 DEF LoopInv, PendingInv, ToCome, Good, Batched, Readable, Writable, Room, Gone
  <2>. QED  BY <2>2, <2>3, <2>4 DEF LoopInv
<1>. QED
  BY <1>4, <1>5, <1>8, <1>9, <1>10, <1>11, <1>12, <1>13 DEF ItemStep

-----------------------------------------------------------------------------
(* All programs *)

LEMMA ProgramStays == Next => program' = program
<1>1. (\E c \in Conn : Client(c) /\ UNCHANGED <<loopVars, ownVars>>) => program' = program
  BY DEF loopVars
<1>2. SelectStep => program' = program
  BY DEF SelectStep, Select, SelectAccept, LoopEnd, NotReadable, ReadOk, ReadClose, ReadError,
         NotWritable, WriteStart, SelectSend, Sending, SendKilled
<1>3. PollStep => program' = program
  BY DEF PollStep, Poll, PollAccept, ScanEnd, Skip, ScanRecv, ScanClose, ScanError, ScanSend,
         Sending, SendKilled
<1>4. EpollStep => program' = program
  BY DEF EpollStep, EpollWait, EventAccept, EventRecv, EventClose, EventError, EventSend,
         Sending, SendKilled
<1>5. ItemStep => program' = program
  BY DEF ItemStep, ItemWait, ItemAccept, ItemKilled, ItemRecv, ItemClose, ItemError, ItemWrite,
         ItemSend, Sending, SendKilled
<1>6. ThreadStep => program' = program
  BY DEF ThreadStep, ThreadAccept, ThreadCreate, ThreadStart, ThreadRecv, ThreadEnd, ThreadError,
         ThreadSend, ThreadSendError, ThreadKilled, loopVars
<1>. QED  BY <1>1, <1>2, <1>3, <1>4, <1>5, <1>6 DEF Next, Server

\* The servers without a loop do not use its variables.
LEMMA ThreadsWait == ThreadStep => pc' = pc
  BY DEF ThreadStep, ThreadAccept, ThreadCreate, ThreadStart, ThreadRecv, ThreadEnd, ThreadError,
         ThreadSend, ThreadSendError, ThreadKilled, loopVars

LEMMA ServerInvInit == Init => ServerInv
<1>. SUFFICES ASSUME Init PROVE ServerInv
  OBVIOUS
<1>1. /\ fdtab = [fd \in Fd |-> NoConn] /\ backlog = <<>>
      /\ stage = [c \in Conn |-> "idle"] /\ peer = [c \in Conn |-> "open"]
      /\ rx = [c \in Conn |-> <<>>] /\ inflight = [c \in Conn |-> 0]
      /\ sent = [c \in Conn |-> 0]
      /\ fds = {} /\ ready = {} /\ maxfd = ListenFd /\ i = ListenFd + 1
      /\ pc = "wait" /\ left = <<>>
      /\ outs = {} /\ rlength = [s \in {Item(fd) : fd \in Fd} |-> 0] /\ wfds = {}
  BY DEF Init, LoopInit, SockInit, SelectInit, ItemInit
<1>2. /\ origin_wfd \subseteq Fd /\ (Tidy => origin_wfd = {}) /\ (program # "server3" => origin_wfd = {})
  BY GarbageAssumption DEF Init, SelectInit, Tidy
<1>3. SockInv
  <2>1. Len(backlog) = 0 /\ backlog \in Seq(Conn)
    BY <1>1, EmptySeq
  <2>2. <<>> \in Seq(Byte)
    BY EmptySeq
  <2>. QED  BY <1>1, <2>1, <2>2 DEF SockInv, SockTypes, Stages, PeerStates
<1>4. LoopTypes
  <2>1. ReactorTypes
    <3>1. left \in Seq({Zero})
      BY <1>1, EmptySeq
    <3>. QED  BY <1>1, <3>1, SizeAssumption DEF ReactorTypes, Taken
  <2>. QED  BY <1>1, <1>2, <2>1, FdFacts DEF LoopTypes
<1>5. PlaceInv /\ PendingInv
  BY <1>1 DEF PlaceInv, PendingInv
<1>6. WatchInv
  BY <1>1, <1>2, FdFacts DEF WatchInv, Writing, Tidy
<1>. QED  BY <1>1, <1>3, <1>4, <1>5, <1>6 DEF ServerInv, LoopInv

LEMMA ServerInvStep == ServerInv /\ [Next]_vars => ServerInv'
<1>1. CASE UNCHANGED vars
  <2>1. /\ UNCHANGED <<fdtab, backlog, stage, peer, rx, inflight, sent, out>>
        /\ UNCHANGED <<program, fds, ready, maxfd, i, pc, left, origin_wfd, wfds, outs, rlength>>
    BY <1>1 DEF vars, sockVars, loopVars, ownVars, selectVars, itemVars
  <2>. QED
    BY <2>1 DEF ServerInv, Loops, LoopInv, SockInv, SockTypes, WatchInv, Tidy, Writing, LoopTypes,
                ReactorTypes, PlaceInv, PendingInv, ToCome, Good, Batched, Readable, Writable, Room, Gone
<1>2. ASSUME Next, Loops, LoopInv PROVE LoopInv'
  <2>1. ASSUME NEW c \in Conn, Client(c), UNCHANGED <<loopVars, ownVars>> PROVE LoopInv'
    BY <1>2, <2>1, ClientKeeps
  <2>2. CASE program = "server3" /\ SelectStep /\ UNCHANGED <<nready, itemVars, threadVars>>
    BY <1>2, <2>2, SelectKeeps
  <2>3. CASE program \in {"server4", "server5"} /\ PollStep /\ UNCHANGED <<selectVars, itemVars, threadVars>>
    BY <1>2, <2>3, PollKeeps
  <2>4. CASE program = "server6" /\ EpollStep /\ UNCHANGED ownVars
    BY <1>2, <2>4, EpollKeeps
  <2>5. CASE program = "reactor" /\ ItemStep /\ UNCHANGED <<selectVars, nready, threadVars>>
    BY <1>2, <2>5, ItemKeeps
  <2>. QED  BY <1>2, <2>1, <2>2, <2>3, <2>4, <2>5 DEF Next, Server, Loops
<1>3. ASSUME Next, ~Loops, pc = "wait" PROVE pc' = "wait"
  BY <1>3, ThreadsWait DEF Next, Server, Loops, loopVars
<1>4. Next => (Loops <=> Loops')
  BY ProgramStays DEF Loops
<1>. QED  BY <1>1, <1>2, <1>3, <1>4 DEF ServerInv

-----------------------------------------------------------------------------
(* nready of server4.c *)

LEMMA CountInvInit == Init => CountInv
  BY FdFacts DEF Init, LoopInit, CountInv

LEMMA CountInvStep == ServerInv /\ CountInv /\ [Next]_vars => CountInv'
<1>. SUFFICES ASSUME ServerInv, CountInv, [Next]_vars PROVE CountInv'
  OBVIOUS
<1>. DEFINE Ahead(n) == {fd \in ready : fd >= n}
<1>1. CASE UNCHANGED <<loopVars, nready>>
  BY <1>1 DEF CountInv, loopVars
<1>2. CASE program # "server4" /\ program' = program
  BY <1>2 DEF CountInv
<1>3. ASSUME program = "server4", PollStep PROVE CountInv'
  <2>1. /\ ready \subseteq Fd \cup {ListenFd} /\ i \in Int /\ i > ListenFd
        /\ pc = "accept" => ListenFd \in ready /\ nready = Cardinality(ready) /\ i = ListenFd + 1
        /\ pc \in {"read", "send"} => nready = Cardinality(Ahead(i))
        /\ pc = "send" => i \in ready
        /\ program' = program
    BY <1>3 DEF CountInv, PollStep, Poll, PollAccept, ScanEnd, Skip, ScanRecv, ScanClose, ScanError,
                ScanSend, Sending, SendKilled
  <2>2. /\ IsFiniteSet(Fd \cup {ListenFd}) /\ Fd \cup {ListenFd} \subseteq Int
        /\ \A fd \in Fd : fd >= ListenFd + 1
    BY FdFacts, FS_AddElement
  <2>3. IsFiniteSet(ready) /\ \A n \in Int : IsFiniteSet(Ahead(n))
    BY <2>1, <2>2, FS_Subset
  <2>4. i \notin ready => Ahead(i + 1) = Ahead(i)
    BY <2>1, <2>2
  <2>5. i \in ready => Cardinality(Ahead(i + 1)) = Cardinality(Ahead(i)) - 1
    <3>1. i \in ready => i \in Ahead(i) /\ Ahead(i + 1) = Ahead(i) \ {i}
      <4>1. \A fd \in ready : fd >= i + 1 <=> fd >= i /\ fd # i
        BY <2>1, <2>2
      <4>2. Ahead(i + 1) = {fd \in ready : fd >= i /\ fd # i}
        BY <4>1
      <4>3. {fd \in ready : fd >= i /\ fd # i} = Ahead(i) \ {i}
        OBVIOUS
      <4>. QED  BY <2>1, <4>2, <4>3
    <3>2. IsFiniteSet(Ahead(i))
      BY <2>1, <2>3
    <3>. HIDE DEF Ahead
    <3>. QED  BY <3>1, <3>2, FS_RemoveElement
  <2>6. CASE Poll
    <3>1. /\ ready' = Reported /\ nready' = Cardinality(ready') /\ i' = ListenFd + 1
          /\ pc' \in {"accept", "read"} /\ (pc' = "accept" <=> ListenFd \in ready')
      BY <2>6 DEF Poll
    <3>2. ready' \subseteq Fd \cup {ListenFd}
      <4>1. fds \subseteq Fd
        BY <1>3 DEF ServerInv, Loops, LoopInv, LoopTypes
      <4>. QED  BY <3>1, <4>1 DEF Reported
    <3>3. pc' = "read" => {fd \in ready' : fd >= i'} = ready'
      BY <2>2, <3>1, <3>2
    <3>. QED  BY <2>1, <2>2, <3>1, <3>2, <3>3, FdFacts DEF CountInv
  <2>7. CASE PollAccept
    <3>1. /\ pc = "accept" /\ nready' = nready - 1 /\ pc' \in {"wait", "read"}
          /\ UNCHANGED <<ready, i>>
      BY <2>7 DEF PollAccept
    <3>2. Ahead(i) = ready \ {ListenFd}
      BY <2>1, <2>2, <3>1
    <3>3. nready' = Cardinality(Ahead(i))
      BY <2>1, <2>3, <3>1, <3>2, FS_RemoveElement
    <3>. QED  BY <2>1, <3>1, <3>3 DEF CountInv
  <2>8. CASE ScanEnd
    BY <2>1, <2>8 DEF ScanEnd, CountInv
  <2>9. CASE Skip
    <3>1. /\ pc = "read" /\ i \notin ready /\ i' = i + 1 /\ UNCHANGED <<ready, nready, pc>>
      BY <1>3, <2>9 DEF Skip
    <3>. QED  BY <2>1, <2>4, <3>1, FdFacts DEF CountInv
  <2>10. ASSUME Handled, i \in ready, ready' = ready, pc \in {"read", "send"} PROVE CountInv'
    <3>1. nready' = nready - 1 /\ i' = i + 1 /\ pc' \in {"wait", "read"}
      BY <2>10 DEF Handled
    <3>2. nready' = Cardinality(Ahead(i'))
      BY <2>1, <2>5, <2>10, <3>1
    <3>. QED  BY <2>1, <2>10, <3>1, <3>2, FdFacts DEF CountInv
  <2>11. CASE ScanClose \/ ScanError
    BY <2>10, <2>11 DEF ScanClose, ScanError, Scanning
  <2>12. CASE ScanRecv
    BY <2>1, <2>12 DEF ScanRecv, Scanning, CountInv
  <2>13. CASE ScanSend
    <3>1. pc = "send" /\ ready' = ready /\ (Handled \/ UNCHANGED <<i, pc, nready>>)
      BY <2>13 DEF ScanSend, Sending
    <3>2. CASE UNCHANGED <<i, pc, nready>>
      BY <2>1, <3>1, <3>2 DEF CountInv
    <3>. QED  BY <2>1, <2>10, <3>1, <3>2
  <2>14. CASE SendKilled /\ UNCHANGED nready
    BY <2>1, <2>14 DEF SendKilled, CountInv
  <2>. QED
    BY <1>3, <2>6, <2>7, <2>8, <2>9, <2>11, <2>12, <2>13, <2>14 DEF PollStep
<1>. QED
  BY <1>1, <1>2, <1>3, ProgramStays DEF Next, Server, vars, ownVars

-----------------------------------------------------------------------------
(* The bytes of a client, along the sockets and the calls on them *)

\* Unless the connection is lost, o, h and r together are the first n bytes of c.
Carries(c, p, o, h, r, n) == p \notin {"reset", "pipe"} => o \o h \o r = Stream(c, n)

SendTypes == out \in [Conn -> Seq(Byte)] /\ inflight \in [Conn -> Taken]

LEMMA Associated == \A s, t, u \in Seq(Byte) : (s \o t) \o u = s \o (t \o u)
  BY ConcatAssociative

LEMMA AppendAtEnd ==
    ASSUME NEW o \in Seq(Byte), NEW h \in Seq(Byte), NEW r \in Seq(Byte), NEW b \in Byte
    PROVE  o \o h \o Append(r, b) = Append(o \o h \o r, b)
<1>1. o \o h \in Seq(Byte) /\ <<b>> \in Seq(Byte)
  BY ConcatProperties
<1>2. o \o h \o r \in Seq(Byte)
  BY <1>1, ConcatProperties
<1>3. Append(r, b) = r \o <<b>> /\ Append(o \o h \o r, b) = (o \o h \o r) \o <<b>>
  BY <1>2, AppendIsConcat
<1>4. (o \o h) \o (r \o <<b>>) = ((o \o h) \o r) \o <<b>>
  BY <1>1, ConcatAssociative
<1>. QED  BY <1>3, <1>4

LEMMA StreamIsSeq ==
    ASSUME NEW c \in Conn, NEW n \in Nat
    PROVE  Stream(c, n) \in Seq(Byte) /\ Len(Stream(c, n)) = n
<1>1. Stream(c, n) \in [1..n -> Byte]
  BY DEF Stream, Byte
<1>. QED  BY <1>1

LEMMA StreamGrows ==
    ASSUME NEW c \in Conn, NEW n \in Nat
    PROVE  Append(Stream(c, n), <<c, n + 1>>) = Stream(c, n + 1)
<1>. DEFINE s == Stream(c, n)
            t == Append(s, <<c, n + 1>>)
<1>1. s \in Seq(Byte) /\ Len(s) = n /\ Stream(c, n + 1) \in Seq(Byte) /\ Len(Stream(c, n + 1)) = n + 1
  BY StreamIsSeq
<1>2. <<c, n + 1>> \in Byte
  BY DEF Byte
<1>3. /\ t \in Seq(Byte) /\ Len(t) = n + 1 /\ t[n + 1] = <<c, n + 1>>
      /\ \A k \in 1..n : t[k] = s[k]
  <2>. HIDE DEF s
  <2>. QED  BY <1>1, <1>2, AppendProperties
<1>4. \A k \in 1..Len(t) : t[k] = Stream(c, n + 1)[k]
  BY <1>3 DEF Stream
<1>. HIDE DEF t
<1>. QED  BY <1>1, <1>3, <1>4, SeqEqual

LEMMA Divided ==
    ASSUME NEW s \in Seq(Byte), NEW k \in 0..Len(s)
    PROVE  /\ SubSeq(s, 1, k) \in Seq(Byte) /\ SubSeq(s, k + 1, Len(s)) \in Seq(Byte)
           /\ SubSeq(s, 1, k) \o SubSeq(s, k + 1, Len(s)) = s
<1>1. Len(s) \in Nat /\ 1 \in 1..Len(s) + 1 /\ k \in 1 - 1..Len(s) /\ Len(s) \in k..Len(s)
  BY LenProperties
<1>2. SubSeq(s, 1, k) \o SubSeq(s, k + 1, Len(s)) = SubSeq(s, 1, Len(s))
  BY <1>1, ConcatAdjacentSubSeq
<1>. QED  BY <1>2, SubSeqFull, RestOf

LEMMA ClientCarries ==
    ASSUME SockTypes, SendTypes, NEW d \in Conn, Client(d), NEW c \in Conn, NEW h \in Seq(Byte),
           Carries(c, peer[c], out[c], h, rx[c], sent[c])
    PROVE  Carries(c, peer'[c], out'[c], h, rx'[c], sent'[c]) /\ SendTypes'
<1>1. out' = out /\ SendTypes'
  <2>1. \A n \in Taken : n - 1 \in Taken
    BY SizeAssumption DEF Taken
  <2>2. 0 \in Taken
    BY SizeAssumption DEF Taken
  <2>. QED
    BY <2>1, <2>2 DEF Client, Connect, ClientSend, ClientFin, ClientReset, ClientRead, SendTypes
<1>2. CASE ClientSend(d) /\ c = d
  <2>1. /\ sent' = [sent EXCEPT ![c] = sent[c] + 1] /\ peer[c] = "open" /\ peer' = peer
        /\ rx' = [rx EXCEPT ![c] = Append(rx[c], <<c, sent[c] + 1>>)]
    BY <1>2 DEF ClientSend
  <2>2. /\ out[c] \in Seq(Byte) /\ rx[c] \in Seq(Byte) /\ sent[c] \in Nat /\ <<c, sent[c] + 1>> \in Byte
        /\ rx'[c] = Append(rx[c], <<c, sent[c] + 1>>) /\ sent'[c] = sent[c] + 1
    BY <2>1 DEF SockTypes, SendTypes, Byte
  <2>3. out[c] \o h \o Append(rx[c], <<c, sent[c] + 1>>) = Append(out[c] \o h \o rx[c], <<c, sent[c] + 1>>)
    BY <2>2, AppendAtEnd
  <2>4. out[c] \o h \o rx[c] = Stream(c, sent[c])
    BY <2>1 DEF Carries
  <2>. QED  BY <1>1, <2>1, <2>2, <2>3, <2>4, StreamGrows DEF Carries
<1>3. CASE ~(ClientSend(d) /\ c = d)
  <2>1. /\ rx'[c] = rx[c] /\ sent'[c] = sent[c]
        /\ peer[c] \in {"reset", "pipe"} => peer'[c] \in {"reset", "pipe"}
    BY <1>3 DEF Client, Connect, ClientSend, ClientFin, ClientReset, ClientRead, SockTypes, Reaching
  <2>. QED  BY <1>1, <2>1 DEF Carries
<1>. QED  BY <1>2, <1>3

\* recv() takes from what waits.
LEMMA RecvCarries ==
    ASSUME SockTypes, SendTypes, NEW fd \in Fd, fdtab[fd] # NoConn, RecvOk(fd)
    PROVE  /\ Data(fd) \in Seq(Byte) /\ UNCHANGED <<out, inflight, sent, peer, fdtab>>
           /\ \A c \in Conn \ {fdtab[fd]} : rx'[c] = rx[c]
           /\ LET c == fdtab[fd]
              IN  Carries(c, peer[c], out[c], <<>>, rx[c], sent[c])
                      => Carries(c, peer[c], out[c], Data(fd), rx'[c], sent[c])
<1>. DEFINE c == fdtab[fd]
            k == Min2(Len(rx[c]), BUFFER_LENGTH)
<1>1. c \in Conn /\ rx \in [Conn -> Seq(Byte)] /\ rx[c] \in Seq(Byte) /\ Len(rx[c]) \in Nat /\ out[c] \in Seq(Byte)
  BY DEF SockTypes, SendTypes
<1>2. k \in 0..Len(rx[c])
  BY <1>1, SizeAssumption DEF Min2
<1>3. Data(fd) = SubSeq(rx[c], 1, k) /\ Len(Data(fd)) = k
  BY <1>1, <1>2, RestOf DEF Data
<1>4. /\ rx' = [rx EXCEPT ![c] = SubSeq(rx[c], k + 1, Len(rx[c]))]
      /\ UNCHANGED <<out, inflight, sent, peer, fdtab>>
  BY <1>3 DEF RecvOk
<1>5. /\ Data(fd) \in Seq(Byte) /\ rx'[c] = SubSeq(rx[c], k + 1, Len(rx[c]))
      /\ rx'[c] \in Seq(Byte) /\ Data(fd) \o rx'[c] = rx[c]
  BY <1>1, <1>2, <1>3, <1>4, Divided
<1>6. out[c] \o Data(fd) \o rx'[c] = out[c] \o <<>> \o rx[c]
  <2>1. (out[c] \o Data(fd)) \o rx'[c] = out[c] \o (Data(fd) \o rx'[c])
    BY <1>1, <1>5, Associated
  <2>2. out[c] \o <<>> = out[c]
    BY <1>1, ConcatEmptySeq
  <2>. QED  BY <1>5, <2>1, <2>2
<1>. QED  BY <1>1, <1>4, <1>5, <1>6 DEF Carries

\* What send() takes is some of what it is to take.
LEMMA RoomFits ==
    ASSUME SendTypes, NEW c \in Conn, NEW h \in Seq(Byte), Room(c) > 0 \/ h = <<>>
    PROVE  Min2(Len(h), Room(c)) \in 0..Len(h)
<1>1. Len(h) \in Nat /\ (h = <<>> => Len(h) = 0)
  BY LenProperties, EmptySeq
<1>2. Room(c) \in Int /\ Room(c) >= 0
  BY SizeAssumption DEF SendTypes, Taken, Room
<1>. QED  BY <1>1, <1>2 DEF Min2

\* send() takes from what is held.
LEMMA SendCarries ==
    ASSUME SockTypes, SendTypes, NEW fd, fdtab[fd] \in Conn, NEW h \in Seq(Byte), NEW k \in 0..Len(h),
           SendSome(fd, SubSeq(h, 1, k))
    PROVE  /\ SendTypes' /\ UNCHANGED <<rx, sent, peer, fdtab>> /\ SubSeq(h, k + 1, Len(h)) \in Seq(Byte)
           /\ \A c \in Conn \ {fdtab[fd]} : out'[c] = out[c]
           /\ LET c == fdtab[fd]
              IN  Carries(c, peer[c], out[c], h, rx[c], sent[c])
                      => Carries(c, peer[c], out'[c], SubSeq(h, k + 1, Len(h)), rx[c], sent[c])
<1>. DEFINE c == fdtab[fd]
            f == SubSeq(h, 1, k)
            g == SubSeq(h, k + 1, Len(h))
<1>1. c \in Conn /\ rx[c] \in Seq(Byte) /\ out[c] \in Seq(Byte) /\ out \in [Conn -> Seq(Byte)]
  BY DEF SockTypes, SendTypes
<1>2. f \in Seq(Byte) /\ g \in Seq(Byte) /\ f \o g = h
  BY Divided
<1>3. /\ out' = [out EXCEPT ![c] = out[c] \o f] /\ UNCHANGED <<rx, sent, peer, fdtab>>
      /\ inflight' = [inflight EXCEPT ![c] = inflight[c] + Len(f)] /\ Len(f) <= Room(c)
  BY DEF SendSome
<1>. HIDE DEF f, g, c
<1>4. out[c] \o f \in Seq(Byte)
  BY <1>1, <1>2, ConcatProperties
<1>5. out'[c] = out[c] \o f /\ SendTypes' /\ \A d \in Conn \ {c} : out'[d] = out[d]
  <2>1. Len(f) \in Nat /\ inflight[c] \in Int /\ inflight \in [Conn -> Taken]
    BY <1>1, <1>2, LenProperties DEF SendTypes, Taken
  <2>2. inflight[c] + Len(f) \in Taken
    BY <1>3, <2>1, SizeAssumption DEF Room, Taken
  <2>3. out' \in [Conn -> Seq(Byte)] /\ out'[c] = out[c] \o f /\ \A d \in Conn \ {c} : out'[d] = out[d]
    BY <1>1, <1>3, <1>4
  <2>4. inflight' \in [Conn -> Taken]
    BY <1>1, <1>3, <2>1, <2>2
  <2>. QED  BY <2>3, <2>4 DEF SendTypes
<1>6. out[c] \o f \o g = out[c] \o h
  BY <1>1, <1>2, Associated
<1>7. Carries(c, peer[c], out[c], h, rx[c], sent[c]) => Carries(c, peer[c], out'[c], g, rx[c], sent[c])
  BY <1>5, <1>6 DEF Carries
<1>. QED  BY <1>2, <1>3, <1>5, <1>7 DEF f, g, c

-----------------------------------------------------------------------------
(* The bytes of a client in server4.c to server6.c *)

Poller == program \in {"server4", "server5", "server6"}

\* What send() has still to take for c.
HeldOf(c) == IF pc = "send" /\ fdtab[i] = c THEN left ELSE <<>>

PollerBytes ==
    Poller =>
        /\ SendTypes
        /\ pc = "send" => left \in Seq(Byte)
        /\ \A c \in Conn : Carries(c, peer[c], out[c], HeldOf(c), rx[c], sent[c])

\* The steps, as far as the bytes go: no call that moves any, recv(), a send()
\* that takes some or all, and one that fails.
Quiet ==
    /\ pc # "send" /\ pc' # "send" /\ UNCHANGED <<out, inflight, rx, sent>>
    /\ \A c \in Conn : peer'[c] = peer[c] \/ (peer[c] = "reset" /\ peer'[c] = "pipe")

Receives ==
    /\ pc # "send" /\ pc' = "send"
    /\ \E fd \in Fd : fdtab[fd] # NoConn /\ RecvOk(fd) /\ i' = fd /\ left' = Data(fd)

Takes == pc = "send" /\ TakeBytes /\ (IF pc' = "send" THEN i' = i ELSE left' = <<>>)

Fails == pc = "send" /\ pc' # "send" /\ \E partial \in BOOLEAN : SendError(i, partial)

Dies == UNCHANGED <<sockVars, pc, i, left>>

\* accept(), close() and a failed recv() move no bytes.
LEMMA QuietCalls ==
    ASSUME SockTypes, NEW fd \in Fd, fdtab[fd] # NoConn, RecvEndClose(fd) \/ RecvError(fd)
    PROVE  /\ UNCHANGED <<out, inflight, rx, sent>>
           /\ \A c \in Conn : peer'[c] = peer[c] \/ (peer[c] = "reset" /\ peer'[c] = "pipe")
<1>1. CASE RecvEndClose(fd)
  BY <1>1 DEF RecvEndClose
<1>2. CASE RecvError(fd)
  BY <1>2 DEF RecvError, TakeError, SockTypes
<1>. QED  BY <1>1, <1>2

LEMMA PollSteps ==
    ASSUME Loops, LoopInv, program \in {"server4", "server5"}, PollStep
    PROVE  Quiet \/ Receives \/ Takes \/ Fails \/ Dies
<1>1. ready \subseteq Fd \cup {ListenFd} /\ i \in Int /\ i > ListenFd /\ SockTypes
  BY DEF LoopInv, LoopTypes, SockInv
<1>2. CASE Poll \/ ScanEnd \/ Skip
  BY <1>2 DEF Quiet, Poll, ScanEnd, Skip, Handled, sockVars
<1>3. CASE PollAccept
  <2>1. pc = "accept" /\ pc' \in {"wait", "read"} /\ \E fd \in Fd : Accept(fd)
    BY <1>3 DEF PollAccept, Watch
  <2>. QED  BY <2>1 DEF Quiet, Accept
<1>4. ASSUME Scanning PROVE pc = "read" /\ i \in Fd /\ fdtab[i] # NoConn
  <2>1. i \in Fd /\ pc = "read" /\ i \in ready
    BY <1>1, <1>4 DEF Scanning
  <2>. QED  BY <2>1, FdFacts DEF LoopInv, PendingInv, ToCome, Good
<1>5. CASE ScanRecv
  BY <1>4, <1>5 DEF ScanRecv, Receives
<1>6. CASE ScanClose \/ ScanError
  <2>1. Scanning /\ (RecvEndClose(i) \/ RecvError(i)) /\ pc' \in {"wait", "read"}
    BY <1>6 DEF ScanClose, ScanError, Handled
  <2>. QED  BY <1>1, <1>4, <2>1, QuietCalls DEF Quiet
<1>7. CASE ScanSend
  <2>1. pc = "send" /\ (\/ TakeBytes /\ left' = <<>> /\ pc' # "send"
                        \/ TakeBytes /\ UNCHANGED <<i, pc>>
                        \/ SendError(i, Partial) /\ pc' # "send")
    BY <1>7 DEF ScanSend, Sending, Handled
  <2>2. Partial \in BOOLEAN
    BY DEF Partial
  <2>. QED  BY <2>1, <2>2 DEF Takes, Fails
<1>8. CASE SendKilled
  BY <1>8 DEF SendKilled, Dies
<1>. QED  BY <1>2, <1>3, <1>5, <1>6, <1>7, <1>8 DEF PollStep

LEMMA EpollSteps ==
    ASSUME Loops, LoopInv, program = "server6", EpollStep
    PROVE  Quiet \/ Receives \/ Takes \/ Fails \/ Dies
<1>1. Batched /\ SockTypes
  BY DEF Batched, LoopInv, SockInv
<1>2. ASSUME NEW fd \in Fd, pc = "read", fd \in ready PROVE fdtab[fd] # NoConn
  BY <1>1, <1>2, FdFacts DEF LoopInv, PendingInv, ToCome, Good
<1>3. CASE EpollWait
  BY <1>3 DEF Quiet, EpollWait, sockVars
<1>4. CASE EventAccept
  <2>1. pc = "read" /\ pc' \in {"wait", "read"} /\ \E fd \in Fd : Accept(fd)
    BY <1>4 DEF EventAccept, NextEvent, Watch
  <2>. QED  BY <2>1 DEF Quiet, Accept
<1>5. ASSUME NEW fd \in Fd, EventRecv(fd) PROVE Receives
  BY <1>2, <1>5 DEF EventRecv, Receives
<1>6. ASSUME NEW fd \in Fd, EventClose(fd) \/ EventError(fd) PROVE Quiet
  <2>1. pc = "read" /\ fd \in ready /\ (RecvEndClose(fd) \/ RecvError(fd)) /\ pc' \in {"wait", "read"}
    BY <1>6 DEF EventClose, EventError, NextEvent
  <2>. QED  BY <1>1, <1>2, <2>1, QuietCalls DEF Quiet
<1>7. CASE EventSend
  <2>1. pc = "send" /\ (\/ TakeBytes /\ left' = <<>> /\ pc' # "send"
                        \/ TakeBytes /\ UNCHANGED <<i, pc>>
                        \/ SendError(i, Partial) /\ pc' # "send")
    BY <1>7 DEF EventSend, Sending, NextEvent
  <2>2. Partial \in BOOLEAN
    BY DEF Partial
  <2>. QED  BY <2>1, <2>2 DEF Takes, Fails
<1>8. CASE SendKilled
  BY <1>8 DEF SendKilled, Dies
<1>. QED  BY <1>3, <1>4, <1>5, <1>6, <1>7, <1>8 DEF EpollStep

\* A connection that is lost carries nothing any more.
LEMMA CarriesOn ==
    ASSUME NEW c, NEW h,
           Carries(c, peer[c], out[c], h, rx[c], sent[c]), UNCHANGED <<out, rx, sent>>,
           peer'[c] = peer[c] \/ peer'[c] \in {"reset", "pipe"}
    PROVE  Carries(c, peer'[c], out'[c], h, rx'[c], sent'[c])
  BY DEF Carries

LEMMA PollerBytesServer ==
    ASSUME LoopInv, Poller, PollerBytes, program' = program,
           Quiet \/ Receives \/ Takes \/ Fails \/ Dies
    PROVE  PollerBytes'
<1>1. /\ SockTypes /\ SendTypes /\ fdtab \in [Fd -> Conn \cup {NoConn}]
      /\ \A c \in Conn : Carries(c, peer[c], out[c], HeldOf(c), rx[c], sent[c])
  BY DEF LoopInv, SockInv, SockTypes, PollerBytes
<1>2. pc = "send" => left \in Seq(Byte) /\ i \in Fd /\ fdtab[i] \in Conn
  BY <1>1 DEF LoopInv, PlaceInv, PollerBytes
<1>3. CASE Quiet
  <2>1. /\ \A c \in Conn : HeldOf(c) = <<>>
        /\ \A c \in Conn : HeldOf(c)' = <<>>
    BY <1>3 DEF Quiet, HeldOf
  <2>2. \A c \in Conn : Carries(c, peer'[c], out'[c], <<>>, rx'[c], sent'[c])
    BY <1>1, <1>3, <2>1, CarriesOn DEF Quiet
  <2>. QED  BY <1>1, <1>3, <2>1, <2>2 DEF Quiet, PollerBytes, SendTypes
<1>4. CASE Receives
  <2>1. PICK fd \in Fd : fdtab[fd] # NoConn /\ RecvOk(fd) /\ i' = fd /\ left' = Data(fd)
    BY <1>4 DEF Receives
  <2>2. /\ pc # "send" /\ pc' = "send" /\ \A c \in Conn : HeldOf(c) = <<>>
    BY <1>4 DEF Receives, HeldOf
  <2>3. /\ left' \in Seq(Byte) /\ UNCHANGED <<out, inflight, sent, peer, fdtab>>
        /\ \A c \in Conn \ {fdtab[fd]} : rx'[c] = rx[c]
        /\ Carries(fdtab[fd], peer[fdtab[fd]], out[fdtab[fd]], left', rx'[fdtab[fd]], sent[fdtab[fd]])
    BY <1>1, <2>1, <2>2, RecvCarries
  <2>4. ASSUME NEW c \in Conn PROVE Carries(c, peer[c], out[c], HeldOf(c)', rx'[c], sent[c])
    <3>1. HeldOf(c)' = IF fdtab[fd] = c THEN left' ELSE <<>>
      BY <2>1, <2>2, <2>3 DEF HeldOf
    <3>. QED  BY <1>1, <2>2, <2>3, <3>1
  <2>. QED  BY <1>1, <2>3, <2>4 DEF PollerBytes, SendTypes
<1>5. CASE Takes
  <2>. DEFINE d == fdtab[i]
              k == Min2(Len(left), Room(d))
  <2>1. /\ pc = "send" /\ (Room(d) > 0 \/ left = <<>>) /\ SendSome(i, SubSeq(left, 1, k))
        /\ left' = SubSeq(left, k + 1, Len(left))
    BY <1>5 DEF Takes, TakeBytes
  <2>2. k \in 0..Len(left)
    BY <1>1, <1>2, <2>1, RoomFits
  <2>3. /\ SendTypes' /\ UNCHANGED <<rx, sent, peer, fdtab>> /\ left' \in Seq(Byte)
        /\ \A c \in Conn \ {d} : out'[c] = out[c]
        /\ Carries(d, peer[d], out[d], left, rx[d], sent[d])
              => Carries(d, peer[d], out'[d], left', rx[d], sent[d])
    <3>. HIDE DEF k
    <3>. QED  BY <1>1, <1>2, <2>1, <2>2, SendCarries
  <2>4. ASSUME NEW c \in Conn PROVE Carries(c, peer'[c], out'[c], HeldOf(c)', rx'[c], sent'[c])
    <3>1. HeldOf(c) = IF d = c THEN left ELSE <<>>
      BY <2>1 DEF HeldOf
    <3>2. HeldOf(c)' = IF d = c THEN left' ELSE <<>>
      BY <1>5, <2>3 DEF HeldOf, Takes
    <3>3. Carries(c, peer[c], out[c], HeldOf(c), rx[c], sent[c])
      BY <1>1
    <3>. QED  BY <2>3, <3>1, <3>2, <3>3
  <2>. QED  BY <2>3, <2>4 DEF PollerBytes
<1>6. CASE Fails
  <2>1. /\ pc = "send" /\ pc' # "send" /\ UNCHANGED <<out, inflight, rx, sent>>
        /\ peer'[fdtab[i]] \in {"reset", "pipe"} /\ \A c \in Conn \ {fdtab[i]} : peer'[c] = peer[c]
    BY <1>1, <1>2, <1>6 DEF Fails, SendError, TakeError, Gone, sockVars, SockTypes
  <2>2. ASSUME NEW c \in Conn PROVE Carries(c, peer'[c], out'[c], HeldOf(c)', rx'[c], sent'[c])
    <3>1. HeldOf(c)' = <<>>
      BY <2>1 DEF HeldOf
    <3>2. CASE c = fdtab[i]
      BY <2>1, <3>2 DEF Carries
    <3>3. CASE c # fdtab[i]
      <4>1. HeldOf(c) = <<>>
        BY <3>3 DEF HeldOf
      <4>. QED  BY <1>1, <2>1, <3>1, <3>3, <4>1
    <3>. QED  BY <3>2, <3>3
  <2>. QED  BY <1>1, <2>1, <2>2 DEF PollerBytes, SendTypes
<1>7. CASE Dies
  <2>1. UNCHANGED <<fdtab, peer, out, inflight, rx, sent, pc, i, left>>
    BY <1>7 DEF Dies, sockVars
  <2>2. \A c \in Conn : HeldOf(c)' = HeldOf(c)
    BY <2>1 DEF HeldOf
  <2>. QED  BY <1>1, <1>2, <2>1, <2>2 DEF PollerBytes, SendTypes
<1>. QED  BY <1>3, <1>4, <1>5, <1>6, <1>7

-----------------------------------------------------------------------------
(* The bytes of a client in server.c and server2.c *)

ThreadPlaces == {"none", "create", "start", "recv", "send", "rest", "done"}

\* Of the threads, also when one has taken the descriptor of another (none goes on
\* from there).
ThreadInv ==
    ~Loops =>
        /\ SockInv /\ SendTypes
        /\ tpc \in [Conn -> ThreadPlaces] /\ tfd \in [Conn -> Fd \cup {ListenFd}]
        /\ tleft \in [Conn -> Seq(Byte)]
        /\ \A t \in Conn : Serving(t) => tfd[t] \in Fd
        /\ \A t \in Conn : tpc[t] # "none" => clientfd \in Fd /\ stage[t] \in {"accepted", "closed"}
        /\ \A t \in Conn : ~Sends(t) => tleft[t] = <<>>
        /\ \A t \in Conn : Carries(t, peer[t], out[t], tleft[t], rx[t], sent[t])

LEMMA SocketsInit ==
    ASSUME Init
    PROVE  /\ SockInv /\ SendTypes
           /\ \A c \in Conn : /\ out[c] = <<>> /\ rx[c] = <<>> /\ sent[c] = 0
                              /\ Carries(c, peer[c], out[c], <<>>, rx[c], sent[c])
<1>1. /\ fdtab = [fd \in Fd |-> NoConn] /\ backlog = <<>>
      /\ stage = [c \in Conn |-> "idle"] /\ peer = [c \in Conn |-> "open"]
      /\ rx = [c \in Conn |-> <<>>] /\ inflight = [c \in Conn |-> 0]
      /\ sent = [c \in Conn |-> 0] /\ out = [c \in Conn |-> <<>>]
  BY DEF Init, LoopInit, SockInit
<1>2. Len(backlog) = 0 /\ backlog \in Seq(Conn) /\ <<>> \in Seq(Byte) /\ 0 \in Taken
  BY <1>1, EmptySeq, SizeAssumption DEF Taken
<1>3. SockInv /\ SendTypes
  BY <1>1, <1>2 DEF SockInv, SockTypes, SendTypes, Stages, PeerStates
<1>4. ASSUME NEW c \in Conn PROVE <<>> \o <<>> \o <<>> = Stream(c, 0)
  <2>1. Stream(c, 0) \in Seq(Byte) /\ Len(Stream(c, 0)) = 0
    BY StreamIsSeq
  <2>2. Stream(c, 0) = <<>>
    BY <2>1, EmptySeq
  <2>. QED  BY <1>2, <2>2, ConcatEmptySeq
<1>. QED  BY <1>1, <1>3, <1>4 DEF Carries

LEMMA ThreadInvInit == Init => ThreadInv
<1>. SUFFICES ASSUME Init PROVE ThreadInv
  OBVIOUS
<1>1. /\ tpc = [t \in Conn |-> "none"] /\ tfd = [t \in Conn |-> ListenFd]
      /\ tleft = [t \in Conn |-> <<>>]
  BY DEF Init, ThreadInit
<1>2. <<>> \in Seq(Byte)
  BY EmptySeq
<1>3. \A t \in Conn : ~Serving(t) /\ ~Sends(t) /\ tpc[t] = "none" /\ tleft[t] = <<>>
  BY <1>1 DEF Serving, Sends
<1>. QED  BY <1>1, <1>2, <1>3, SocketsInit DEF ThreadInv, ThreadPlaces

LEMMA ThreadClients ==
    ASSUME ~Loops, ThreadInv, NEW d \in Conn, Client(d), UNCHANGED <<loopVars, ownVars>>
    PROVE  ThreadInv'
<1>1. UNCHANGED <<program, tpc, tfd, tleft, clientfd>>
  BY DEF loopVars, ownVars, threadVars
<1>2. SockInv /\ SendTypes /\ SockTypes /\ tleft \in [Conn -> Seq(Byte)]
  BY DEF ThreadInv, SockInv
<1>3. SockInv'
  BY <1>2, ClientSockets
<1>4. SendTypes' /\ \A t \in Conn : Carries(t, peer'[t], out'[t], tleft[t], rx'[t], sent'[t])
  <2>1. ASSUME NEW t \in Conn
        PROVE  SendTypes' /\ Carries(t, peer'[t], out'[t], tleft[t], rx'[t], sent'[t])
    <3>1. tleft[t] \in Seq(Byte) /\ Carries(t, peer[t], out[t], tleft[t], rx[t], sent[t])
      BY <1>2 DEF ThreadInv
    <3>. QED  BY <1>2, <3>1, ClientCarries
  <2>. QED  BY <2>1
<1>5. \A t \in Conn : stage[t] \in {"accepted", "closed"} => stage'[t] = stage[t]
  BY <1>2 DEF Client, Connect, ClientSend, ClientFin, ClientReset, ClientRead, SockTypes
<1>. QED  BY <1>1, <1>3, <1>4, <1>5 DEF ThreadInv, Serving, Sends

LEMMA ThreadKeeps ==
    ASSUME ~Loops, ThreadInv, ThreadStep, program' = program
    PROVE  ThreadInv'
<1>1. /\ SockInv /\ SockTypes /\ SendTypes /\ OwnClient
      /\ tpc \in [Conn -> ThreadPlaces] /\ tfd \in [Conn -> Fd \cup {ListenFd}]
      /\ tleft \in [Conn -> Seq(Byte)]
      /\ \A t \in Conn : Serving(t) => tfd[t] \in Fd /\ fdtab[tfd[t]] = t
      /\ \A t \in Conn : tpc[t] # "none" => clientfd \in Fd /\ stage[t] \in {"accepted", "closed"}
      /\ \A t \in Conn : ~Sends(t) => tleft[t] = <<>>
      /\ \A t \in Conn : Carries(t, peer[t], out[t], tleft[t], rx[t], sent[t])
  BY DEF ThreadInv, ThreadStep, OwnClient, SockInv
<1>2. \A c \in Conn : c # NoConn
  BY ConnAssumption
<1>3. CASE ThreadAccept
  <2>. DEFINE c == Head(backlog)
  <2>1. PICK fd \in Fd : /\ Accept(fd) /\ clientfd' = fd /\ tleft' = tleft
                         /\ \/ tpc' = [tpc EXCEPT ![c] = "recv"] /\ tfd' = [tfd EXCEPT ![c] = fd]
                            \/ tpc' = [tpc EXCEPT ![c] = "create"] /\ tfd' = tfd
    BY <1>3 DEF ThreadAccept
  <2>2. SockInv' /\ c \in Conn /\ UNCHANGED <<peer, rx, inflight, sent, out>>
    BY <1>1, <2>1, AcceptSockets DEF Accept
  <2>3. stage[c] = "queued" /\ stage' = [stage EXCEPT ![c] = "accepted"]
    <3>1. backlog # <<>> /\ backlog \in Seq(Conn) /\ stage' = [stage EXCEPT ![c] = "accepted"]
      BY <1>1, <2>1 DEF Accept, SockTypes
    <3>2. Len(backlog) \in Nat \ {0} /\ c = backlog[1]
      BY <3>1, EmptySeq
    <3>. QED  BY <1>1, <3>1, <3>2 DEF SockInv
  <2>4. tpc[c] = "none" /\ ~Sends(c) /\ tleft[c] = <<>>
    BY <1>1, <2>2, <2>3 DEF Sends
  <2>5. /\ tpc' \in [Conn -> ThreadPlaces] /\ tfd' \in [Conn -> Fd \cup {ListenFd}]
        /\ tpc'[c] \in {"recv", "create"} /\ \A t \in Conn \ {c} : tpc'[t] = tpc[t] /\ tfd'[t] = tfd[t]
        /\ tpc'[c] = "recv" => tfd'[c] = fd
    <3>1. tpc \in [Conn -> ThreadPlaces] /\ tfd \in [Conn -> Fd \cup {ListenFd}] /\ c \in Conn
      BY <1>1, <2>2
    <3>. HIDE DEF c
    <3>2. CASE tpc' = [tpc EXCEPT ![c] = "recv"] /\ tfd' = [tfd EXCEPT ![c] = fd]
      BY <3>1, <3>2 DEF ThreadPlaces
    <3>3. CASE tpc' = [tpc EXCEPT ![c] = "create"] /\ tfd' = tfd
      BY <3>1, <3>3 DEF ThreadPlaces
    <3>. QED  BY <2>1, <3>2, <3>3
  <2>6. \A t \in Conn : (Serving(t)' => tfd'[t] \in Fd) /\ (~Sends(t)' => tleft[t] = <<>>)
    BY <1>1, <2>4, <2>5 DEF Serving, Sends
  <2>7. \A t \in Conn : tpc'[t] # "none" => clientfd' \in Fd /\ stage'[t] \in {"accepted", "closed"}
    BY <1>1, <2>1, <2>2, <2>3, <2>5 DEF SockTypes
  <2>. QED  BY <1>1, <2>1, <2>2, <2>5, <2>6, <2>7 DEF ThreadInv, SendTypes
<1>4. ASSUME NEW t \in Conn, ThreadCreate(t) \/ ThreadStart(t) PROVE ThreadInv'
  <2>1. /\ UNCHANGED <<fdtab, backlog, stage, peer, rx, inflight, sent, out, clientfd, tleft>>
        /\ tpc[t] \in {"create", "start"}
        /\ \/ tpc' = [tpc EXCEPT ![t] = "start"] /\ tfd' = tfd
           \/ tpc' = [tpc EXCEPT ![t] = "recv"] /\ tfd' = [tfd EXCEPT ![t] = clientfd]
    BY <1>4 DEF ThreadCreate, ThreadStart, sockVars
  <2>2. clientfd \in Fd /\ ~Sends(t) /\ ~Serving(t)
    BY <1>1, <2>1 DEF Sends, Serving
  <2>3. /\ tpc' \in [Conn -> ThreadPlaces] /\ tfd' \in [Conn -> Fd \cup {ListenFd}]
        /\ \A u \in Conn \ {t} : tpc'[u] = tpc[u] /\ tfd'[u] = tfd[u]
        /\ \/ tpc'[t] = "start"
           \/ tpc'[t] = "recv" /\ tfd'[t] = clientfd
    BY <1>1, <2>1, <2>2 DEF ThreadPlaces
  <2>4. \A u \in Conn : (Serving(u)' => tfd'[u] \in Fd) /\ (~Sends(u)' => tleft[u] = <<>>)
    BY <1>1, <2>2, <2>3 DEF Serving, Sends
  <2>5. SockInv' /\ SendTypes'
    <3>1. SockInv /\ SendTypes
      BY <1>1
    <3>. QED  BY <2>1, <3>1 DEF SockInv, SockTypes, SendTypes
  <2>. QED  BY <1>1, <2>1, <2>3, <2>4, <2>5 DEF ThreadInv
\* What is common to the steps of a thread that serves.
<1>5. ASSUME NEW t \in Conn, Serving(t), SockInv', SendTypes', UNCHANGED <<tfd, clientfd>>,
             NEW p \in ThreadPlaces \ {"none", "create", "start"}, tpc' = [tpc EXCEPT ![t] = p],
             NEW h \in Seq(Byte), tleft' = [tleft EXCEPT ![t] = h],
             p \in {"send", "rest"} \/ h = <<>>,
             stage'[t] \in {"accepted", "closed"}, \A c \in Conn \ {t} : stage'[c] = stage[c],
             Carries(t, peer'[t], out'[t], h, rx'[t], sent'[t]),
             \A c \in Conn \ {t} : Carries(c, peer'[c], out'[c], tleft[c], rx'[c], sent'[c])
      PROVE  ThreadInv'
  <2>1. /\ tpc' \in [Conn -> ThreadPlaces] /\ tleft' \in [Conn -> Seq(Byte)]
        /\ tpc'[t] = p /\ tleft'[t] = h /\ \A c \in Conn \ {t} : tpc'[c] = tpc[c] /\ tleft'[c] = tleft[c]
    BY <1>1, <1>5
  <2>2. tpc[t] # "none"
    BY <1>5 DEF Serving, Sends
  <2>3. \A u \in Conn : (Serving(u)' => tfd'[u] \in Fd) /\ (~Sends(u)' => tleft'[u] = <<>>)
    BY <1>1, <1>5, <2>1 DEF Serving, Sends
  <2>4. \A u \in Conn : tpc'[u] # "none" => clientfd' \in Fd /\ stage'[u] \in {"accepted", "closed"}
    BY <1>1, <1>5, <2>1, <2>2
  <2>5. \A u \in Conn : Carries(u, peer'[u], out'[u], tleft'[u], rx'[u], sent'[u])
    BY <1>5, <2>1
  <2>. QED  BY <1>1, <1>5, <2>1, <2>3, <2>4, <2>5 DEF ThreadInv
<1>6. ASSUME NEW t \in Conn, Serving(t)
      PROVE  /\ tfd[t] \in Fd /\ fdtab[tfd[t]] = t /\ fdtab[tfd[t]] # NoConn
             /\ stage[t] \in {"accepted", "closed"} /\ tleft[t] \in Seq(Byte)
  BY <1>1, <1>2, <1>6 DEF Serving, Sends
<1>7. ASSUME NEW t \in Conn, ThreadRecv(t) PROVE ThreadInv'
  <2>1. /\ tpc[t] = "recv" /\ RecvOk(tfd[t]) /\ tleft' = [tleft EXCEPT ![t] = Data(tfd[t])]
        /\ tpc' = [tpc EXCEPT ![t] = "send"] /\ UNCHANGED <<clientfd, tfd>>
    BY <1>7 DEF ThreadRecv
  <2>2. Serving(t) /\ tleft[t] = <<>>
    BY <1>1, <2>1 DEF Serving, Sends
  <2>3. SockInv' /\ UNCHANGED stage
    BY <1>1, <1>6, <2>1, <2>2, RecvTouches DEF Touches
  <2>4. PICK h \in Seq(Byte) : h = Data(tfd[t])
    BY <1>1, <1>6, <2>1, <2>2, RecvCarries
  <2>5. /\ UNCHANGED <<out, inflight, sent, peer, fdtab>> /\ \A c \in Conn \ {t} : rx'[c] = rx[c]
        /\ Carries(t, peer[t], out[t], h, rx'[t], sent[t])
    <3>1. Carries(t, peer[t], out[t], <<>>, rx[t], sent[t])
      BY <1>1, <2>2
    <3>2. /\ SockTypes /\ SendTypes /\ tfd[t] \in Fd /\ fdtab[tfd[t]] = t /\ fdtab[tfd[t]] # NoConn
          /\ RecvOk(tfd[t])
      BY <1>1, <1>6, <2>1, <2>2
    <3>. QED  BY <2>4, <3>1, <3>2, RecvCarries
  <2>6. SendTypes' /\ \A c \in Conn \ {t} : Carries(c, peer'[c], out'[c], tleft[c], rx'[c], sent'[c])
    BY <1>1, <2>5 DEF SendTypes
  <2>. QED  BY <1>5, <1>6, <2>1, <2>2, <2>3, <2>4, <2>5, <2>6 DEF ThreadPlaces
<1>8. ASSUME NEW t \in Conn, ThreadEnd(t) PROVE ThreadInv'
  <2>1. /\ tpc[t] = "recv" /\ RecvEndClose(tfd[t]) /\ tpc' = [tpc EXCEPT ![t] = "done"]
        /\ UNCHANGED <<clientfd, tfd, tleft>>
    BY <1>8 DEF ThreadEnd
  <2>2. Serving(t) /\ tleft[t] = <<>> /\ tleft' = [tleft EXCEPT ![t] = <<>>] /\ <<>> \in Seq(Byte)
    BY <1>1, <2>1, EmptySeq DEF Serving, Sends
  <2>3. SockInv' /\ stage' = [stage EXCEPT ![t] = "closed"] /\ UNCHANGED <<out, inflight, rx, sent, peer>>
    BY <1>1, <1>6, <2>1, <2>2, CloseSockets DEF RecvEndClose
  <2>4. SendTypes' /\ \A c \in Conn : Carries(c, peer'[c], out'[c], tleft[c], rx'[c], sent'[c])
    BY <1>1, <2>3 DEF SendTypes
  <2>5. stage'[t] = "closed" /\ \A c \in Conn \ {t} : stage'[c] = stage[c]
    BY <1>1, <2>3 DEF SockTypes
  <2>. QED  BY <1>5, <2>1, <2>2, <2>3, <2>4, <2>5 DEF ThreadPlaces
<1>9. ASSUME NEW t \in Conn, ThreadError(t) \/ ThreadSendError(t) PROVE ThreadInv'
  <2>1. /\ Serving(t) /\ UNCHANGED <<clientfd, tfd>>
        /\ \E partial \in BOOLEAN : SendError(tfd[t], partial)
        /\ \/ tpc' = [tpc EXCEPT ![t] = "send"] /\ tleft' = tleft /\ ~Sends(t)
           \/ tpc' = [tpc EXCEPT ![t] = "recv"] /\ tleft' = [tleft EXCEPT ![t] = <<>>]
    <3>1. (tpc[t] = "rest") \in BOOLEAN
      OBVIOUS
    <3>. QED
      BY <1>9, <3>1 DEF ThreadError, ThreadSendError, RecvError, SendError, Serving, Sends
  <2>2. PICK p \in {"send", "recv"} : tpc' = [tpc EXCEPT ![t] = p]
    BY <2>1
  <2>3. tleft' = [tleft EXCEPT ![t] = <<>>] /\ <<>> \in Seq(Byte)
    BY <1>1, <2>1, EmptySeq
  <2>4. /\ SockInv' /\ UNCHANGED <<stage, rx, inflight, out, sent>>
    BY <1>1, <1>6, <2>1, SendErrorTouches DEF Touches, SendError, TakeError, sockVars
  <2>5. peer'[t] \in {"reset", "pipe"} /\ \A c \in Conn \ {t} : peer'[c] = peer[c]
    BY <1>1, <1>6, <2>1 DEF SendError, TakeError, Gone, sockVars, SockTypes
  <2>6. /\ SendTypes' /\ Carries(t, peer'[t], out'[t], <<>>, rx'[t], sent'[t])
        /\ \A c \in Conn \ {t} : Carries(c, peer'[c], out'[c], tleft[c], rx'[c], sent'[c])
    BY <1>1, <2>4, <2>5 DEF SendTypes, Carries
  <2>. QED  BY <1>5, <1>6, <2>1, <2>2, <2>3, <2>4, <2>6 DEF ThreadPlaces
<1>10. ASSUME NEW t \in Conn, ThreadSend(t) PROVE ThreadInv'
  <2>. DEFINE k == Min2(Len(tleft[t]), Room(t))
  <2>1. Serving(t) /\ tfd[t] \in Fd /\ fdtab[tfd[t]] = t /\ fdtab[tfd[t]] # NoConn
    BY <1>6, <1>10 DEF ThreadSend, Serving
  <2>2. /\ Room(t) > 0 /\ SendSome(tfd[t], SubSeq(tleft[t], 1, k)) /\ UNCHANGED <<clientfd, tfd>>
        /\ tleft' = [tleft EXCEPT ![t] = SubSeq(tleft[t], k + 1, Len(tleft[t]))]
        /\ tpc' = [tpc EXCEPT ![t] = IF tleft'[t] = <<>> THEN "recv" ELSE "rest"]
    BY <1>10, <2>1 DEF ThreadSend
  <2>3. k \in 0..Len(tleft[t])
    BY <1>1, <2>2, RoomFits
  <2>4. PICK h \in Seq(Byte) : h = SubSeq(tleft[t], k + 1, Len(tleft[t]))
    BY <1>1, <2>3, Divided
  <2>5. /\ SendTypes' /\ UNCHANGED <<rx, sent, peer, fdtab>>
        /\ \A c \in Conn \ {t} : out'[c] = out[c]
        /\ Carries(t, peer[t], out'[t], h, rx[t], sent[t])
    <3>1. tleft[t] \in Seq(Byte) /\ Carries(t, peer[t], out[t], tleft[t], rx[t], sent[t])
      BY <1>1
    <3>2. PICK g \in Seq(Byte), n \in Nat, fd \in Fd : g = tleft[t] /\ n = k /\ fd = tfd[t] /\ n \in 0..Len(g)
      BY <2>1, <2>3, <3>1
    <3>3. SockTypes /\ SendTypes /\ fdtab[fd] = t /\ SendSome(fd, SubSeq(g, 1, n)) /\ h = SubSeq(g, n + 1, Len(g))
      BY <1>1, <2>1, <2>2, <2>4, <3>2
    <3>4. Carries(t, peer[t], out[t], g, rx[t], sent[t])
      BY <3>1, <3>2
    <3>. QED  BY <3>2, <3>3, <3>4, SendCarries
  <2>6. SockInv' /\ UNCHANGED stage
    BY <1>1, <2>1, <2>2, SendTouches DEF Touches
  <2>7. tleft' = [tleft EXCEPT ![t] = h] /\ tleft'[t] = h
    BY <1>1, <2>2, <2>4
  <2>8. PICK p \in {"recv", "rest"} : tpc' = [tpc EXCEPT ![t] = p] /\ (p = "rest" \/ h = <<>>)
    BY <2>2, <2>7
  <2>9. \A c \in Conn \ {t} : Carries(c, peer'[c], out'[c], tleft[c], rx'[c], sent'[c])
    BY <1>1, <2>5
  <2>10. /\ p \in ThreadPlaces \ {"none", "create", "start"} /\ (p \in {"send", "rest"} \/ h = <<>>)
         /\ stage'[t] \in {"accepted", "closed"} /\ \A c \in Conn \ {t} : stage'[c] = stage[c]
         /\ Carries(t, peer'[t], out'[t], h, rx'[t], sent'[t])
    BY <1>6, <2>1, <2>5, <2>6, <2>8 DEF ThreadPlaces
  <2>. HIDE DEF k
  <2>. QED  BY <1>5, <2>1, <2>2, <2>5, <2>6, <2>7, <2>8, <2>9, <2>10
<1>11. ASSUME NEW t \in Conn, ThreadKilled(t) PROVE ThreadInv'
  <2>1. UNCHANGED <<fdtab, backlog, stage, peer, rx, inflight, sent, out, clientfd, tpc, tfd, tleft>>
    BY <1>11 DEF ThreadKilled, sockVars, threadVars
  <2>2. SockInv' /\ SendTypes'
    BY <1>1, <2>1 DEF SockInv, SockTypes, SendTypes
  <2>. QED  BY <1>1, <2>1, <2>2 DEF ThreadInv, Serving, Sends
<1>. QED
  BY <1>3, <1>4, <1>7, <1>8, <1>9, <1>10, <1>11 DEF ThreadStep

-----------------------------------------------------------------------------
(* The bytes of a client in the first reactor, by number *)

\* Unless the connection is lost, o, r and n more bytes are as many as m.
Amounts(p, o, n, r, m) == p \notin {"reset", "pipe"} => Len(o) + n + Len(r) = m

\* How many bytes the server has read from fd and still to send.
HeldBy(fd) ==
    IF pc = "send" /\ i = fd THEN Len(left)
    ELSE IF fd \in outs THEN rlength[Item(fd)] ELSE 0

ItemBytes ==
    program = "reactor" =>
        /\ SendTypes
        /\ \A fd \in outs : rlength[Item(fd)] \in Nat
        /\ pc = "send" => i \in outs
        /\ \A fd \in Fd : fdtab[fd] # NoConn =>
               LET c == fdtab[fd] IN Amounts(peer[c], out[c], HeldBy(fd), rx[c], sent[c])
        /\ \A c \in Conn : (\A fd \in Fd : fdtab[fd] # c) => Amounts(peer[c], out[c], 0, rx[c], sent[c])

LEMMA ItemsDiffer == \A f, g \in Fd : Item(f) = Item(g) => f = g
<1>. SUFFICES ASSUME NEW f \in Fd, NEW g \in Fd, Item(f) = Item(g) PROVE f = g
  OBVIOUS
<1>1. f \in Int /\ g \in Int
  BY FdFacts
<1>2. f \div ITEM_LEGHTH = g \div ITEM_LEGHTH /\ f % ITEM_LEGHTH = g % ITEM_LEGHTH
  BY DEF Item
<1>3. ITEM_LEGHTH \in Nat /\ ITEM_LEGHTH > 0
  BY ItemAssumption
<1>4. /\ f = ITEM_LEGHTH * (f \div ITEM_LEGHTH) + (f % ITEM_LEGHTH)
      /\ g = ITEM_LEGHTH * (g \div ITEM_LEGHTH) + (g % ITEM_LEGHTH)
  BY <1>1, <1>3
<1>. QED  BY <1>2, <1>4

LEMMA ClientAmounts ==
    ASSUME SockTypes, SendTypes, NEW d \in Conn, Client(d), NEW c \in Conn, NEW n \in Int,
           Amounts(peer[c], out[c], n, rx[c], sent[c])
    PROVE  Amounts(peer'[c], out'[c], n, rx'[c], sent'[c])
<1>1. out' = out
  BY DEF Client, Connect, ClientSend, ClientFin, ClientReset, ClientRead
<1>2. CASE ClientSend(d) /\ c = d
  <2>1. /\ sent' = [sent EXCEPT ![c] = sent[c] + 1] /\ peer[c] = "open" /\ peer' = peer
        /\ rx' = [rx EXCEPT ![c] = Append(rx[c], <<c, sent[c] + 1>>)]
    BY <1>2 DEF ClientSend
  <2>2. /\ out[c] \in Seq(Byte) /\ rx[c] \in Seq(Byte) /\ sent[c] \in Nat /\ <<c, sent[c] + 1>> \in Byte
        /\ rx'[c] = Append(rx[c], <<c, sent[c] + 1>>) /\ sent'[c] = sent[c] + 1
    BY <2>1 DEF SockTypes, SendTypes, Byte
  <2>3. /\ Len(rx'[c]) = Len(rx[c]) + 1 /\ Len(rx[c]) \in Nat /\ Len(out[c]) \in Nat
        /\ sent[c] \in Int
    BY <2>2, AppendProperties, LenProperties
  <2>4. Len(out[c]) + n + Len(rx[c]) = sent[c]
    BY <2>1 DEF Amounts
  <2>5. sent'[c] = sent[c] + 1 /\ Len(out'[c]) = Len(out[c])
    BY <1>1, <2>2
  <2>6. PICK a \in Nat, b \in Nat, m \in Int : a = Len(out[c]) /\ b = Len(rx[c]) /\ m = sent[c]
    BY <2>3
  <2>7. Len(out'[c]) + n + Len(rx'[c]) = sent'[c]
    <3>1. a + n + b = m
      BY <2>4, <2>6
    <3>2. a + n + (b + 1) = m + 1
      BY <3>1
    <3>. QED  BY <2>3, <2>5, <2>6, <3>2
  <2>. QED  BY <2>7 DEF Amounts
<1>3. CASE ~(ClientSend(d) /\ c = d)
  <2>1. /\ rx'[c] = rx[c] /\ sent'[c] = sent[c]
        /\ peer[c] \in {"reset", "pipe"} => peer'[c] \in {"reset", "pipe"}
    BY <1>3 DEF Client, Connect, ClientSend, ClientFin, ClientReset, ClientRead, SockTypes, Reaching
  <2>. QED  BY <1>1, <2>1 DEF Amounts
<1>. QED  BY <1>2, <1>3

\* recv() takes as many bytes from what waits as it returns.
LEMMA RecvSplits ==
    ASSUME SockTypes, NEW fd \in Fd, fdtab[fd] # NoConn, RecvOk(fd)
    PROVE  LET c == fdtab[fd]
           IN  /\ Len(Data(fd)) \in Nat /\ Len(rx'[c]) \in Nat
               /\ Len(rx'[c]) + Len(Data(fd)) = Len(rx[c])
<1>. DEFINE c == fdtab[fd]
            k == Min2(Len(rx[c]), BUFFER_LENGTH)
<1>1. c \in Conn /\ rx \in [Conn -> Seq(Byte)] /\ rx[c] \in Seq(Byte) /\ Len(rx[c]) \in Nat
  BY DEF SockTypes
<1>2. k \in 0..Len(rx[c])
  BY <1>1, SizeAssumption DEF Min2
<1>3. Len(Data(fd)) = k
  BY <1>1, <1>2, RestOf DEF Data
<1>4. rx'[c] = SubSeq(rx[c], k + 1, Len(rx[c]))
  BY <1>1, <1>3 DEF RecvOk
<1>. HIDE DEF k
<1>5. Len(rx'[c]) = Len(rx[c]) - k
  BY <1>1, <1>2, <1>4
<1>. QED  BY <1>1, <1>2, <1>3, <1>5

\* send() takes as many bytes as are no longer left.
LEMMA TakeSplits ==
    ASSUME SockTypes, SendTypes, fdtab[i] \in Conn, left \in Seq({Zero}), TakeBytes
    PROVE  LET c == fdtab[i]
           IN  /\ fdtab' = fdtab /\ SendTypes' /\ UNCHANGED <<rx, sent, peer>>
               /\ \A d \in Conn \ {c} : out'[d] = out[d]
               /\ Len(out'[c]) + Len(left') = Len(out[c]) + Len(left)
               /\ Len(left') \in Nat /\ Len(out'[c]) \in Nat
<1>. DEFINE c == fdtab[i]
            k == Min2(Len(left), Room(c))
<1>1. left \in Seq(Byte) /\ Len(left) \in Nat /\ out[c] \in Seq(Byte) /\ out \in [Conn -> Seq(Byte)]
  BY DEF Byte, SendTypes
<1>2. /\ Room(c) > 0 \/ left = <<>>
      /\ SendSome(i, SubSeq(left, 1, k)) /\ left' = SubSeq(left, k + 1, Len(left))
  BY DEF TakeBytes
<1>3. k \in 0..Len(left)
  BY <1>1, <1>2, RoomFits
<1>. HIDE DEF k
<1>4. /\ fdtab' = fdtab /\ SendTypes' /\ UNCHANGED <<rx, sent, peer>>
      /\ \A d \in Conn \ {c} : out'[d] = out[d]
  BY <1>1, <1>2, <1>3, SendCarries
<1>5. /\ SubSeq(left, 1, k) \in Seq(Byte) /\ Len(SubSeq(left, 1, k)) = k
      /\ Len(left') = Len(left) - k
  BY <1>1, <1>2, <1>3
<1>6. out'[c] = out[c] \o SubSeq(left, 1, k)
  BY <1>1, <1>2 DEF SendSome
<1>7. Len(out'[c]) = Len(out[c]) + k /\ Len(out[c]) \in Nat
  BY <1>1, <1>5, <1>6, ConcatProperties, LenProperties
<1>. QED  BY <1>1, <1>3, <1>4, <1>5, <1>7

LEMMA ItemBytesInit == Init => ItemBytes
<1>. SUFFICES ASSUME Init PROVE ItemBytes
  OBVIOUS
<1>1. pc = "wait" /\ outs = {} /\ SendTypes
      /\ \A fd \in Fd : fdtab[fd] = NoConn
  BY SocketsInit DEF Init, LoopInit, ItemInit, SockInit
<1>2. ASSUME NEW c \in Conn PROVE Amounts(peer[c], out[c], 0, rx[c], sent[c])
  <2>1. Len(out[c]) = 0 /\ Len(rx[c]) = 0 /\ sent[c] = 0
    BY SocketsInit, EmptySeq
  <2>. QED  BY <2>1 DEF Amounts
<1>. QED  BY <1>1, <1>2 DEF ItemBytes

LEMMA ItemBytesClient ==
    ASSUME Loops, LoopInv, ItemBytes, program = "reactor", NEW d \in Conn, Client(d),
           UNCHANGED <<loopVars, ownVars>>
    PROVE  ItemBytes'
<1>1. UNCHANGED <<program, outs, rlength, pc, i, left>>
  BY DEF loopVars, ownVars, itemVars
<1>2. /\ SockTypes /\ SendTypes /\ fdtab \in [Fd -> Conn \cup {NoConn}] /\ fdtab' = fdtab
  BY ClientSockets DEF LoopInv, SockInv, SockTypes, ItemBytes
<1>3. left \in Seq({Zero})
  BY DEF LoopInv, LoopTypes, ReactorTypes
<1>4. \A fd \in Fd : HeldBy(fd)' = HeldBy(fd) /\ HeldBy(fd) \in Int
  BY <1>1, <1>3, LenProperties DEF HeldBy, ItemBytes
<1>5. SendTypes'
  <2>1. <<>> \in Seq(Byte)
    BY EmptySeq
  <2>2. \A n \in Taken : n - 1 \in Taken
    BY SizeAssumption DEF Taken
  <2>3. 0 \in Taken
    BY SizeAssumption DEF Taken
  <2>. QED
    BY <1>2, <2>2, <2>3 DEF Client, Connect, ClientSend, ClientFin, ClientReset, ClientRead, SendTypes
<1>6. ASSUME NEW fd \in Fd, fdtab[fd] # NoConn, NEW c, c = fdtab[fd]
      PROVE  Amounts(peer'[c], out'[c], HeldBy(fd), rx'[c], sent'[c])
  <2>1. c \in Conn /\ Amounts(peer[c], out[c], HeldBy(fd), rx[c], sent[c])
    BY <1>2, <1>6 DEF ItemBytes
  <2>. QED  BY <1>2, <1>4, <2>1, ClientAmounts
<1>7. ASSUME NEW c \in Conn, \A fd \in Fd : fdtab[fd] # c
      PROVE  Amounts(peer'[c], out'[c], 0, rx'[c], sent'[c])
  <2>1. Amounts(peer[c], out[c], 0, rx[c], sent[c])
    BY <1>7 DEF ItemBytes
  <2>. QED  BY <1>2, <2>1, ClientAmounts
<1>. QED  BY <1>1, <1>2, <1>4, <1>5, <1>6, <1>7 DEF ItemBytes

\* A call on fd that opens and closes nothing.
LEMMA ItemMoves ==
    ASSUME LoopInv, ItemBytes, program = "reactor", program' = program,
           NEW fd \in Fd, fdtab[fd] # NoConn, fdtab' = fdtab, SendTypes',
           \A c \in Conn \ {fdtab[fd]} : UNCHANGED <<peer[c], out[c], rx[c], sent[c]>>,
           \A g \in Fd \ {fd} : HeldBy(g)' = HeldBy(g),
           \A g \in outs' : rlength'[Item(g)] \in Nat,
           pc' = "send" => i' \in outs',
           Amounts(peer'[fdtab[fd]], out'[fdtab[fd]], HeldBy(fd)', rx'[fdtab[fd]], sent'[fdtab[fd]])
    PROVE  ItemBytes'
<1>1. ASSUME NEW g \in Fd, fdtab[g] # NoConn, NEW c, c = fdtab[g]
      PROVE  Amounts(peer'[c], out'[c], HeldBy(g)', rx'[c], sent'[c])
  <2>1. CASE g = fd
    BY <1>1, <2>1
  <2>2. CASE g # fd
    <3>1. c \in Conn \ {fdtab[fd]}
      BY <1>1, <2>2 DEF LoopInv, SockInv, SockTypes
    <3>. QED  BY <1>1, <2>2, <3>1 DEF ItemBytes
  <2>. QED  BY <2>1, <2>2
<1>2. ASSUME NEW c \in Conn, \A g \in Fd : fdtab[g] # c
      PROVE  Amounts(peer'[c], out'[c], 0, rx'[c], sent'[c])
  BY <1>2 DEF ItemBytes
<1>. QED  BY <1>1, <1>2 DEF ItemBytes

LEMMA ItemBytesServer ==
    ASSUME Loops, LoopInv, ItemBytes, program = "reactor", program' = program, ItemStep,
           UNCHANGED <<selectVars, threadVars>>
    PROVE  ItemBytes'
<1>1. /\ SockInv /\ SockTypes /\ SendTypes /\ Batched
      /\ fdtab \in [Fd -> Conn \cup {NoConn}] /\ outs \subseteq Fd /\ left \in Seq({Zero})
      /\ rlength \in [{Item(fd) : fd \in Fd} -> Int]
      /\ \A fd \in outs : fdtab[fd] # NoConn /\ rlength[Item(fd)] \in Nat
      /\ Len(left) \in Nat
  <2>1. left \in Seq({Zero}) /\ Batched
    BY DEF LoopInv, LoopTypes, ReactorTypes, Batched
  <2>2. \A fd \in outs : fdtab[fd] # NoConn
    BY FdFacts DEF LoopInv, LoopTypes, WatchInv, Writing
  <2>. QED  BY <2>1, <2>2, LenProperties DEF LoopInv, LoopTypes, ReactorTypes, SockInv, SockTypes, ItemBytes
<1>2. /\ \A fd \in Fd : fdtab[fd] # NoConn =>
            Amounts(peer[fdtab[fd]], out[fdtab[fd]], HeldBy(fd), rx[fdtab[fd]], sent[fdtab[fd]])
      /\ \A c \in Conn : (\A fd \in Fd : fdtab[fd] # c) => Amounts(peer[c], out[c], 0, rx[c], sent[c])
  BY DEF ItemBytes
<1>3. ASSUME NEW fd \in Fd, pc = "read", fd \in ready PROVE fdtab[fd] # NoConn /\ fdtab[fd] \in Conn
  BY <1>1, <1>3, FdFacts DEF LoopInv, PendingInv, ToCome, Good
<1>4. CASE ItemWait \/ (SendKilled /\ UNCHANGED itemVars)
  <2>1. /\ UNCHANGED <<fdtab, peer, out, rx, sent, inflight, outs, rlength, left, i>>
        /\ pc' = pc \/ (pc # "send" /\ pc' # "send")
    BY <1>4 DEF ItemWait, SendKilled, sockVars, itemVars
  <2>2. \A fd \in Fd : HeldBy(fd)' = HeldBy(fd)
    BY <2>1 DEF HeldBy
  <2>. QED  BY <2>1, <2>2 DEF ItemBytes, SendTypes
<1>5. CASE ItemAccept \/ ItemKilled
  <2>1. PICK fd \in Fd : /\ Accept(fd)
                         /\ \/ rlength' = [rlength EXCEPT ![Item(fd)] = 0]
                            \/ rlength' = rlength
    BY <1>5 DEF ItemAccept, ItemKilled, itemVars, Watch
  <2>2. /\ pc = "read" /\ pc' \in {"read", "wait"} /\ UNCHANGED <<outs, i, left>>
    BY <1>5 DEF ItemAccept, ItemKilled, NextEvent, itemVars
  <2>3. /\ fdtab' = [fdtab EXCEPT ![fd] = Head(backlog)] /\ fdtab[fd] = NoConn /\ Head(backlog) \in Conn
        /\ UNCHANGED <<peer, rx, inflight, sent, out>> /\ SockInv'
    BY <1>1, <2>1, AcceptSockets DEF Accept
  <2>4. fd \notin outs /\ \A g \in outs : g \in Fd /\ Item(g) # Item(fd)
    BY <1>1, <2>3, ItemsDiffer
  <2>5. \A g \in outs : rlength'[Item(g)] = rlength[Item(g)]
    BY <1>1, <2>1, <2>4
  <2>6. \A g \in Fd : HeldBy(g)' = HeldBy(g)
    BY <2>2, <2>5 DEF HeldBy
  <2>7. HeldBy(fd) = 0
    BY <2>2, <2>4 DEF HeldBy
  <2>8. \A g \in Fd : fdtab[g] # Head(backlog)
    <3>1. \A g \in Fd : fdtab'[g] = Head(backlog) => g = fd
      BY <1>1, <2>3, ConnAssumption DEF SockInv
    <3>. QED  BY <1>1, <2>3, <3>1, ConnAssumption
  <2>9. ASSUME NEW g \in Fd, fdtab'[g] # NoConn, NEW c, c = fdtab'[g]
        PROVE  Amounts(peer'[c], out'[c], HeldBy(g)', rx'[c], sent'[c])
    <3>1. CASE g = fd
      BY <1>1, <1>2, <2>3, <2>6, <2>7, <2>8, <2>9, <3>1
    <3>2. CASE g # fd
      BY <1>1, <1>2, <2>3, <2>6, <2>9, <3>2
    <3>. QED  BY <3>1, <3>2
  <2>10. ASSUME NEW c \in Conn, \A g \in Fd : fdtab'[g] # c
         PROVE  Amounts(peer'[c], out'[c], 0, rx'[c], sent'[c])
    <3>1. \A g \in Fd : fdtab[g] # c
      BY <1>1, <2>3, <2>10, ConnAssumption
    <3>. QED  BY <1>2, <2>3, <3>1
  <2>11. SendTypes' /\ \A g \in outs' : rlength'[Item(g)] \in Nat
    BY <1>1, <2>2, <2>3, <2>5 DEF SendTypes
  <2>. QED  BY <2>2, <2>9, <2>10, <2>11 DEF ItemBytes
<1>6. ASSUME NEW fd \in Fd, ItemRecv(fd) PROVE ItemBytes'
  <2>. DEFINE c == fdtab[fd]
  <2>1. /\ pc = "read" /\ fd \in ready /\ fd \notin outs /\ RecvOk(fd) /\ pc' # "send"
        /\ rlength' = [rlength EXCEPT ![Item(fd)] = Len(Data(fd))] /\ outs' = outs \cup {fd}
    BY <1>6 DEF ItemRecv, NextEvent
  <2>2. c \in Conn /\ c # NoConn
    BY <1>3, <2>1
  <2>3. /\ Data(fd) \in Seq(Byte) /\ UNCHANGED <<out, inflight, sent, peer, fdtab>>
        /\ \A d \in Conn \ {c} : rx'[d] = rx[d]
    BY <1>1, <2>1, <2>2, RecvCarries
  <2>4. /\ Len(Data(fd)) \in Nat /\ Len(rx'[c]) + Len(Data(fd)) = Len(rx[c])
    BY <1>1, <2>1, <2>2, RecvSplits
  <2>5. rlength'[Item(fd)] = Len(Data(fd)) /\ \A g \in Fd \ {fd} : rlength'[Item(g)] = rlength[Item(g)]
    BY <1>1, <2>1, ItemsDiffer
  <2>6. HeldBy(fd) = 0 /\ HeldBy(fd)' = Len(Data(fd)) /\ \A g \in Fd \ {fd} : HeldBy(g)' = HeldBy(g)
    BY <2>1, <2>5 DEF HeldBy
  <2>7. Amounts(peer'[c], out'[c], HeldBy(fd)', rx'[c], sent'[c])
    <3>1. Amounts(peer[c], out[c], 0, rx[c], sent[c])
      BY <1>2, <2>2, <2>6
    <3>2. Len(out[c]) \in Nat /\ Len(rx[c]) \in Nat /\ Len(rx'[c]) \in Nat
      BY <1>1, <2>1, <2>2, LenProperties, RecvSplits DEF SockTypes, SendTypes
    <3>3. ASSUME Len(out[c]) + 0 + Len(rx[c]) = sent[c]
          PROVE  Len(out'[c]) + HeldBy(fd)' + Len(rx'[c]) = sent'[c]
      <4>1. out'[c] = out[c] /\ sent'[c] = sent[c] /\ HeldBy(fd)' = Len(Data(fd))
        BY <2>3, <2>6
      <4>2. PICK a \in Nat, b \in Nat, n \in Nat, e \in Nat :
                a = Len(out[c]) /\ b = Len(rx[c]) /\ n = Len(Data(fd)) /\ e = Len(rx'[c])
        BY <2>4, <3>2
      <4>3. a + 0 + b = sent[c] /\ e + n = b
        BY <2>4, <3>3, <4>2
      <4>4. a + n + e = sent[c]
        BY <4>3
      <4>. QED  BY <4>1, <4>2, <4>4
    <3>. QED  BY <2>3, <3>1, <3>3 DEF Amounts
  <2>8. SendTypes' /\ \A g \in outs' : rlength'[Item(g)] \in Nat
    BY <1>1, <2>1, <2>3, <2>4, <2>5 DEF SendTypes
  <2>. QED  BY <2>1, <2>2, <2>3, <2>6, <2>7, <2>8, ItemMoves
<1>7. ASSUME NEW fd \in Fd, ItemClose(fd) PROVE ItemBytes'
  <2>1. /\ pc = "read" /\ fd \in ready /\ fd \notin outs /\ RecvEndClose(fd) /\ pc' # "send"
        /\ rlength' = [rlength EXCEPT ![Item(fd)] = 0] /\ outs' = outs
    BY <1>7 DEF ItemClose, NextEvent
  <2>2. fdtab[fd] \in Conn /\ fdtab[fd] # NoConn
    BY <1>3, <2>1
  <2>3. fdtab' = [fdtab EXCEPT ![fd] = NoConn] /\ UNCHANGED <<out, inflight, sent, peer, rx>>
    BY <2>1 DEF RecvEndClose
  <2>4. \A g \in Fd \ {fd} : rlength'[Item(g)] = rlength[Item(g)]
    BY <1>1, <2>1, ItemsDiffer
  <2>5. HeldBy(fd) = 0 /\ \A g \in Fd : HeldBy(g)' = HeldBy(g)
    BY <2>1, <2>4 DEF HeldBy
  <2>6. ASSUME NEW g \in Fd, fdtab'[g] # NoConn, NEW c, c = fdtab'[g]
        PROVE  Amounts(peer'[c], out'[c], HeldBy(g)', rx'[c], sent'[c])
    BY <1>1, <1>2, <2>3, <2>5, <2>6
  <2>7. ASSUME NEW c \in Conn, \A g \in Fd : fdtab'[g] # c
        PROVE  Amounts(peer'[c], out'[c], 0, rx'[c], sent'[c])
    <3>1. CASE c = fdtab[fd]
      BY <1>2, <2>2, <2>3, <2>5, <3>1
    <3>2. CASE c # fdtab[fd]
      <4>1. \A g \in Fd : fdtab[g] # c
        BY <1>1, <2>3, <2>7, <3>2
      <4>. QED  BY <1>2, <2>3, <4>1
    <3>. QED  BY <3>1, <3>2
  <2>8. SendTypes' /\ \A g \in outs' : rlength'[Item(g)] \in Nat
    BY <1>1, <2>1, <2>3, <2>4 DEF SendTypes
  <2>. QED  BY <2>1, <2>6, <2>7, <2>8 DEF ItemBytes
<1>8. ASSUME NEW fd \in Fd, ItemError(fd) PROVE ItemBytes'
  <2>1. /\ pc = "read" /\ fd \in ready /\ fd \notin outs /\ RecvError(fd) /\ pc' # "send"
        /\ rlength' = [rlength EXCEPT ![Item(fd)] = -1] /\ outs' = outs
    BY <1>8 DEF ItemError, NextEvent
  <2>2. fdtab[fd] \in Conn /\ fdtab[fd] # NoConn
    BY <1>3, <2>1
  <2>3. UNCHANGED <<fdtab, out, inflight, sent, rx>> /\ peer' = [peer EXCEPT ![fdtab[fd]] = "pipe"]
    BY <2>1 DEF RecvError, TakeError
  <2>4. \A g \in Fd \ {fd} : rlength'[Item(g)] = rlength[Item(g)]
    BY <1>1, <2>1, ItemsDiffer
  <2>5. \A g \in Fd \ {fd} : HeldBy(g)' = HeldBy(g)
    BY <2>1, <2>4 DEF HeldBy
  <2>6. peer'[fdtab[fd]] = "pipe" /\ \A c \in Conn \ {fdtab[fd]} : peer'[c] = peer[c]
    BY <1>1, <2>2, <2>3 DEF SockTypes
  <2>7. SendTypes' /\ \A g \in outs' : rlength'[Item(g)] \in Nat
    BY <1>1, <2>1, <2>3, <2>4 DEF SendTypes
  <2>8. Amounts(peer'[fdtab[fd]], out'[fdtab[fd]], HeldBy(fd)', rx'[fdtab[fd]], sent'[fdtab[fd]])
    BY <2>6 DEF Amounts
  <2>. QED  BY <2>1, <2>2, <2>3, <2>5, <2>6, <2>7, <2>8, ItemMoves
<1>9. ASSUME NEW fd \in Fd, ItemWrite(fd) PROVE ItemBytes'
  <2>1. /\ pc = "read" /\ fd \in ready /\ fd \in outs /\ pc' = "send" /\ i' = fd
        /\ left' = [k \in 1..rlength[Item(fd)] |-> Zero]
        /\ UNCHANGED <<fdtab, peer, out, rx, sent, inflight, outs, rlength>>
    BY <1>9 DEF ItemWrite, sockVars, itemVars
  <2>2. Len(left') = rlength[Item(fd)]
    <3>1. rlength[Item(fd)] \in Nat
      BY <1>1, <2>1
    <3>. QED  BY <2>1, <3>1
  <2>3. \A g \in Fd : HeldBy(g)' = HeldBy(g)
    BY <2>1, <2>2 DEF HeldBy
  <2>. QED  BY <2>1, <2>3 DEF ItemBytes, SendTypes
<1>10. CASE ItemSend
  <2>. DEFINE c == fdtab[i]
  <2>1. pc = "send" /\ i \in Fd /\ i \in outs /\ c # NoConn /\ c \in Conn
    BY <1>1, <1>10 DEF ItemSend, Sending, LoopInv, PlaceInv, ItemBytes
  <2>2. /\ UNCHANGED <<rlength, i>>
        /\ \/ pc' = "send" /\ outs' = outs
           \/ pc' # "send" /\ outs' = outs \ {i}
    BY <1>10, <2>1 DEF ItemSend, Sending, ItemSent, NextEvent, itemVars
  <2>3. HeldBy(i) = Len(left) /\ \A g \in Fd \ {i} : HeldBy(g)' = HeldBy(g)
    BY <2>1, <2>2 DEF HeldBy
  <2>4. (\A g \in outs' : rlength'[Item(g)] \in Nat) /\ (pc' = "send" => i' \in outs')
    BY <1>1, <2>1, <2>2
  <2>5. ASSUME fdtab' = fdtab, SendTypes',
               \A d \in Conn \ {c} : peer'[d] = peer[d] /\ out'[d] = out[d] /\ rx'[d] = rx[d] /\ sent'[d] = sent[d],
               Amounts(peer'[c], out'[c], HeldBy(i)', rx'[c], sent'[c])
        PROVE  ItemBytes'
    <3>1. PICK fd \in Fd : fd = i
      BY <2>1
    <3>2. fdtab[fd] # NoConn /\ HeldBy(fd)' = HeldBy(i)' /\ \A g \in Fd \ {fd} : HeldBy(g)' = HeldBy(g)
      BY <2>1, <2>2, <2>3, <3>1 DEF HeldBy
    <3>3. Amounts(peer'[fdtab[fd]], out'[fdtab[fd]], HeldBy(fd)', rx'[fdtab[fd]], sent'[fdtab[fd]])
      BY <2>5, <3>1, <3>2
    <3>4. \A d \in Conn \ {fdtab[fd]} : UNCHANGED <<peer[d], out[d], rx[d], sent[d]>>
      BY <2>5, <3>1
    <3>. QED  BY <2>4, <2>5, <3>2, <3>3, <3>4, ItemMoves
  <2>6. CASE TakeBytes /\ (left' = <<>> \/ pc' = "send")
    <3>1. /\ fdtab' = fdtab /\ SendTypes' /\ UNCHANGED <<rx, sent, peer>>
          /\ \A d \in Conn \ {c} : out'[d] = out[d]
          /\ Len(out'[c]) + Len(left') = Len(out[c]) + Len(left) /\ Len(left') \in Nat
          /\ Len(out'[c]) \in Nat
      BY <1>1, <2>1, <2>6, TakeSplits
    <3>2. HeldBy(i)' = Len(left')
      BY <2>2, <2>6, EmptySeq DEF HeldBy
    <3>3. Amounts(peer'[c], out'[c], HeldBy(i)', rx'[c], sent'[c])
      <4>1. Amounts(peer[c], out[c], Len(left), rx[c], sent[c])
        BY <1>2, <2>1, <2>3
      <4>2. Len(rx[c]) \in Nat /\ Len(out[c]) \in Nat
        BY <1>1, <2>1, LenProperties DEF SockTypes, SendTypes
      <4>3. ASSUME Len(out[c]) + Len(left) + Len(rx[c]) = sent[c]
            PROVE  Len(out'[c]) + HeldBy(i)' + Len(rx'[c]) = sent'[c]
        BY <1>1, <3>1, <3>2, <4>2, <4>3
      <4>. QED  BY <3>1, <4>1, <4>3 DEF Amounts
    <3>. QED  BY <2>5, <3>1, <3>3
  <2>7. ASSUME NEW partial \in BOOLEAN, SendError(i, partial) PROVE ItemBytes'
    <3>1. /\ UNCHANGED <<fdtab, out, rx, sent, inflight>>
          /\ peer'[c] \in {"reset", "pipe"} /\ \A d \in Conn \ {c} : peer'[d] = peer[d]
      BY <1>1, <2>1, <2>7 DEF SendError, TakeError, Gone, sockVars, SockTypes
    <3>2. SendTypes' /\ Amounts(peer'[c], out'[c], HeldBy(i)', rx'[c], sent'[c])
      BY <1>1, <3>1 DEF Amounts, SendTypes
    <3>. QED  BY <2>5, <3>1, <3>2
  <2>8. Partial \in BOOLEAN
    BY DEF Partial
  <2>. QED  BY <1>10, <2>2, <2>6, <2>7, <2>8 DEF ItemSend, Sending
<1>. QED
  BY <1>4, <1>5, <1>6, <1>7, <1>8, <1>9, <1>10 DEF ItemStep

-----------------------------------------------------------------------------
(* The bytes of a client, in every program *)

BytesInv == program \in Programs /\ PollerBytes /\ ThreadInv /\ ItemBytes

LEMMA PollerBytesInit == Init => PollerBytes
<1>. SUFFICES ASSUME Init PROVE PollerBytes
  OBVIOUS
<1>1. pc = "wait" /\ \A c \in Conn : HeldOf(c) = <<>>
  BY DEF Init, LoopInit, HeldOf
<1>. QED  BY <1>1, SocketsInit DEF PollerBytes

LEMMA PollerBytesClient ==
    ASSUME LoopInv, Poller, PollerBytes, NEW d \in Conn, Client(d), UNCHANGED <<loopVars, ownVars>>
    PROVE  PollerBytes'
<1>1. UNCHANGED <<program, pc, i, left>>
  BY DEF loopVars
<1>2. SockTypes /\ SendTypes /\ fdtab' = fdtab
  BY ClientSockets DEF LoopInv, SockInv, PollerBytes
<1>3. ASSUME NEW c \in Conn
      PROVE  SendTypes' /\ Carries(c, peer'[c], out'[c], HeldOf(c), rx'[c], sent'[c])
  <2>1. HeldOf(c) \in Seq(Byte) /\ Carries(c, peer[c], out[c], HeldOf(c), rx[c], sent[c])
    BY EmptySeq DEF PollerBytes, HeldOf
  <2>2. PICK h \in Seq(Byte) : h = HeldOf(c)
    BY <2>1
  <2>3. Carries(c, peer[c], out[c], h, rx[c], sent[c])
    BY <2>1, <2>2
  <2>. QED  BY <1>2, <2>2, <2>3, ClientCarries
<1>4. \A c \in Conn : HeldOf(c)' = HeldOf(c)
  BY <1>1, <1>2 DEF HeldOf
<1>. QED  BY <1>1, <1>3, <1>4 DEF PollerBytes

LEMMA BytesInvInit == Init => BytesInv
  BY PollerBytesInit, ThreadInvInit, ItemBytesInit DEF BytesInv, Init, LoopInit

LEMMA BytesInvStep == ServerInv /\ BytesInv /\ [Next]_vars => BytesInv'
<1>. SUFFICES ASSUME ServerInv, BytesInv, [Next]_vars PROVE BytesInv'
  OBVIOUS
<1>1. CASE UNCHANGED vars
  <2>1. /\ UNCHANGED <<fdtab, backlog, stage, peer, rx, inflight, sent, out>>
        /\ UNCHANGED <<program, pc, i, left, outs, rlength, clientfd, tpc, tfd, tleft>>
    BY <1>1 DEF vars, sockVars, loopVars, ownVars, itemVars, threadVars
  <2>2. SendTypes' = SendTypes /\ SockInv' = SockInv
    BY <2>1 DEF SendTypes, SockInv, SockTypes
  <2>3. \A c \in Conn : HeldOf(c)' = HeldOf(c)
    BY <2>1 DEF HeldOf
  <2>4. \A fd \in Fd : HeldBy(fd)' = HeldBy(fd)
    BY <2>1 DEF HeldBy
  <2>5. PollerBytes'
    BY <2>1, <2>2, <2>3 DEF BytesInv, PollerBytes, Poller
  <2>6. ItemBytes'
    BY <2>1, <2>2, <2>4 DEF BytesInv, ItemBytes
  <2>7. ThreadInv'
    BY <2>1, <2>2 DEF BytesInv, ThreadInv, Serving, Sends, Loops
  <2>. QED  BY <2>1, <2>5, <2>6, <2>7 DEF BytesInv
<1>2. CASE Next
  <2>1. program' = program
    BY <1>2, ProgramStays
  <2>2. CASE Poller
    <3>1. LoopInv /\ Loops /\ program # "reactor" /\ PollerBytes
      BY <2>2 DEF ServerInv, Loops, Poller, BytesInv
    <3>2. PollerBytes'
      <4>1. ASSUME NEW d \in Conn, Client(d), UNCHANGED <<loopVars, ownVars>> PROVE PollerBytes'
        BY <2>2, <3>1, <4>1, PollerBytesClient
      <4>2. CASE Server
        <5>1. CASE program \in {"server4", "server5"}
          BY <2>1, <2>2, <3>1, <4>2, <5>1, PollSteps, PollerBytesServer DEF Server
        <5>2. CASE program = "server6"
          BY <2>1, <2>2, <3>1, <4>2, <5>2, EpollSteps, PollerBytesServer DEF Server
        <5>. QED  BY <2>2, <5>1, <5>2 DEF Poller
      <4>. QED  BY <1>2, <4>1, <4>2 DEF Next
    <3>3. ThreadInv' /\ ItemBytes'
      BY <2>1, <3>1 DEF ThreadInv, ItemBytes, Loops
    <3>. QED  BY <2>1, <3>2, <3>3 DEF BytesInv
  <2>3. CASE ~Loops
    <3>1. ~Poller /\ program # "reactor" /\ ThreadInv /\ program \in {"server", "server2"}
      BY <2>3 DEF Loops, Poller, BytesInv
    <3>2. ThreadInv'
      <4>1. ASSUME NEW d \in Conn, Client(d), UNCHANGED <<loopVars, ownVars>> PROVE ThreadInv'
        BY <2>3, <3>1, <4>1, ThreadClients
      <4>2. CASE Server
        <5>1. ThreadStep
          BY <3>1, <4>2 DEF Server
        <5>. QED  BY <2>1, <2>3, <3>1, <5>1, ThreadKeeps
      <4>. QED  BY <1>2, <4>1, <4>2 DEF Next
    <3>3. PollerBytes' /\ ItemBytes'
      BY <2>1, <3>1 DEF PollerBytes, ItemBytes, Poller
    <3>. QED  BY <2>1, <3>2, <3>3 DEF BytesInv
  <2>4. CASE program = "reactor"
    <3>1. Loops /\ ~Poller /\ LoopInv /\ ItemBytes
      BY <2>4 DEF Loops, Poller, ServerInv, BytesInv
    <3>2. ItemBytes'
      <4>1. ASSUME NEW d \in Conn, Client(d), UNCHANGED <<loopVars, ownVars>> PROVE ItemBytes'
        BY <2>4, <3>1, <4>1, ItemBytesClient
      <4>2. CASE Server
        <5>1. ItemStep /\ UNCHANGED <<selectVars, threadVars>>
          BY <2>4, <4>2 DEF Server
        <5>. QED  BY <2>1, <2>4, <3>1, <5>1, ItemBytesServer
      <4>. QED  BY <1>2, <4>1, <4>2 DEF Next
    <3>3. PollerBytes' /\ ThreadInv'
      BY <2>1, <3>1 DEF PollerBytes, ThreadInv, Poller, Loops
    <3>. QED  BY <2>1, <3>2, <3>3 DEF BytesInv
  <2>5. CASE ~Poller /\ Loops /\ program # "reactor"
    BY <2>1, <2>5 DEF BytesInv, PollerBytes, ThreadInv, ItemBytes, Poller, Loops
  <2>. QED  BY <2>2, <2>3, <2>4, <2>5
<1>. QED  BY <1>1, <1>2

LEMMA BytesInvEcho == ServerInv /\ BytesInv => EchoConservation
<1>. SUFFICES ASSUME ServerInv, BytesInv, program # "server3", OwnClient,
                     NEW fd \in Fd, fdtab[fd] # NoConn, ~Gone(fdtab[fd])
              PROVE  LET c == fdtab[fd]
                         bytes == out[c] \o Held(fd) \o rx[c]
                     IN  IF program = "reactor" THEN Len(bytes) = sent[c] ELSE bytes = Stream(c, sent[c])
  BY DEF EchoConservation
<1>. DEFINE c == fdtab[fd]
<1>1. CASE ~Loops
  <2>1. /\ c \in Conn /\ ThreadInv /\ program # "reactor"
        /\ Carries(c, peer[c], out[c], tleft[c], rx[c], sent[c])
    <3>1. program # "reactor"
      BY <1>1 DEF Loops
    <3>2. ThreadInv /\ SockTypes
      BY <1>1 DEF BytesInv, ThreadInv, SockInv
    <3>3. c \in Conn
      BY <3>2 DEF SockTypes
    <3>. QED  BY <1>1, <3>1, <3>2, <3>3 DEF ThreadInv
  <2>2. Held(fd) = tleft[c]
    <3>1. Held(fd) = IF \E t \in Conn : Sends(t) /\ tfd[t] = fd THEN tleft[c] ELSE <<>>
      BY <1>1, <2>1 DEF Held
    <3>2. Sends(c) => tfd[c] = fd
      <4>1. /\ \A t \in Conn : Serving(t) => tfd[t] \in Fd /\ fdtab[tfd[t]] = t
            /\ \A f, g \in Fd : fdtab[f] # NoConn /\ fdtab[f] = fdtab[g] => f = g
        BY <1>1, <2>1 DEF ThreadInv, SockInv, OwnClient
      <4>2. Sends(c) => tfd[c] \in Fd /\ fdtab[tfd[c]] = fdtab[fd]
        BY <2>1, <4>1 DEF Serving
      <4>. QED  BY <4>1, <4>2
    <3>3. ~Sends(c) => tleft[c] = <<>>
      BY <1>1, <2>1 DEF ThreadInv
    <3>. QED  BY <2>1, <3>1, <3>2, <3>3
  <2>. QED  BY <2>1, <2>2 DEF Carries, Gone
<1>2. CASE Poller
  <2>1. /\ Loops /\ program # "reactor" /\ LoopInv /\ PollerBytes
    BY <1>2 DEF Poller, Loops, BytesInv, ServerInv
  <2>2. c \in Conn /\ Carries(c, peer[c], out[c], HeldOf(c), rx[c], sent[c])
    BY <1>2, <2>1 DEF PollerBytes, LoopInv, SockInv, SockTypes
  <2>3. Held(fd) = HeldOf(c)
    <3>1. pc = "send" => i \in Fd /\ (fdtab[i] = c <=> i = fd)
      BY <2>1 DEF LoopInv, PlaceInv, SockInv
    <3>2. CASE pc = "send" /\ i = fd
      BY <2>1, <3>1, <3>2 DEF Held, HeldOf
    <3>3. CASE ~(pc = "send" /\ i = fd)
      BY <2>1, <3>1, <3>3 DEF Held, HeldOf
    <3>. QED  BY <3>2, <3>3
  <2>. QED  BY <2>1, <2>2, <2>3 DEF Carries, Gone
<1>3. CASE program = "reactor"
  <2>1. Loops /\ LoopInv /\ ItemBytes /\ left \in Seq({Zero})
    BY <1>3 DEF Loops, BytesInv, ServerInv, LoopInv, LoopTypes, ReactorTypes
  <2>2. /\ c \in Conn /\ out[c] \in Seq(Byte) /\ rx[c] \in Seq(Byte)
        /\ Len(out[c]) + HeldBy(fd) + Len(rx[c]) = sent[c]
    BY <1>3, <2>1 DEF ItemBytes, LoopInv, SockInv, SockTypes, SendTypes, Amounts, Gone
  <2>3. Held(fd) \in Seq(Byte) /\ Len(Held(fd)) = HeldBy(fd)
    <3>1. CASE pc = "send" /\ i = fd
      <4>1. Held(fd) = left /\ HeldBy(fd) = Len(left)
        BY <2>1, <3>1 DEF Held, HeldBy
      <4>. QED  BY <2>1, <4>1 DEF Byte
    <3>2. CASE ~(pc = "send" /\ i = fd) /\ fd \in outs
      <4>1. /\ Held(fd) = [k \in 1..rlength[Item(fd)] |-> Zero] /\ HeldBy(fd) = rlength[Item(fd)]
            /\ rlength[Item(fd)] \in Nat
        BY <1>3, <2>1, <3>2 DEF Held, HeldBy, ItemBytes
      <4>2. Zero \in Byte
        BY DEF Byte
      <4>. QED  BY <4>1, <4>2
    <3>3. CASE ~(pc = "send" /\ i = fd) /\ fd \notin outs
      <4>1. Held(fd) = <<>> /\ HeldBy(fd) = 0
        BY <2>1, <3>3 DEF Held, HeldBy
      <4>. QED  BY <4>1, EmptySeq
    <3>. QED  BY <3>1, <3>2, <3>3
  <2>4. /\ out[c] \o Held(fd) \in Seq(Byte) /\ Len(out[c] \o Held(fd)) = Len(out[c]) + Len(Held(fd))
    BY <2>2, <2>3, ConcatProperties
  <2>5. Len(out[c] \o Held(fd) \o rx[c]) = Len(out[c]) + Len(Held(fd)) + Len(rx[c])
    BY <2>2, <2>4, ConcatProperties
  <2>. QED  BY <1>3, <2>2, <2>3, <2>5
<1>. QED
  <2>1. ~Loops \/ Poller \/ program = "reactor"
    BY ProgramAssumption DEF BytesInv, Loops, Poller
  <2>. QED  BY <1>1, <1>2, <1>3, <2>1

-----------------------------------------------------------------------------
(* Theorems *)

LEMMA ServerInvHolds == Spec => []ServerInv
<1>. QED  BY ServerInvInit, ServerInvStep, PTL DEF Spec

\* Whatever the clients do, server4.c leaves its loop over the poll entries
\* exactly when it has come to the last reported one (server4.c:64 to 113).
THEOREM ServersCountExact == Spec => []CountExact
<1>1. Spec => []CountInv
  BY CountInvInit, CountInvStep, ServerInvHolds, PTL DEF Spec
<1>2. CountInv => CountExact
  BY DEF CountInv, CountExact
<1>. QED  BY <1>1, <1>2, PTL

\* None of the loops calls accept() or recv() where it would have to wait, nor
\* does the reactor begin a send() that has: for any number of clients.
THEOREM ServersNoBlockingCall == Spec => []NoBlockingCall
<1>1. ServerInv => NoBlockingCall
  <2>. SUFFICES ASSUME ServerInv, Loops, LoopInv PROVE NoBlockingCall
    BY DEF ServerInv, NoBlockingCall
  <2>1. ASSUME pc = "accept" PROVE backlog # <<>>
    BY <2>1 DEF LoopInv, PlaceInv
  <2>2. ASSUME pc = "read", NEW fd \in StillReady \ {ListenFd} PROVE Good(fd)
    <3>1. fd \in Fd /\ fd \in ready \ {ListenFd} /\ i \in Int /\ fd \in Int
      BY <2>2, FdFacts DEF StillReady, LoopInv, LoopTypes
    <3>2. Batched \/ fd > i \/ fd = i
      BY <2>2, <3>1 DEF StillReady, Batched
    <3>. QED  BY <2>2, <3>1, <3>2 DEF LoopInv, PendingInv, ToCome
  <2>. QED  BY <2>1, <2>2 DEF NoBlockingCall, Good
<1>. QED  BY <1>1, ServerInvHolds, PTL

\* Every byte a client sent waits in its socket, is held by the server for it or was
\* given to send(), in this order, in server.c, server2.c (while no thread has taken
\* the descriptor of another) and server4.c to server6.c; in the first reactor as
\* many bytes are.  However often send() has to wait, for any sizes of the buffers.
THEOREM ServersEchoConservation == Spec => []EchoConservation
<1>1. Spec => []BytesInv
  BY BytesInvInit, BytesInvStep, ServerInvHolds, PTL DEF Spec
<1>. QED  BY <1>1, BytesInvEcho, ServerInvHolds, PTL

\* The loops watch exactly the descriptors that are open, each for one thing
\* (server3.c when its sets happen to be empty at the start).
THEOREM ServersWatchOpenOnly == Spec => []WatchesOpenOnly
<1>1. ServerInv => WatchesOpenOnly
  BY DEF ServerInv, LoopInv, WatchInv, WatchesOpenOnly, Writing, Tidy
<1>. QED  BY <1>1, ServerInvHolds, PTL
=============================================================================
