----------------------------- MODULE EchoProofs ------------------------------
(***************************************************************************)
(* Theorems of the echo server, for any number of clients, descriptors and *)
(* bytes, any block size and any buffer size.                              *)
(***************************************************************************)
EXTENDS EchoReactor, ReactorProofs, SequenceTheorems

EchoTypes ==
    /\ rx \in [Conn -> Seq(Byte)]
    /\ rbuffer \in [Slots -> Seq(Byte)]
    /\ sent \in [Conn -> 0..MaxBytes]
    /\ out \in [Conn -> Seq(Byte)]

\* recv() was asked for BUFFER_LENGTH bytes, so rlength is at most that.
BufferInv == \A s \in Slots : Len(rbuffer[s]) <= BUFFER_LENGTH

BaseInv == CoreInv /\ EchoTypes /\ BufferInv

-----------------------------------------------------------------------------
(* Sequences *)

LEMMA StreamProperties ==
    ASSUME NEW c \in Conn, NEW n \in Nat
    PROVE  /\ Stream(c, n) \in Seq(Byte) /\ Len(Stream(c, n)) = n
           /\ Stream(c, 0) = <<>>
           /\ Stream(c, n) \o <<<<c, n + 1>>>> = Stream(c, n + 1)
<1>1. ASSUME NEW m \in Nat PROVE Stream(c, m) \in Seq(Byte) /\ Len(Stream(c, m)) = m
  BY DEF Stream, Byte
<1>2. Stream(c, 0) = <<>>
  BY DEF Stream
<1>3. <<<<c, n + 1>>>> \in Seq(Byte)
  BY DEF Byte
<1>4. Stream(c, n) \o <<<<c, n + 1>>>> = Stream(c, n + 1)
  <2>. DEFINE s == Stream(c, n) \o <<<<c, n + 1>>>>
              t == Stream(c, n + 1)
  <2>1. s \in Seq(Byte) /\ Len(s) = n + 1 /\ t \in Seq(Byte) /\ Len(t) = n + 1
    BY <1>1, <1>3
  <2>2. ASSUME NEW i \in 1..(n + 1) PROVE s[i] = t[i]
    <3>1. t[i] = <<c, i>>
      BY DEF Stream
    <3>2. CASE i <= n
      <4>1. s[i] = Stream(c, n)[i]
        BY <1>1, <1>3, <3>2
      <4>2. Stream(c, n)[i] = <<c, i>>
        BY <3>2 DEF Stream
      <4>. QED  BY <3>1, <4>1, <4>2
    <3>3. CASE i = n + 1
      <4>1. s[i] = <<<<c, n + 1>>>>[1]
        BY <1>1, <1>3, <3>3, ConcatProperties
      <4>. QED  BY <3>1, <3>3, <4>1
    <3>4. i <= n \/ i = n + 1
      OBVIOUS
    <3>. QED  BY <3>2, <3>3, <3>4, Zenon
  <2>. QED  BY <2>1, <2>2, SeqEqual
<1>. QED  BY <1>1, <1>2, <1>4

LEMMA BytesAssociative ==
    \A x, y, z \in Seq(Byte) : x \o (y \o z) = (x \o y) \o z
  BY SMTT(30), ConcatAssociative

LEMMA SplitSeq ==
    ASSUME NEW S, NEW s \in Seq(S), NEW n \in 0..Len(s)
    PROVE  /\ SubSeq(s, 1, n) \in Seq(S) /\ Len(SubSeq(s, 1, n)) = n
           /\ SubSeq(s, n + 1, Len(s)) \in Seq(S)
           /\ SubSeq(s, 1, n) \o SubSeq(s, n + 1, Len(s)) = s
<1>1. SubSeq(s, 1, n) \in Seq(S) /\ Len(SubSeq(s, 1, n)) = n /\ SubSeq(s, n + 1, Len(s)) \in Seq(S)
  BY SubSeqProperties, ElementOfSeq
<1>2. SubSeq(s, 1, n) \o SubSeq(s, n + 1, Len(s)) = SubSeq(s, 1, Len(s))
  <2>1. Len(s) \in Nat /\ 1 \in 1..Len(s) + 1 /\ n \in 1 - 1..Len(s) /\ Len(s) \in n..Len(s)
    BY LenProperties
  <2>. QED  BY <2>1, ConcatAdjacentSubSeq
<1>3. SubSeq(s, 1, Len(s)) = s
  BY SubSeqFull
<1>. QED  BY <1>1, <1>2, <1>3

-----------------------------------------------------------------------------
(* Types and the reactor's invariant *)

LEMMA BaseInit == Init => BaseInv
<1>. SUFFICES ASSUME Init PROVE BaseInv
  OBVIOUS
<1>1. CoreInv
  BY CoreInitInv DEF Init
<1>2. EchoTypes /\ BufferInv
  BY MaxBytesAssumption, SizeAssumption DEF Init, CoreInit, EchoTypes, BufferInv
<1>. QED  BY <1>1, <1>2 DEF BaseInv

LEMMA ReadStep ==
    ASSUME BaseInv, NEW b \in batch, RecvData(b)
    PROVE  \E fd \in Fd : LET c == fdtab[fd]
                              n == Min2(Len(rx[c]), BUFFER_LENGTH)
           IN /\ fd = ev[b.ptr].fd /\ c \in Conn /\ n \in 1..Len(rx[c]) /\ n <= BUFFER_LENGTH
              /\ stage[c] = "accepted" /\ Mirrors(fd) /\ interest[fd] = {"IN"}
              /\ ev[Slot(fd)].callback = "recv_cb"
              /\ rbuffer' = [rbuffer EXCEPT ![Slot(fd)] = SubSeq(rx[c], 1, n)]
              /\ rx' = [rx EXCEPT ![c] = SubSeq(rx[c], n + 1, Len(rx[c]))]
              /\ Rearm(fd, "send_cb", {"OUT"})
<1>. DEFINE fd == ev[b.ptr].fd
            c == fdtab[fd]
            n == Min2(Len(rx[c]), BUFFER_LENGTH)
<1>1. Dispatch(b, "recv_cb") /\ n > 0
  BY DEF RecvData
<1>2. fd \in Fd /\ c \in Conn /\ stage[c] = "accepted" /\ EventOf(b, fd) /\ Mirrors(fd)
      /\ interest[fd] = {"IN"}
  BY <1>1, EventFd DEF Dispatch, BaseInv
<1>3. n \in 1..Len(rx[c]) /\ n <= BUFFER_LENGTH
  BY <1>1, <1>2, SizeAssumption DEF Min2, BaseInv, EchoTypes
<1>4. ev[Slot(fd)].callback = "recv_cb"
  BY <1>1, <1>2 DEF Dispatch, EventOf
<1>5. /\ rbuffer' = [rbuffer EXCEPT ![Slot(fd)] = SubSeq(rx[c], 1, n)]
      /\ rx' = [rx EXCEPT ![c] = SubSeq(rx[c], n + 1, Len(rx[c]))]
      /\ Rearm(fd, "send_cb", {"OUT"})
  BY DEF RecvData
<1>. QED  BY <1>2, <1>3, <1>4, <1>5

LEMMA SendStep ==
    ASSUME BaseInv, NEW b \in batch, SendOk(b)
    PROVE  \E fd \in Fd : LET c == fdtab[fd]
                              n == Min2(Len(rbuffer[Slot(fd)]), Room(c))
           IN /\ fd = ev[b.ptr].fd /\ c \in Conn /\ n \in 0..Len(rbuffer[Slot(fd)]) /\ n <= Room(c)
              /\ stage[c] = "accepted" /\ Mirrors(fd) /\ interest[fd] = {"OUT"}
              /\ SndLowWat <= Room(c)
              /\ ev[Slot(fd)].callback = "send_cb" /\ Slot(fd) \in Slots
              /\ out' = [out EXCEPT ![c] = @ \o SubSeq(rbuffer[Slot(fd)], 1, n)]
              /\ inflight' = [inflight EXCEPT ![c] = @ + n]
              /\ Rearm(fd, "recv_cb", {"IN"})
<1>. DEFINE fd == ev[b.ptr].fd
            c == fdtab[fd]
            n == Min2(Len(rbuffer[Slot(fd)]), Room(c))
<1>1. Dispatch(b, "send_cb") /\ peer[c] \in {"open", "fin"}
  BY DEF SendOk
<1>2. fd \in Fd /\ c \in Conn /\ stage[c] = "accepted" /\ EventOf(b, fd) /\ Mirrors(fd)
      /\ interest[fd] = {"OUT"}
  BY <1>1, EventFd DEF Dispatch, BaseInv
<1>3. "OUT" \in b.events
  BY <1>2 DEF EventOf
<1>4. SndLowWat <= Room(c)
  BY <1>1, <1>2, <1>3 DEF EventOf, Writable, Gone, Room
<1>5. Slot(fd) \in Slots /\ Len(rbuffer[Slot(fd)]) \in Nat /\ Room(c) \in Nat
  <2>1. Slot(fd) \in Slots
    BY <1>2 DEF Slots, AllFd
  <2>2. rbuffer[Slot(fd)] \in Seq(Byte)
    BY <2>1 DEF BaseInv, EchoTypes
  <2>3. inflight[c] \in 0..SndBuf
    BY <1>2 DEF BaseInv, CoreInv, CoreTypeOK
  <2>4. Room(c) \in Nat
    BY <2>3, SocketAssumption DEF Room
  <2>. QED  BY <2>1, <2>2, <2>4
<1>6. n \in 0..Len(rbuffer[Slot(fd)]) /\ n <= Room(c)
  BY <1>5 DEF Min2
<1>7. ev[Slot(fd)].callback = "send_cb"
  BY <1>1, <1>2 DEF Dispatch, EventOf
<1>8. /\ out' = [out EXCEPT ![c] = @ \o SubSeq(rbuffer[Slot(fd)], 1, n)]
      /\ inflight' = [inflight EXCEPT ![c] = @ + n]
      /\ Rearm(fd, "recv_cb", {"IN"})
  BY DEF SendOk
<1>. QED  BY <1>2, <1>4, <1>5, <1>6, <1>7, <1>8

\* A step of the server or of a client, by kind; Frame steps leave all that
\* EchoReactor adds to the reactor as it was.
Frame == UNCHANGED <<rbuffer, sent, out>>

LEMMA BaseStep == BaseInv /\ [Next]_vars => BaseInv'
<1>. SUFFICES ASSUME BaseInv, [Next]_vars PROVE BaseInv'
  OBVIOUS
<1>. USE DEF BaseInv
<1>1. CASE UNCHANGED vars
  BY <1>1, StutterKeeps DEF vars, EchoTypes, BufferInv, coreVars, kernelVars
<1>2. CASE Idle
  BY <1>2, StutterKeeps DEF Idle, EpollTimeout, EchoTypes, BufferInv, coreVars, kernelVars
<1>3. ASSUME NEW c \in Conn, Client(c) PROVE BaseInv'
  <2>1. CASE ClientSend(c)
    <3>1. CoreInv'
      BY <2>1, SocketStepsKeep DEF ClientSend
    <3>2. sent[c] \in 0..MaxBytes /\ sent' = [sent EXCEPT ![c] = sent[c] + 1] /\ sent[c] < MaxBytes
          /\ rx' = [rx EXCEPT ![c] = rx[c] \o <<<<c, sent[c] + 1>>>>]
          /\ UNCHANGED <<rbuffer, out>>
      BY <2>1 DEF ClientSend, Arrive, EchoTypes
    <3>3. rx[c] \o <<<<c, sent[c] + 1>>>> \in Seq(Byte)
      BY <3>2 DEF EchoTypes, Byte
    <3>4. EchoTypes' /\ BufferInv'
      BY <3>2, <3>3, MaxBytesAssumption DEF EchoTypes, BufferInv
    <3>. QED  BY <3>1, <3>4
  <2>2. CASE CoreClient(c) /\ Frame
    <3>1. CoreInv'
      BY <2>2, ConnectKeeps, SocketStepsKeep DEF CoreClient
    <3>2. rx' = rx
      BY <2>2 DEF CoreClient, Connect, ClientFin, ClientReset, ClientPipe, PeerTimeout, Lose, ClientRead
    <3>. QED  BY <2>2, <3>1, <3>2 DEF Frame, EchoTypes, BufferInv
  <2>. QED  BY <1>3, <2>1, <2>2 DEF Client, Frame
<1>4. CASE EpollWait /\ Frame
  <2>1. CoreInv' /\ rx' = rx
    BY <1>4, EpollWaitKeeps DEF EpollWait, kernelVars
  <2>. QED  BY <1>4, <2>1 DEF Frame, EchoTypes, BufferInv
<1>5. ASSUME NEW b \in batch, accept_cb(b), Frame PROVE BaseInv'
  <2>1. CoreInv' /\ rx' = rx
    BY <1>5, AcceptKeeps
    DEF accept_cb, AcceptOk, AcceptForgets, AcceptFails, Accepting, kernelVars
  <2>. QED  BY <1>5, <2>1 DEF Frame, EchoTypes, BufferInv
<1>6. ASSUME NEW b \in batch, RecvData(b) PROVE BaseInv'
  <2>1. PICK fd \in Fd : LET c == fdtab[fd]
                             n == Min2(Len(rx[c]), BUFFER_LENGTH)
           IN /\ fd = ev[b.ptr].fd /\ c \in Conn /\ n \in 1..Len(rx[c]) /\ n <= BUFFER_LENGTH
              /\ ev[Slot(fd)].callback = "recv_cb"
              /\ rbuffer' = [rbuffer EXCEPT ![Slot(fd)] = SubSeq(rx[c], 1, n)]
              /\ rx' = [rx EXCEPT ![c] = SubSeq(rx[c], n + 1, Len(rx[c]))]
              /\ Rearm(fd, "send_cb", {"OUT"})
    BY <1>6, ReadStep
  <2>. DEFINE c == fdtab[fd]
              n == Min2(Len(rx[c]), BUFFER_LENGTH)
  <2>2. /\ batch' = batch \ {b} /\ ev[b.ptr].callback = "recv_cb"
        /\ UNCHANGED <<fdtab, backlog, stage, peer, inflight, blkcnt, alive, sent, out>>
    BY <1>6 DEF RecvData, Dispatch
  <2>3. SocketStep(fd)
    BY <2>2 DEF SocketStep, CoreInv, CoreTypeOK
  <2>4. CoreInv'
    <3>1. Rearm(fd, "send_cb", {"OUT"}) /\ fd = ev[b.ptr].fd
      BY <2>1
    <3>2. <<"send_cb", {"OUT"}>> \in {<<"recv_cb", {"IN"}>>, <<"send_cb", {"OUT"}>>}
      OBVIOUS
    <3>. QED  BY <2>2, <2>3, <3>1, <3>2, RearmKeeps
  <2>5. /\ SubSeq(rx[c], 1, n) \in Seq(Byte) /\ Len(SubSeq(rx[c], 1, n)) = n
        /\ SubSeq(rx[c], n + 1, Len(rx[c])) \in Seq(Byte)
    <3>1. rx[c] \in Seq(Byte)
      BY <2>1 DEF EchoTypes
    <3>2. n \in 0..Len(rx[c])
      <4>1. n \in 1..Len(rx[c])
        BY <2>1
      <4>2. Len(rx[c]) \in Nat
        BY <3>1
      <4>. QED  BY <4>1, <4>2
    <3>. QED  BY <3>1, <3>2, SplitSeq
  <2>6. EchoTypes' /\ BufferInv'
    BY <2>1, <2>2, <2>5 DEF EchoTypes, BufferInv
  <2>. QED  BY <2>4, <2>6
<1>7. ASSUME NEW b \in batch, RecvEnd(b) \/ RecvError(b) \/ SendError(b) PROVE BaseInv'
  <2>. DEFINE fd == ev[b.ptr].fd
  <2>1. /\ batch' = batch \ {b} /\ ev[b.ptr].callback \in {"recv_cb", "send_cb"}
        /\ DelAndClose(fd) \/ DelOnly(fd)
        /\ UNCHANGED <<backlog, peer, rx, inflight, blkcnt, alive, rbuffer, sent, out>>
    BY <1>7 DEF RecvEnd, RecvError, SendError, Dispatch
  <2>2. fd \in Fd
    BY <2>1, EventFd
  <2>3. CoreInv'
    BY <2>1, <2>2, DelAndCloseKeeps, DelOnlyKeeps
  <2>. QED  BY <2>1, <2>3 DEF EchoTypes, BufferInv
<1>8. ASSUME NEW b \in batch, SendOk(b) PROVE BaseInv'
  <2>1. PICK fd \in Fd : LET c == fdtab[fd]
                             n == Min2(Len(rbuffer[Slot(fd)]), Room(c))
           IN /\ fd = ev[b.ptr].fd /\ c \in Conn /\ n \in 0..Len(rbuffer[Slot(fd)]) /\ n <= Room(c)
              /\ ev[Slot(fd)].callback = "send_cb" /\ Slot(fd) \in Slots
              /\ out' = [out EXCEPT ![c] = @ \o SubSeq(rbuffer[Slot(fd)], 1, n)]
              /\ inflight' = [inflight EXCEPT ![c] = @ + n]
              /\ Rearm(fd, "recv_cb", {"IN"})
    BY <1>8, SendStep
  <2>. DEFINE c == fdtab[fd]
              n == Min2(Len(rbuffer[Slot(fd)]), Room(c))
  <2>2. /\ batch' = batch \ {b} /\ ev[b.ptr].callback = "send_cb"
        /\ UNCHANGED <<fdtab, backlog, stage, peer, rx, blkcnt, alive, rbuffer, sent>>
    BY <1>8 DEF SendOk, Dispatch
  <2>3. inflight \in [Conn -> 0..SndBuf]
    BY DEF CoreInv, CoreTypeOK
  <2>4. inflight[c] + n \in 0..SndBuf
    <3>1. c \in Conn /\ n \in 0..Len(rbuffer[Slot(fd)]) /\ n <= SndBuf - inflight[c]
      BY <2>1 DEF Room
    <3>2. inflight[c] \in 0..SndBuf
      BY <2>3, <3>1
    <3>3. Len(rbuffer[Slot(fd)]) \in Nat
      <4>1. rbuffer[Slot(fd)] \in Seq(Byte)
        BY <2>1 DEF EchoTypes
      <4>. QED  BY <4>1
    <3>. QED  BY <3>1, <3>2, <3>3, SocketAssumption
  <2>5. SocketStep(fd)
    BY <2>1, <2>2, <2>3, <2>4 DEF SocketStep, CoreInv, CoreTypeOK
  <2>6. CoreInv'
    <3>1. Rearm(fd, "recv_cb", {"IN"}) /\ fd = ev[b.ptr].fd
      BY <2>1
    <3>2. <<"recv_cb", {"IN"}>> \in {<<"recv_cb", {"IN"}>>, <<"send_cb", {"OUT"}>>}
      OBVIOUS
    <3>. QED  BY <2>2, <2>5, <3>1, <3>2, RearmKeeps
  <2>7. out[c] \o SubSeq(rbuffer[Slot(fd)], 1, n) \in Seq(Byte)
    BY <2>1, SplitSeq, ConcatProperties DEF EchoTypes
  <2>8. EchoTypes' /\ BufferInv'
    BY <2>1, <2>2, <2>7 DEF EchoTypes, BufferInv
  <2>. QED  BY <2>6, <2>8
<1>9. ASSUME NEW b \in batch, SendKilled(b) PROVE BaseInv'
  <2>1. CoreInv'
    BY <1>9, DispatchOnlyKeeps DEF SendKilled, Dispatch, kernelVars
  <2>. QED  BY <1>9, <2>1 DEF SendKilled, kernelVars, EchoTypes, BufferInv
<1>. QED
  BY <1>1, <1>2, <1>3, <1>4, <1>5, <1>6, <1>7, <1>8, <1>9
  DEF Next, Server, recv_cb, send_cb, Frame

LEMMA BaseInvariant == Spec => []BaseInv
  BY BaseInit, BaseStep, PTL DEF Spec

\* Every variable keeps its type: descriptors, registrations, control blocks,
\* sockets and buffers stay what the code takes them for.
THEOREM TypeCorrect == Spec => []TypeOK
<1>1. BaseInv => TypeOK
  BY DEF BaseInv, CoreInv, EchoTypes, TypeOK
<1>. QED  BY <1>1, BaseInvariant, PTL

\* The control blocks mirror epoll, and every accepted connection has one
\* descriptor, whatever happens to clients and system calls (any Faults).
THEOREM ReactorSafe == Spec => [](PollMirrorsBlocks /\ OneFdPerConn)
<1>1. BaseInv => PollMirrorsBlocks /\ OneFdPerConn
  BY DEF BaseInv, CoreInv
<1>. QED  BY <1>1, BaseInvariant, PTL

\* No callback that runs earlier in a batch of ntyreactor_run closes, reuses or re-arms
\* the descriptor of an event still to be dispatched: it reaches the connection that
\* was ready when epoll_wait returned.
THEOREM NothingStale == Spec => []NoStaleDispatch
<1>1. BaseInv => NoStaleDispatch
  BY CoreInvImplies DEF BaseInv
<1>. QED  BY <1>1, BaseInvariant, PTL

-----------------------------------------------------------------------------
(* Nothing is lost between recv_cb and send_cb *)

\* A socket that counts as writable has room for a whole rbuffer.
NoShortSend == SndLowWat >= BUFFER_LENGTH

\* EchoConservation for one descriptor.
ConservedAt(fd) ==
    interest[fd] # {} /\ fdtab[fd] # NoConn =>
        LET c == fdtab[fd]
        IN  out[c] \o Pending(fd) \o rx[c] = Stream(c, sent[c])

\* Nothing was read from, or sent to, a connection that was not accepted yet.
FreshInv ==
    \A c \in Conn : stage[c] \in {"idle", "queued"} =>
        out[c] = <<>> /\ rx[c] = Stream(c, sent[c])

EchoInv == BaseInv /\ EchoConservation /\ FreshInv /\ DrainBeforeClose

LEMMA ConservedFrame ==
    ASSUME NEW g \in Fd, ConservedAt(g),
           fdtab'[g] = fdtab[g], interest'[g] = interest[g], ev'[Slot(g)] = ev[Slot(g)],
           rbuffer'[Slot(g)] = rbuffer[Slot(g)],
           fdtab[g] # NoConn =>
              /\ out'[fdtab[g]] = out[fdtab[g]] /\ rx'[fdtab[g]] = rx[fdtab[g]]
              /\ sent'[fdtab[g]] = sent[fdtab[g]]
    PROVE  ConservedAt(g)'
  BY DEF ConservedAt, Pending

LEMMA PendingTyping == BaseInv => \A fd \in Fd : Pending(fd) \in Seq(Byte)
  BY DEF BaseInv, EchoTypes, Pending, Slots, AllFd

LEMMA EchoInit == Init => EchoInv
<1>. SUFFICES ASSUME Init PROVE EchoInv
  OBVIOUS
<1>1. BaseInv
  BY BaseInit
<1>2. EchoConservation /\ DrainBeforeClose
  BY DEF Init, CoreInit, EchoConservation, DrainBeforeClose
<1>3. FreshInv
  BY StreamProperties DEF Init, CoreInit, FreshInv
<1>. QED  BY <1>1, <1>2, <1>3 DEF EchoInv

\* Steps that move no byte and leave every open descriptor as it is.
LEMMA NoByteMoves ==
    ASSUME EchoInv, UNCHANGED <<rx, rbuffer, sent, out>>,
           \A g \in Fd : interest'[g] # {} /\ fdtab'[g] # NoConn =>
               fdtab'[g] = fdtab[g] /\ interest'[g] = interest[g] /\ ev'[Slot(g)] = ev[Slot(g)],
           \A c \in Conn : stage'[c] \in {"idle", "queued"} => stage[c] \in {"idle", "queued"},
           \A c \in Conn : stage'[c] = "closed" /\ peer'[c] = "fin" =>
               \/ stage[c] = "closed" /\ peer[c] = "fin"
               \/ out[c] = Stream(c, sent[c])
    PROVE  EchoConservation' /\ FreshInv' /\ DrainBeforeClose'
<1>1. ASSUME NEW g \in Fd PROVE ConservedAt(g)'
  <2>1. ConservedAt(g)
    BY DEF EchoInv, EchoConservation, ConservedAt
  <2>. QED  BY <2>1, ConservedFrame DEF ConservedAt
<1>2. EchoConservation'
  BY <1>1 DEF EchoConservation, ConservedAt
<1>3. FreshInv' /\ DrainBeforeClose'
  BY DEF EchoInv, FreshInv, DrainBeforeClose
<1>. QED  BY <1>2, <1>3

LEMMA ClientSendConserves ==
    ASSUME EchoInv, NEW c \in Conn, ClientSend(c)
    PROVE  EchoConservation' /\ FreshInv' /\ DrainBeforeClose'
<1>. DEFINE b == <<<<c, sent[c] + 1>>>>
<1>1. /\ rx' = [rx EXCEPT ![c] = rx[c] \o b] /\ sent' = [sent EXCEPT ![c] = sent[c] + 1]
      /\ UNCHANGED <<rbuffer, out, fdtab, interest, stage, peer, ev>>
      /\ stage[c] \in {"queued", "accepted"}
  BY DEF ClientSend, Arrive, Reaching, reactorVars
<1>2. /\ rx \in [Conn -> Seq(Byte)] /\ sent \in [Conn -> 0..MaxBytes] /\ out \in [Conn -> Seq(Byte)]
      /\ sent[c] \in Nat
  BY MaxBytesAssumption DEF EchoInv, BaseInv, EchoTypes
<1>3. b \in Seq(Byte) /\ Stream(c, sent[c]) \o b = Stream(c, sent[c] + 1)
  <2>1. b \in Seq(Byte)
    BY <1>2 DEF Byte
  <2>2. Stream(c, sent[c]) \o b = Stream(c, sent[c] + 1)
    BY <1>2, StreamProperties
  <2>. QED  BY <2>1, <2>2
<1>4. /\ rx'[c] = rx[c] \o b /\ sent'[c] = sent[c] + 1
      /\ \A d \in Conn \ {c} : rx'[d] = rx[d] /\ sent'[d] = sent[d]
  BY <1>1, <1>2
<1>5. ASSUME NEW g \in Fd PROVE ConservedAt(g)'
  <2>1. ConservedAt(g) /\ Pending(g) \in Seq(Byte) /\ fdtab[g] \in Conn \cup {NoConn}
    BY PendingTyping DEF EchoInv, EchoConservation, ConservedAt, BaseInv, CoreInv, CoreTypeOK
  <2>2. CASE fdtab[g] = c /\ interest[g] # {} /\ fdtab[g] # NoConn
    <3>1. out[c] \o Pending(g) \o rx[c] = Stream(c, sent[c])
      BY <2>1, <2>2 DEF ConservedAt
    <3>2. out[c] \o Pending(g) \in Seq(Byte) /\ rx[c] \in Seq(Byte)
      BY <1>2, <2>1
    <3>3. (out[c] \o Pending(g)) \o (rx[c] \o b) = ((out[c] \o Pending(g)) \o rx[c]) \o b
      BY <1>3, <3>2, BytesAssociative
    <3>4. out[c] \o Pending(g) \o rx'[c] = Stream(c, sent'[c])
      BY <1>3, <1>4, <3>1, <3>3
    <3>5. Pending(g)' = Pending(g) /\ fdtab'[g] = c /\ out'[c] = out[c]
      BY <1>1, <2>2 DEF Pending
    <3>. QED  BY <3>4, <3>5 DEF ConservedAt
  <2>3. CASE fdtab[g] # c
    BY <1>1, <1>4, <2>1, <2>3, ConservedFrame
  <2>4. CASE interest[g] = {} \/ fdtab[g] = NoConn
    BY <1>1, <2>4 DEF ConservedAt
  <2>. QED  BY <2>2, <2>3, <2>4
<1>6. EchoConservation'
  BY <1>5 DEF EchoConservation, ConservedAt
<1>7. FreshInv'
  BY <1>1, <1>3, <1>4 DEF EchoInv, FreshInv
<1>8. DrainBeforeClose'
  BY <1>1, <1>4 DEF EchoInv, DrainBeforeClose
<1>. QED  BY <1>6, <1>7, <1>8

\* recv_cb moves bytes from the socket to rbuffer, send_cb from rbuffer to the
\* other side; what is on the way stays the same.
LEMMA MoveConserves ==
    ASSUME EchoInv, NEW fd \in Fd, NEW c \in Conn, c = fdtab[fd], stage[c] = "accepted",
           UNCHANGED <<fdtab, stage, peer, sent>>,
           \A g \in Fd \ {fd} : /\ interest'[g] = interest[g] /\ ev'[Slot(g)] = ev[Slot(g)]
                                 /\ rbuffer'[Slot(g)] = rbuffer[Slot(g)],
           \A d \in Conn \ {c} : out'[d] = out[d] /\ rx'[d] = rx[d],
           out'[c] \o Pending(fd)' \o rx'[c] = out[c] \o Pending(fd) \o rx[c],
           interest[fd] # {}
    PROVE  EchoConservation' /\ FreshInv' /\ DrainBeforeClose'
<1>1. ASSUME NEW g \in Fd PROVE ConservedAt(g)'
  <2>1. ConservedAt(g)
    BY DEF EchoInv, EchoConservation, ConservedAt
  <2>2. CASE g = fd
    BY <2>1, <2>2, ConnAssumption DEF ConservedAt
  <2>3. CASE g # fd
    <3>1. fdtab[g] # NoConn => fdtab[g] \in Conn \ {c}
      BY <2>3, ConnAssumption DEF EchoInv, BaseInv, CoreInv, CoreTypeOK, OneFdPerConn
    <3>. QED  BY <2>1, <2>3, <3>1, ConservedFrame
  <2>. QED  BY <2>2, <2>3
<1>2. EchoConservation'
  BY <1>1 DEF EchoConservation, ConservedAt
<1>3. FreshInv' /\ DrainBeforeClose'
  BY DEF EchoInv, FreshInv, DrainBeforeClose
<1>. QED  BY <1>2, <1>3

\* Rearm changes one control block and one registration.
LEMMA RearmLocal ==
    ASSUME BaseInv, NEW fd \in Fd, NEW cb, NEW evs, Rearm(fd, cb, evs), ev[Slot(fd)].fd = fd
    PROVE  /\ ev'[Slot(fd)].callback = cb
           /\ \A g \in Fd \ {fd} : interest'[g] = interest[g] /\ ev'[Slot(g)] = ev[Slot(g)]
<1>. DEFINE e1 == EventSet(EventDel(ev[Slot(fd)]), fd, cb)
<1>1. /\ ev \in [Slots -> NtyEvent] /\ interest \in [AllFd -> SUBSET Events]
      /\ \A g \in Fd : g \in AllFd /\ Slot(g) \in Slots
      /\ \A g \in Fd \ {fd} : Slot(g) # Slot(fd)
  BY SlotInjective DEF BaseInv, CoreInv, CoreTypeOK, Slots, AllFd
<1>2. ev' = [ev EXCEPT ![Slot(fd)] = EventAdd(e1, evs)]
      /\ interest' = EpollAdd(EpollDel(interest, ev[Slot(fd)]), e1, evs)
  BY DEF Rearm
<1>3. EventAdd(e1, evs).callback = cb /\ e1.fd = fd
  BY <1>1 DEF EventAdd, EventSet, EventDel, NtyEvent
<1>4. \A g \in Fd \ {fd} : EpollDel(interest, ev[Slot(fd)])[g] = interest[g]
  BY <1>1 DEF EpollDel
<1>5. EpollDel(interest, ev[Slot(fd)]) \in [AllFd -> SUBSET Events]
  BY <1>1 DEF EpollDel
<1>6. \A g \in Fd \ {fd} : interest'[g] = interest[g]
  BY <1>1, <1>2, <1>3, <1>4, <1>5 DEF EpollAdd
<1>. QED  BY <1>1, <1>2, <1>3, <1>6

\* Closing one descriptor leaves what is open as it was.
LEMMA CloseLocal ==
    ASSUME BaseInv, NEW fd \in Fd, DelAndClose(fd) \/ DelOnly(fd), Mirrors(fd), interest[fd] # {}
    PROVE  \A g \in Fd : interest'[g] # {} /\ fdtab'[g] # NoConn =>
               fdtab'[g] = fdtab[g] /\ interest'[g] = interest[g] /\ ev'[Slot(g)] = ev[Slot(g)]
<1>1. /\ ev \in [Slots -> NtyEvent] /\ interest \in [AllFd -> SUBSET Events]
      /\ fdtab \in [Fd -> Conn \cup {NoConn}]
      /\ \A g \in Fd : g \in AllFd /\ Slot(g) \in Slots
      /\ \A g \in Fd \ {fd} : Slot(g) # Slot(fd)
  BY SlotInjective DEF BaseInv, CoreInv, CoreTypeOK, Slots, AllFd
<1>2. ev' = [ev EXCEPT ![Slot(fd)] = EventDel(ev[Slot(fd)])]
  BY DEF DelAndClose, DelOnly
<1>3. EpollDel(interest, ev[Slot(fd)]) = [interest EXCEPT ![fd] = {}]
  BY DEF EpollDel, Mirrors
<1>4. /\ interest'[fd] = {}
      /\ \A g \in Fd \ {fd} : interest'[g] = interest[g] /\ fdtab'[g] = fdtab[g]
  BY <1>1, <1>3 DEF DelAndClose, DelOnly
<1>. QED  BY <1>1, <1>2, <1>4

LEMMA RecvDataConserves ==
    ASSUME EchoInv, NEW b \in batch, RecvData(b)
    PROVE  EchoConservation' /\ FreshInv' /\ DrainBeforeClose'
<1>1. BaseInv
  BY DEF EchoInv
<1>2. PICK fd \in Fd : LET c == fdtab[fd]
                           n == Min2(Len(rx[c]), BUFFER_LENGTH)
         IN /\ fd = ev[b.ptr].fd /\ c \in Conn /\ n \in 1..Len(rx[c])
            /\ stage[c] = "accepted" /\ Mirrors(fd) /\ interest[fd] = {"IN"}
            /\ ev[Slot(fd)].callback = "recv_cb"
            /\ rbuffer' = [rbuffer EXCEPT ![Slot(fd)] = SubSeq(rx[c], 1, n)]
            /\ rx' = [rx EXCEPT ![c] = SubSeq(rx[c], n + 1, Len(rx[c]))]
            /\ Rearm(fd, "send_cb", {"OUT"})
  BY <1>1, ReadStep
<1>. DEFINE c == fdtab[fd]
            n == Min2(Len(rx[c]), BUFFER_LENGTH)
            h == SubSeq(rx[c], 1, n)
            t == SubSeq(rx[c], n + 1, Len(rx[c]))
<1>3. /\ c \in Conn /\ n \in 1..Len(rx[c]) /\ stage[c] = "accepted" /\ Mirrors(fd)
      /\ interest[fd] = {"IN"} /\ ev[Slot(fd)].callback = "recv_cb"
      /\ rbuffer' = [rbuffer EXCEPT ![Slot(fd)] = h] /\ rx' = [rx EXCEPT ![c] = t]
      /\ Rearm(fd, "send_cb", {"OUT"})
  BY <1>2
<1>4. UNCHANGED <<fdtab, stage, peer, sent, out>>
  BY DEF RecvData
<1>5. /\ Slot(fd) \in Slots /\ \A g \in Fd \ {fd} : Slot(g) # Slot(fd) /\ Slot(g) \in Slots
      /\ rbuffer \in [Slots -> Seq(Byte)] /\ rx \in [Conn -> Seq(Byte)] /\ out \in [Conn -> Seq(Byte)]
  BY <1>1, SlotInjective DEF BaseInv, EchoTypes, Slots, AllFd
<1>6. rx[c] \in Seq(Byte) /\ out[c] \in Seq(Byte) /\ Len(rx[c]) \in Nat
  BY <1>3, <1>5
<1>7. n \in 0..Len(rx[c])
  BY <1>3, <1>6
<1>8. h \in Seq(Byte) /\ t \in Seq(Byte) /\ h \o t = rx[c]
  BY <1>6, <1>7, SplitSeq
<1>9. ev[Slot(fd)].fd = fd
  BY <1>3 DEF Mirrors
<1>10. /\ ev'[Slot(fd)].callback = "send_cb"
       /\ \A g \in Fd \ {fd} : interest'[g] = interest[g] /\ ev'[Slot(g)] = ev[Slot(g)]
  BY <1>1, <1>3, <1>9, RearmLocal
<1>11. Pending(fd) = <<>> /\ Pending(fd)' = h
  BY <1>3, <1>5, <1>10 DEF Pending
<1>12. /\ rx'[c] = t /\ \A d \in Conn \ {c} : rx'[d] = rx[d]
       /\ \A g \in Fd \ {fd} : rbuffer'[Slot(g)] = rbuffer[Slot(g)]
  BY <1>3, <1>5
<1>13. out[c] \o <<>> = out[c]
  BY <1>6
<1>14. (out[c] \o h) \o t = out[c] \o (h \o t)
  BY <1>6, <1>8, BytesAssociative
<1>15. out'[c] \o Pending(fd)' \o rx'[c] = out[c] \o Pending(fd) \o rx[c]
  BY <1>4, <1>8, <1>11, <1>12, <1>13, <1>14
<1>16. /\ \A g \in Fd \ {fd} : /\ interest'[g] = interest[g] /\ ev'[Slot(g)] = ev[Slot(g)]
                                /\ rbuffer'[Slot(g)] = rbuffer[Slot(g)]
       /\ \A d \in Conn \ {c} : out'[d] = out[d] /\ rx'[d] = rx[d]
       /\ UNCHANGED <<fdtab, stage, peer, sent>>
  BY <1>4, <1>10, <1>12
<1>17. c \in Conn /\ c = fdtab[fd] /\ stage[c] = "accepted" /\ interest[fd] # {}
  BY <1>3
<1>. HIDE DEF c, n, h, t
<1>. QED
  BY <1>15, <1>16, <1>17, MoveConserves

\* Under NoShortSend send() takes all of rbuffer.
LEMMA SendTakesAll ==
    ASSUME NoShortSend, EchoInv, NEW b \in batch, SendOk(b)
    PROVE  \E fd \in Fd : LET c == fdtab[fd] IN
              /\ c \in Conn /\ stage[c] = "accepted" /\ Mirrors(fd)
              /\ interest[fd] = {"OUT"} /\ Slot(fd) \in Slots
              /\ ev[Slot(fd)].callback = "send_cb" /\ peer[c] \in {"open", "fin"}
              /\ out' = [out EXCEPT ![c] = out[c] \o rbuffer[Slot(fd)]]
              /\ Rearm(fd, "recv_cb", {"IN"})
<1>1. BaseInv
  BY DEF EchoInv
<1>2. PICK fd \in Fd : LET c == fdtab[fd]
                           n == Min2(Len(rbuffer[Slot(fd)]), Room(c))
         IN /\ fd = ev[b.ptr].fd /\ c \in Conn /\ n <= Room(c)
            /\ stage[c] = "accepted" /\ Mirrors(fd) /\ interest[fd] = {"OUT"}
            /\ SndLowWat <= Room(c)
            /\ ev[Slot(fd)].callback = "send_cb" /\ Slot(fd) \in Slots
            /\ out' = [out EXCEPT ![c] = @ \o SubSeq(rbuffer[Slot(fd)], 1, n)]
            /\ Rearm(fd, "recv_cb", {"IN"})
  BY <1>1, SendStep
<1>. DEFINE c == fdtab[fd]
            buf == rbuffer[Slot(fd)]
            n == Min2(Len(buf), Room(c))
<1>3. /\ c \in Conn /\ stage[c] = "accepted" /\ Mirrors(fd) /\ interest[fd] = {"OUT"}
      /\ SndLowWat <= Room(c) /\ ev[Slot(fd)].callback = "send_cb" /\ Slot(fd) \in Slots
      /\ out' = [out EXCEPT ![c] = out[c] \o SubSeq(buf, 1, n)]
      /\ Rearm(fd, "recv_cb", {"IN"})
  BY <1>2
<1>4. peer[c] \in {"open", "fin"}
  BY <1>2 DEF SendOk
<1>5. buf \in Seq(Byte) /\ Len(buf) \in Nat /\ Len(buf) <= BUFFER_LENGTH /\ inflight[c] \in 0..SndBuf
  BY <1>1, <1>3 DEF BaseInv, EchoTypes, BufferInv, CoreInv, CoreTypeOK
<1>6. n = Len(buf)
  BY <1>3, <1>5, SizeAssumption, SocketAssumption DEF NoShortSend, Min2, Room
<1>7. SubSeq(buf, 1, n) = buf
  BY <1>5, <1>6, SubSeqFull
<1>. QED  BY <1>3, <1>4, <1>7

LEMMA SendOkConserves ==
    ASSUME NoShortSend, EchoInv, NEW b \in batch, SendOk(b)
    PROVE  EchoConservation' /\ FreshInv' /\ DrainBeforeClose'
<1>1. BaseInv
  BY DEF EchoInv
<1>2. PICK fd \in Fd : LET c == fdtab[fd] IN
              /\ c \in Conn /\ stage[c] = "accepted" /\ Mirrors(fd)
              /\ interest[fd] = {"OUT"} /\ Slot(fd) \in Slots
              /\ ev[Slot(fd)].callback = "send_cb"
              /\ out' = [out EXCEPT ![c] = out[c] \o rbuffer[Slot(fd)]]
              /\ Rearm(fd, "recv_cb", {"IN"})
  BY SendTakesAll
<1>. DEFINE c == fdtab[fd]
            buf == rbuffer[Slot(fd)]
<1>3. UNCHANGED <<fdtab, stage, peer, rx, rbuffer, sent>>
  BY DEF SendOk
<1>4. ev[Slot(fd)].fd = fd
  BY <1>2 DEF Mirrors
<1>5. /\ ev'[Slot(fd)].callback = "recv_cb"
      /\ \A g \in Fd \ {fd} : interest'[g] = interest[g] /\ ev'[Slot(g)] = ev[Slot(g)]
  BY <1>1, <1>2, <1>4, RearmLocal
<1>6. out \in [Conn -> Seq(Byte)] /\ buf \in Seq(Byte)
  BY <1>1, <1>2 DEF BaseInv, EchoTypes
<1>7. /\ out'[c] = out[c] \o buf /\ \A d \in Conn \ {c} : out'[d] = out[d]
      /\ out'[c] \in Seq(Byte)
  <2>1. c \in Conn /\ out' = [out EXCEPT ![c] = out[c] \o buf]
    BY <1>2
  <2>2. out[c] \o buf \in Seq(Byte)
    BY <1>6, <2>1, ConcatProperties
  <2>. QED  BY <1>6, <2>1, <2>2
<1>8. Pending(fd) = buf /\ Pending(fd)' = <<>>
  BY <1>2, <1>5 DEF Pending
<1>9. out'[c] \o <<>> = out'[c]
  BY <1>7
<1>10. out'[c] \o Pending(fd)' \o rx'[c] = out[c] \o Pending(fd) \o rx[c]
  BY <1>3, <1>7, <1>8, <1>9
<1>11. c \in Conn /\ stage[c] = "accepted" /\ interest[fd] # {}
  BY <1>2
<1>12. /\ \A d \in Conn \ {c} : out'[d] = out[d] /\ rx'[d] = rx[d]
       /\ \A g \in Fd \ {fd} : /\ interest'[g] = interest[g] /\ ev'[Slot(g)] = ev[Slot(g)]
                              /\ rbuffer'[Slot(g)] = rbuffer[Slot(g)]
  BY <1>3, <1>5, <1>7
<1>. QED
  BY <1>3, <1>10, <1>11, <1>12, MoveConserves

\* recv() returning 0 with nothing left to read: everything was sent back.
LEMMA RecvEndConserves ==
    ASSUME EchoInv, NEW b \in batch, RecvEnd(b)
    PROVE  /\ EchoConservation' /\ FreshInv' /\ DrainBeforeClose'
           /\ \E c \in Conn : /\ stage' = [stage EXCEPT ![c] = "closed"] /\ stage[c] = "accepted"
                             /\ peer[c] \in {"fin", "pipe", "reset"} /\ out[c] = Stream(c, sent[c])
<1>1. BaseInv /\ CoreInv
  BY DEF EchoInv, BaseInv
<1>. DEFINE fd == ev[b.ptr].fd
            c == fdtab[fd]
<1>2. /\ Dispatch(b, "recv_cb") /\ DelAndClose(fd) /\ rx[c] = <<>>
      /\ peer[c] \in {"fin", "pipe", "reset"}
      /\ UNCHANGED <<peer, rx, rbuffer, sent, out>>
  BY DEF RecvEnd
<1>3. /\ fd \in Fd /\ c \in Conn /\ EventOf(b, fd) /\ Mirrors(fd) /\ interest[fd] = {"IN"}
      /\ stage[c] = "accepted"
  BY <1>1, <1>2, EventFd DEF Dispatch
<1>4. ev[Slot(fd)].callback = "recv_cb"
  BY <1>2, <1>3 DEF EventOf, Dispatch
<1>5. out[c] \o Pending(fd) \o rx[c] = Stream(c, sent[c])
  BY <1>3, ConnAssumption DEF EchoInv, EchoConservation
<1>6. out[c] = Stream(c, sent[c])
  <2>1. Pending(fd) = <<>> /\ out[c] \in Seq(Byte)
    BY <1>1, <1>3, <1>4 DEF Pending, BaseInv, EchoTypes
  <2>2. out[c] \o <<>> = out[c]
    BY <2>1
  <2>. QED  BY <1>2, <1>5, <2>1, <2>2
<1>7. stage' = [stage EXCEPT ![c] = "closed"]
  BY <1>2 DEF DelAndClose
<1>8. \A g \in Fd : interest'[g] # {} /\ fdtab'[g] # NoConn =>
               fdtab'[g] = fdtab[g] /\ interest'[g] = interest[g] /\ ev'[Slot(g)] = ev[Slot(g)]
  BY <1>1, <1>2, <1>3, CloseLocal
<1>9. EchoConservation' /\ FreshInv' /\ DrainBeforeClose'
  <2>1. \A d \in Conn : stage'[d] \in {"idle", "queued"} => stage[d] \in {"idle", "queued"}
    BY <1>1, <1>7 DEF CoreInv, CoreTypeOK
  <2>2. \A d \in Conn : stage'[d] = "closed" /\ peer'[d] = "fin" =>
               (stage[d] = "closed" /\ peer[d] = "fin") \/ out[d] = Stream(d, sent[d])
    BY <1>1, <1>2, <1>6, <1>7 DEF CoreInv, CoreTypeOK
  <2>. QED  BY <1>2, <1>8, <2>1, <2>2, NoByteMoves
<1>. QED  BY <1>2, <1>3, <1>6, <1>7, <1>9

\* RecvError and SendError give up a connection whose client did not half-close it.
LEMMA GiveUpConserves ==
    ASSUME EchoInv, NEW b \in batch, RecvError(b) \/ SendError(b)
    PROVE  /\ EchoConservation' /\ FreshInv' /\ DrainBeforeClose'
           /\ \/ UNCHANGED stage
              \/ \E c \in Conn : /\ stage' = [stage EXCEPT ![c] = "closed"] /\ stage[c] = "accepted"
                                /\ peer[c] \in {"reset", "timeout"}
<1>1. BaseInv /\ CoreInv
  BY DEF EchoInv, BaseInv
<1>. DEFINE fd == ev[b.ptr].fd
            c == fdtab[fd]
<1>2. /\ Dispatch(b, "recv_cb") \/ Dispatch(b, "send_cb")
      /\ DelOnly(fd) \/ (DelAndClose(fd) /\ peer[c] \in {"reset", "timeout"})
      /\ UNCHANGED <<peer, rx, rbuffer, sent, out>>
  BY DEF RecvError, SendError
<1>3. /\ fd \in Fd /\ c \in Conn /\ Mirrors(fd) /\ interest[fd] # {} /\ stage[c] = "accepted"
  BY <1>1, <1>2, EventFd DEF Dispatch
<1>4. \A g \in Fd : interest'[g] # {} /\ fdtab'[g] # NoConn =>
               fdtab'[g] = fdtab[g] /\ interest'[g] = interest[g] /\ ev'[Slot(g)] = ev[Slot(g)]
  BY <1>1, <1>2, <1>3, CloseLocal
<1>5. stage' = stage \/ (stage' = [stage EXCEPT ![c] = "closed"] /\ peer[c] \in {"reset", "timeout"})
  BY <1>2 DEF DelAndClose, DelOnly
<1>6. \A d \in Conn : stage'[d] \in {"idle", "queued"} => stage[d] \in {"idle", "queued"}
  BY <1>1, <1>5 DEF CoreInv, CoreTypeOK
<1>7. \A d \in Conn : stage'[d] = "closed" /\ peer'[d] = "fin" =>
               (stage[d] = "closed" /\ peer[d] = "fin") \/ out[d] = Stream(d, sent[d])
  BY <1>1, <1>2, <1>5 DEF CoreInv, CoreTypeOK
<1>8. EchoConservation' /\ FreshInv' /\ DrainBeforeClose'
  BY <1>2, <1>4, <1>6, <1>7, NoByteMoves
<1>. QED  BY <1>3, <1>5, <1>8

LEMMA AcceptConserves ==
    ASSUME EchoInv, NEW b \in batch, accept_cb(b), Frame
    PROVE  EchoConservation' /\ FreshInv' /\ DrainBeforeClose'
<1>1. BaseInv /\ CoreInv
  BY DEF EchoInv, BaseInv
<1>2. backlog # <<>> /\ Dispatch(b, "accept_cb")
  <2>1. Dispatch(b, "accept_cb")
    BY DEF accept_cb, AcceptOk, AcceptForgets, AcceptFails
  <2>. QED  BY <1>1, <2>1, EventFd DEF Dispatch, EventOf
<1>3. CASE AcceptFails(b)
  BY <1>3, NoByteMoves DEF AcceptFails, kernelVars, Frame
<1>4. ASSUME NEW fd \in Fd, Accepting(fd), AcceptOk(b) \/ AcceptForgets(b),
             \/ UNCHANGED <<ev, interest>>
             \/ /\ ev' = [ev EXCEPT ![Slot(fd)] = EventAdd(EventSet(ev[Slot(fd)], fd, "recv_cb"), {"IN"})]
                /\ interest' = EpollAdd(interest, EventSet(ev[Slot(fd)], fd, "recv_cb"), {"IN"})
      PROVE  EchoConservation' /\ FreshInv' /\ DrainBeforeClose'
  <2>. DEFINE c == Head(backlog)
  <2>1. /\ c \in Conn /\ stage[c] = "queued" /\ fdtab[fd] = NoConn
        /\ fdtab' = [fdtab EXCEPT ![fd] = c] /\ stage' = [stage EXCEPT ![c] = "accepted"]
        /\ UNCHANGED <<peer, rx, rbuffer, sent, out>>
    BY <1>1, <1>2, <1>4, AcceptingKeeps DEF Accepting, Frame
  <2>2. /\ interest[fd] = {} /\ ev[Slot(fd)] \in NtyEvent
    BY <1>1, <2>1, FreeFdIsUnwatched
  <2>3. /\ ev \in [Slots -> NtyEvent] /\ interest \in [AllFd -> SUBSET Events]
        /\ fdtab \in [Fd -> Conn \cup {NoConn}] /\ stage \in [Conn -> Stages]
        /\ \A g \in Fd : g \in AllFd /\ Slot(g) \in Slots
        /\ \A g \in Fd \ {fd} : Slot(g) # Slot(fd)
    BY <1>1, SlotInjective DEF CoreInv, CoreTypeOK, Slots, AllFd
  <2>4. EventSet(ev[Slot(fd)], fd, "recv_cb").fd = fd
        /\ EventAdd(EventSet(ev[Slot(fd)], fd, "recv_cb"), {"IN"}).callback = "recv_cb"
    BY <2>2 DEF EventAdd, EventSet, NtyEvent
  <2>5. \A g \in Fd \ {fd} : interest'[g] = interest[g] /\ ev'[Slot(g)] = ev[Slot(g)] /\ fdtab'[g] = fdtab[g]
    BY <1>4, <2>1, <2>3, <2>4 DEF EpollAdd
  <2>6. interest'[fd] = {} \/ ev'[Slot(fd)].callback = "recv_cb"
    BY <1>4, <2>2, <2>3, <2>4
  <2>7. ASSUME NEW g \in Fd PROVE ConservedAt(g)'
    <3>1. ConservedAt(g)
      BY DEF EchoInv, EchoConservation, ConservedAt
    <3>2. CASE g = fd /\ interest'[fd] # {}
      <4>1. out[c] = <<>> /\ rx[c] = Stream(c, sent[c]) /\ rx[c] \in Seq(Byte)
        BY <2>1 DEF EchoInv, FreshInv, BaseInv, EchoTypes
      <4>2. Pending(fd)' = <<>> /\ fdtab'[fd] = c
        BY <2>1, <2>3, <2>6, <3>2 DEF Pending
      <4>3. <<>> \o <<>> \o rx[c] = rx[c]
        BY <4>1
      <4>. QED  BY <2>1, <3>2, <4>1, <4>2, <4>3 DEF ConservedAt
    <3>3. CASE g = fd /\ interest'[fd] = {}
      BY <3>3 DEF ConservedAt
    <3>4. CASE g # fd
      BY <2>1, <2>5, <3>1, <3>4, ConservedFrame
    <3>. QED  BY <3>2, <3>3, <3>4
  <2>8. EchoConservation'
    BY <2>7 DEF EchoConservation, ConservedAt
  <2>9. FreshInv' /\ DrainBeforeClose'
    BY <2>1, <2>3 DEF EchoInv, FreshInv, DrainBeforeClose
  <2>. QED  BY <2>8, <2>9
<1>5. CASE AcceptOk(b)
  BY <1>4, <1>5 DEF AcceptOk
<1>6. CASE AcceptForgets(b)
  BY <1>4, <1>6 DEF AcceptForgets
<1>. QED  BY <1>3, <1>5, <1>6 DEF accept_cb

\* Clients and the kernel, short of sending a byte.
LEMMA QuietConserves ==
    ASSUME EchoInv, Frame,
           UNCHANGED <<fdtab, interest, ev, rx>>,
           \/ UNCHANGED <<stage, peer>>
           \/ \E c \in Conn : CoreClient(c)
    PROVE  EchoConservation' /\ FreshInv' /\ DrainBeforeClose'
<1>1. stage \in [Conn -> Stages] /\ peer \in [Conn -> PeerStates]
  BY DEF EchoInv, BaseInv, CoreInv, CoreTypeOK
<1>2. CASE UNCHANGED <<stage, peer>>
  BY <1>2, NoByteMoves DEF Frame
<1>3. ASSUME NEW c \in Conn, CoreClient(c) PROVE EchoConservation' /\ FreshInv' /\ DrainBeforeClose'
  <2>1. /\ \A d \in Conn \ {c} : stage'[d] = stage[d] /\ peer'[d] = peer[d]
        /\ stage[c] \in {"idle", "queued", "accepted"}
        /\ stage'[c] = stage[c] \/ (stage[c] = "idle" /\ stage'[c] = "queued")
    BY <1>1, <1>3
    DEF CoreClient, Connect, ClientFin, ClientReset, ClientPipe, PeerTimeout, Lose, ClientRead, Reaching
  <2>. QED  BY <2>1, NoByteMoves DEF Frame
<1>. QED  BY <1>2, <1>3

LEMMA EchoStep ==
    ASSUME NoShortSend, EchoInv, [Next]_vars
    PROVE  EchoInv'
<1>1. BaseInv'
  BY BaseStep DEF EchoInv
<1>. DEFINE Goal == EchoConservation' /\ FreshInv' /\ DrainBeforeClose'
<1>. SUFFICES Goal
  BY <1>1 DEF EchoInv
<1>2. CASE UNCHANGED vars \/ Idle \/ (EpollWait /\ Frame)
  BY <1>2, QuietConserves DEF vars, coreVars, kernelVars, reactorVars, Idle, EpollTimeout, EpollWait, Frame
<1>3. ASSUME NEW c \in Conn, Client(c) PROVE Goal
  <2>1. CASE ClientSend(c)
    BY <2>1, ClientSendConserves
  <2>2. CASE CoreClient(c) /\ Frame
    <3>1. UNCHANGED <<fdtab, interest, ev, rx>>
      BY <2>2 DEF CoreClient, Connect, ClientFin, ClientReset, ClientPipe, PeerTimeout, Lose,
                  ClientRead, reactorVars
    <3>. QED  BY <2>2, <3>1, QuietConserves
  <2>. QED  BY <1>3, <2>1, <2>2 DEF Client, Frame
<1>4. ASSUME NEW b \in batch, accept_cb(b), Frame PROVE Goal
  BY <1>4, AcceptConserves
<1>5. ASSUME NEW b \in batch, recv_cb(b) PROVE Goal
  BY <1>5, RecvDataConserves, RecvEndConserves, GiveUpConserves DEF recv_cb
<1>6. ASSUME NEW b \in batch, send_cb(b) PROVE Goal
  <2>1. CASE SendKilled(b)
    BY <2>1, QuietConserves DEF SendKilled, kernelVars, Frame
  <2>. QED  BY <1>6, <2>1, SendOkConserves, GiveUpConserves DEF send_cb
<1>. QED
  BY <1>2, <1>3, <1>4, <1>5, <1>6 DEF Next, Server, Frame

\* If a writable socket has room for a whole rbuffer, no byte is lost,
\* repeated, reordered or crossed between recv_cb and send_cb.
THEOREM EchoConserved == ASSUME NoShortSend PROVE Spec => []EchoConservation
<1>1. Init => EchoInv
  BY EchoInit
<1>2. EchoInv /\ [Next]_vars => EchoInv'
  BY EchoStep
<1>3. EchoInv => EchoConservation
  BY DEF EchoInv
<1>. QED  BY <1>1, <1>2, <1>3, PTL DEF Spec

\* Under the same condition a client that half-closes gets every byte back
\* before the server closes its side.
THEOREM Drained == ASSUME NoShortSend PROVE Spec => []DrainBeforeClose
<1>1. Init => EchoInv
  BY EchoInit
<1>2. EchoInv /\ [Next]_vars => EchoInv'
  BY EchoStep
<1>3. EchoInv => DrainBeforeClose
  BY DEF EchoInv
<1>. QED  BY <1>1, <1>2, <1>3, PTL DEF Spec

-----------------------------------------------------------------------------
(* The reactor implements EchoService *)

LEMMA PrefixOfStream ==
    ASSUME NEW c \in Conn, NEW n \in Nat, NEW x \in Seq(Byte), NEW y \in Seq(Byte),
           x \o y = Stream(c, n)
    PROVE  x = Stream(c, Len(x)) /\ Len(x) <= n
<1>1. Len(x) \in Nat /\ Len(y) \in Nat /\ Len(x) + Len(y) = n
  <2>1. Len(x \o y) = n
    BY StreamProperties
  <2>2. Len(x \o y) = Len(x) + Len(y)
    BY ConcatProperties
  <2>. QED  BY <2>1, <2>2, LenProperties
<1>2. Stream(c, Len(x)) \in Seq(Byte) /\ Len(Stream(c, Len(x))) = Len(x)
  BY <1>1, StreamProperties
<1>3. ASSUME NEW i \in 1..Len(x) PROVE x[i] = Stream(c, Len(x))[i]
  <2>1. (x \o y)[i] = x[i]
    BY <1>1, ConcatProperties
  <2>2. Stream(c, n)[i] = <<c, i>> /\ Stream(c, Len(x))[i] = <<c, i>>
    BY <1>1 DEF Stream
  <2>. QED  BY <2>1, <2>2
<1>4. x = Stream(c, Len(x))
  BY <1>2, <1>3, SeqEqual
<1>. QED  BY <1>1, <1>4

\* The state of the connections as the service sees them.
StateMap == [c \in Conn |-> ServiceState(c)]

LEMMA StateStep ==
    ASSUME NEW c \in Conn, \A d \in Conn \ {c} : stage'[d] = stage[d] /\ peer'[d] = peer[d]
    PROVE  StateMap' = [StateMap EXCEPT ![c] = ServiceState(c)']
<1>1. \A d \in Conn \ {c} : ServiceState(d)' = ServiceState(d)
  BY DEF ServiceState, Gone
<1>. QED  BY <1>1 DEF StateMap

LEMMA CloseImplements ==
    ASSUME CoreInv, NEW c \in Conn, stage' = [stage EXCEPT ![c] = "closed"], stage[c] = "accepted",
           UNCHANGED <<peer, sent, out>>,
           \/ peer[c] = "fin" /\ out[c] = Stream(c, sent[c])
           \/ Gone(c)
    PROVE  Service!Next
<1>1. stage \in [Conn -> Stages]
  BY DEF CoreInv, CoreTypeOK
<1>2. StateMap' = [StateMap EXCEPT ![c] = "down"]
  <2>1. ServiceState(c)' = "down" /\ \A d \in Conn \ {c} : stage'[d] = stage[d] /\ peer'[d] = peer[d]
    BY <1>1 DEF ServiceState
  <2>. QED  BY <2>1, StateStep
<1>3. StateMap[c] = IF Gone(c) THEN "lost" ELSE IF peer[c] = "fin" THEN "left" ELSE "up"
  BY DEF StateMap, ServiceState
<1>4. Service!Close(c)
  BY <1>2, <1>3 DEF Service!Close, Service!Stream, Stream, StateMap, Gone
<1>. QED  BY <1>4 DEF Service!Next

LEMMA SendImplements ==
    ASSUME NoShortSend, EchoInv, EchoInv', NEW b \in batch, SendOk(b)
    PROVE  [Service!Next]_(Service!vars)
<1>1. PICK fd \in Fd : LET c == fdtab[fd] IN
              /\ c \in Conn /\ stage[c] = "accepted" /\ Mirrors(fd)
              /\ interest[fd] = {"OUT"} /\ Slot(fd) \in Slots
              /\ ev[Slot(fd)].callback = "send_cb" /\ peer[c] \in {"open", "fin"}
              /\ out' = [out EXCEPT ![c] = out[c] \o rbuffer[Slot(fd)]]
              /\ Rearm(fd, "recv_cb", {"IN"})
  BY SendTakesAll
<1>. DEFINE c == fdtab[fd]
            buf == rbuffer[Slot(fd)]
            m == Len(out'[c])
<1>2. UNCHANGED <<fdtab, stage, peer, rx, rbuffer, sent>>
  BY DEF SendOk
<1>3. /\ out \in [Conn -> Seq(Byte)] /\ buf \in Seq(Byte) /\ rx[c] \in Seq(Byte) /\ sent[c] \in Nat
      /\ c \in Conn
  BY <1>1, MaxBytesAssumption DEF EchoInv, BaseInv, EchoTypes
<1>4. /\ out' = [out EXCEPT ![c] = out[c] \o buf]
      /\ out'[c] = out[c] \o buf
  BY <1>1, <1>3
<1>5. out'[c] \in Seq(Byte) /\ m \in Nat /\ Len(out[c]) \in Nat /\ Len(out[c]) <= m
      /\ (m = Len(out[c]) => buf = <<>>)
  <2>1. out[c] \in Seq(Byte)
    BY <1>3
  <2>2. out'[c] \in Seq(Byte) /\ m = Len(out[c]) + Len(buf) /\ Len(out[c]) \in Nat /\ Len(buf) \in Nat
    <3>1. (out[c] \o buf) \in Seq(Byte) /\ Len(out[c] \o buf) = Len(out[c]) + Len(buf)
      BY <1>3, <2>1, ConcatProperties
    <3>2. Len(out[c]) \in Nat /\ Len(buf) \in Nat
      BY <1>3, <2>1, LenProperties
    <3>. QED  BY <1>4, <3>1, <3>2
  <2>3. Len(buf) = 0 => buf = <<>>
    BY <1>3, EmptySeq
  <2>. HIDE DEF buf
  <2>. QED  BY <2>2, <2>3
<1>6. out'[c] \o rx[c] = Stream(c, sent[c])
  <2>1. out[c] \o Pending(fd) \o rx[c] = Stream(c, sent[c])
    BY <1>1, ConnAssumption DEF EchoInv, EchoConservation
  <2>2. Pending(fd) = buf
    BY <1>1 DEF Pending
  <2>. QED  BY <1>4, <2>1, <2>2
<1>7. out'[c] = Stream(c, m) /\ m <= sent[c]
  BY <1>3, <1>5, <1>6, PrefixOfStream
<1>8. StateMap' = StateMap
  BY <1>2 DEF StateMap, ServiceState, Gone
<1>9. CASE m = Len(out[c])
  <2>1. out' = out
    <3>1. out[c] \o <<>> = out[c]
      BY <1>3
    <3>. QED  BY <1>3, <1>4, <1>5, <1>9, <3>1
  <2>. QED  BY <1>2, <1>8, <2>1 DEF Service!vars, StateMap
<1>10. CASE m # Len(out[c])
  <2>1. m \in (Len(out[c]) + 1)..sent[c]
    BY <1>3, <1>5, <1>7, <1>10
  <2>2. StateMap[c] \in {"up", "left"}
    BY <1>1, <1>3 DEF StateMap, ServiceState, Gone
  <2>3. out' = [out EXCEPT ![c] = Service!Stream(c, m)]
    BY <1>4, <1>7 DEF Service!Stream, Stream
  <2>4. Service!Answer(c)
    BY <1>2, <1>8, <2>1, <2>2, <2>3 DEF Service!Answer, StateMap
  <2>. QED  BY <1>3, <2>4 DEF Service!Next
<1>. QED  BY <1>9, <1>10

LEMMA ClientImplements ==
    ASSUME EchoInv, NEW c \in Conn, Client(c)
    PROVE  [Service!Next]_(Service!vars)
<1>1. stage \in [Conn -> Stages] /\ peer \in [Conn -> PeerStates]
  BY DEF EchoInv, BaseInv, CoreInv, CoreTypeOK
<1>2. CASE ClientSend(c)
  <2>1. /\ sent[c] < MaxBytes /\ sent' = [sent EXCEPT ![c] = @ + 1] /\ UNCHANGED <<out, stage, peer>>
        /\ stage[c] # "closed" /\ peer[c] = "open"
    BY <1>2 DEF ClientSend, Arrive, Reaching
  <2>2. StateMap' = StateMap /\ StateMap[c] = "up"
    BY <2>1 DEF StateMap, ServiceState, Gone
  <2>3. Service!Ask(c)
    BY <2>1, <2>2 DEF Service!Ask, StateMap
  <2>. QED  BY <2>3 DEF Service!Next
<1>3. CASE CoreClient(c) /\ Frame
  <2>1. \A d \in Conn \ {c} : stage'[d] = stage[d] /\ peer'[d] = peer[d]
    BY <1>1, <1>3
    DEF CoreClient, Connect, ClientFin, ClientReset, ClientPipe, PeerTimeout, Lose, ClientRead
  <2>2. StateMap' = [StateMap EXCEPT ![c] = ServiceState(c)']
    BY <2>1, StateStep
  <2>3. CASE Connect(c) \/ ClientRead(c)
    <3>1. ServiceState(c)' = ServiceState(c)
      BY <1>1, <2>3 DEF Connect, ClientRead, ServiceState, Gone
    <3>2. StateMap' = StateMap
      BY <2>2, <3>1 DEF StateMap
    <3>. QED  BY <1>3, <3>2 DEF Service!vars, Frame, StateMap
  <2>4. CASE ClientFin(c)
    <3>1. ServiceState(c)' = "left" /\ StateMap[c] = "up"
      BY <1>1, <2>4 DEF ClientFin, Reaching, ServiceState, StateMap, Gone
    <3>2. Service!Leave(c)
      BY <1>3, <2>2, <3>1 DEF Service!Leave, Frame, StateMap
    <3>. QED  BY <3>2 DEF Service!Next
  <2>5. CASE ClientReset(c) \/ ClientPipe(c) \/ PeerTimeout(c)
    <3>1. ServiceState(c)' = "lost" /\ StateMap[c] \in {"up", "left"}
      BY <1>1, <2>5
      DEF ClientReset, ClientPipe, PeerTimeout, Lose, Reaching, ServiceState, StateMap, Gone
    <3>2. Service!Lose(c)
      BY <1>3, <2>2, <3>1 DEF Service!Lose, Frame, StateMap
    <3>. QED  BY <3>2 DEF Service!Next
  <2>. QED  BY <1>3, <2>3, <2>4, <2>5 DEF CoreClient
<1>. QED  BY <1>2, <1>3 DEF Client, Frame

LEMMA StepImplements ==
    ASSUME NoShortSend, EchoInv, [Next]_vars
    PROVE  [Service!Next]_(Service!vars)
<1>1. EchoInv'
  BY EchoStep
<1>2. CoreInv /\ stage \in [Conn -> Stages]
  BY DEF EchoInv, BaseInv, CoreInv, CoreTypeOK
<1>3. ASSUME UNCHANGED <<peer, sent, out>>,
             \A d \in Conn : stage'[d] = "closed" <=> stage[d] = "closed"
      PROVE  UNCHANGED Service!vars
  BY <1>3 DEF Service!vars, ServiceState, Gone
<1>4. CASE UNCHANGED vars \/ Idle \/ (EpollWait /\ Frame)
  BY <1>3, <1>4
  DEF vars, coreVars, kernelVars, reactorVars, Idle, EpollTimeout, EpollWait, Frame
<1>5. ASSUME NEW b \in batch, accept_cb(b), Frame PROVE UNCHANGED Service!vars
  <2>1. CASE AcceptFails(b)
    BY <1>3, <1>5, <2>1 DEF AcceptFails, kernelVars, Frame
  <2>2. CASE AcceptOk(b) \/ AcceptForgets(b)
    <3>1. PICK fd \in Fd : Accepting(fd)
      BY <2>2 DEF AcceptOk, AcceptForgets
    <3>2. backlog # <<>>
      BY <1>2, <2>2, EventFd DEF AcceptOk, AcceptForgets, Dispatch, EventOf
    <3>3. Head(backlog) \in Conn /\ stage[Head(backlog)] = "queued"
      BY <1>2, <3>1, <3>2, AcceptingKeeps
    <3>4. stage' = [stage EXCEPT ![Head(backlog)] = "accepted"] /\ peer' = peer
      BY <3>1 DEF Accepting
    <3>. QED  BY <1>2, <1>3, <1>5, <3>3, <3>4 DEF Frame
  <2>. QED  BY <1>5, <2>1, <2>2 DEF accept_cb
<1>6. ASSUME NEW b \in batch, RecvData(b) \/ SendKilled(b) PROVE UNCHANGED Service!vars
  BY <1>3, <1>6 DEF RecvData, SendKilled, kernelVars
<1>7. ASSUME NEW b \in batch, RecvEnd(b) PROVE Service!Next
  <2>1. PICK c \in Conn : /\ stage' = [stage EXCEPT ![c] = "closed"] /\ stage[c] = "accepted"
                          /\ peer[c] \in {"fin", "pipe", "reset"} /\ out[c] = Stream(c, sent[c])
    BY <1>7, RecvEndConserves
  <2>2. UNCHANGED <<peer, sent, out>>
    BY <1>7 DEF RecvEnd
  <2>. QED  BY <1>2, <2>1, <2>2, CloseImplements DEF Gone
<1>8. ASSUME NEW b \in batch, RecvError(b) \/ SendError(b) PROVE [Service!Next]_(Service!vars)
  <2>1. UNCHANGED <<peer, sent, out>>
    BY <1>8 DEF RecvError, SendError
  <2>2. CASE UNCHANGED stage
    BY <1>3, <2>1, <2>2
  <2>3. CASE \E c \in Conn : /\ stage' = [stage EXCEPT ![c] = "closed"] /\ stage[c] = "accepted"
                            /\ peer[c] \in {"reset", "timeout"}
    BY <1>2, <2>1, <2>3, CloseImplements DEF Gone
  <2>. QED  BY <1>8, <2>2, <2>3, GiveUpConserves
<1>. QED
  BY <1>1, <1>4, <1>5, <1>6, <1>7, <1>8, ClientImplements, SendImplements
  DEF Next, Server, Frame, recv_cb, send_cb

\* If a writable socket has room for a whole rbuffer, the reactor keeps the
\* promises of EchoService, whatever Faults happen.
THEOREM Implements == ASSUME NoShortSend PROVE Spec => Refinement
<1>1. Init => EchoInv
  BY EchoInit
<1>2. EchoInv /\ [Next]_vars => EchoInv'
  BY EchoStep
<1>3. Init => Service!Init
  BY DEF Init, CoreInit, Service!Init, ServiceState, Gone
<1>4. EchoInv /\ [Next]_vars => [Service!Next]_(Service!vars)
  BY StepImplements
<1>. QED  BY <1>1, <1>2, <1>3, <1>4, PTL DEF Spec, Refinement, Service!Spec

-----------------------------------------------------------------------------
(* No connection is forgotten *)

\* Only resets and closed clients: fcntl succeeds, what epoll reports can be
\* read, and no peer times out.
NoRareFaults == Faults \cap {"fcntl", "eagain", "timeout"} = {}

\* What epoll reported readable still is when recv_cb gets to it, so that recv
\* returns data, the end of the stream or ECONNRESET.
Readies ==
    /\ \A c \in Conn : peer[c] # "timeout"
    /\ \A b \in batch : "IN" \in b.events /\ b.conn # NoConn => Readable(b.conn)

WatchedInv == BaseInv /\ NoOrphan /\ Readies

\* The other events of the batch are of other connections.
LEMMA OtherEvents ==
    ASSUME CoreInv, NEW b \in batch, ev[b.ptr].callback \in {"recv_cb", "send_cb"},
           NEW a \in batch \ {b}, a.conn # NoConn
    PROVE  a.conn \in Conn /\ a.conn # fdtab[ev[b.ptr].fd]
<1>. DEFINE fd == ev[b.ptr].fd
<1>1. fd \in Fd /\ EventOf(b, fd) /\ fdtab[fd] \in Conn
  BY EventFd
<1>2. PICK g \in AllFd : EventOf(a, g)
  BY DEF CoreInv, BatchInv
<1>3. g # fd /\ g # ListenFd
  BY <1>1, <1>2 DEF CoreInv, BatchInv, EventOf, Owner
<1>4. g \in Fd /\ a.conn = fdtab[g]
  BY <1>2, <1>3 DEF AllFd, EventOf, Owner
<1>. QED  BY <1>1, <1>3, <1>4 DEF CoreInv, CoreTypeOK, OneFdPerConn

\* A step that takes no event into the batch and leaves the connections of the
\* remaining ones alone keeps them readable.
LEMMA ReadiesKept ==
    ASSUME Readies, batch' \subseteq batch, UNCHANGED peer,
           \A a \in batch' : a.conn # NoConn => a.conn \in Conn /\ rx'[a.conn] = rx[a.conn]
    PROVE  Readies'
  BY DEF Readies, Readable

LEMMA RearmWatches ==
    ASSUME BaseInv, BaseInv', NoOrphan, NEW fd \in Fd, NEW cb, NEW evs,
           Rearm(fd, cb, evs), ev[Slot(fd)].fd = fd, UNCHANGED fdtab
    PROVE  NoOrphan'
<1>1. \A g \in Fd \ {fd} : interest'[g] = interest[g]
  BY RearmLocal
<1>2. ev'[Slot(fd)].status = 1
  <2>1. ev \in [Slots -> NtyEvent] /\ Slot(fd) \in Slots
    BY DEF BaseInv, CoreInv, CoreTypeOK, Slots, AllFd
  <2>. QED  BY <2>1 DEF Rearm, EventAdd, EventSet, EventDel, NtyEvent
<1>3. interest'[fd] # {}
  BY <1>2 DEF BaseInv, CoreInv, PollMirrorsBlocks, AllFd
<1>. QED  BY <1>1, <1>3 DEF NoOrphan

LEMMA WatchedStep ==
    ASSUME NoRareFaults, WatchedInv, [Next]_vars
    PROVE  WatchedInv'
<1>1. BaseInv /\ CoreInv /\ BaseInv' /\ NoOrphan /\ Readies
  BY BaseStep DEF WatchedInv, BaseInv
<1>. DEFINE Goal == NoOrphan' /\ Readies'
<1>. SUFFICES Goal
  BY <1>1 DEF WatchedInv
<1>2. CASE UNCHANGED vars \/ Idle
  BY <1>1, <1>2 DEF vars, coreVars, kernelVars, reactorVars, Idle, EpollTimeout, NoOrphan,
                    Readies, Readable
<1>3. ASSUME NEW c \in Conn, Client(c) PROVE Goal
  <2>1. UNCHANGED <<fdtab, interest, batch>>
    BY <1>3 DEF Client, ClientSend, Arrive, CoreClient, Connect, ClientFin, ClientReset, ClientPipe,
                PeerTimeout, Lose, ClientRead, reactorVars
  <2>2. NoOrphan'
    BY <1>1, <2>1 DEF NoOrphan
  <2>3. /\ \A d \in Conn : peer'[d] # peer[d] => peer'[d] \in {"fin", "reset", "pipe"}
        /\ \A d \in Conn : rx[d] # <<>> => rx'[d] # <<>>
    <3>1. peer \in [Conn -> PeerStates] /\ rx \in [Conn -> Seq(Byte)]
      BY <1>1 DEF BaseInv, EchoTypes, CoreInv, CoreTypeOK
    <3>2. CASE ClientSend(c)
      <4>1. peer' = peer /\ rx' = [rx EXCEPT ![c] = rx[c] \o <<<<c, sent[c] + 1>>>>]
        BY <3>2 DEF ClientSend, Arrive
      <4>2. sent[c] \in Nat /\ rx[c] \in Seq(Byte)
        BY <1>1, <3>1, MaxBytesAssumption DEF BaseInv, EchoTypes
      <4>3. rx[c] \o <<<<c, sent[c] + 1>>>> # <<>>
        BY <4>2
      <4>. QED  BY <3>1, <4>1, <4>3
    <3>3. CASE CoreClient(c) /\ Frame
      <4>1. ~PeerTimeout(c)
        BY DEF NoRareFaults, PeerTimeout
      <4>. QED
        BY <3>1, <3>3, <4>1 DEF CoreClient, Connect, ClientFin, ClientReset, ClientPipe, Lose, ClientRead
    <3>. QED  BY <1>3, <3>2, <3>3 DEF Client, Frame
  <2>4. Readies'
    <3>1. \A b \in batch : b.conn \in Conn \cup {NoConn}
      BY <1>1 DEF CoreInv, CoreTypeOK, BatchEvent
    <3>. QED  BY <1>1, <2>1, <2>3, <3>1 DEF Readies, Readable
  <2>. QED  BY <2>2, <2>4
<1>4. CASE EpollWait /\ Frame
  <2>1. UNCHANGED <<fdtab, interest, peer, rx>>
    BY <1>4 DEF EpollWait, kernelVars
  <2>2. PICK fds \in SUBSET {fd \in AllFd : Ready(fd) # {} \/ Spurious(fd)} :
          batch' = {[ptr |-> Slot(fd), events |-> Reported(fd), conn |-> Owner(fd)] : fd \in fds}
    BY <1>4 DEF EpollWait
  <2>3. ASSUME NEW b \in batch', "IN" \in b.events, b.conn # NoConn PROVE Readable(b.conn)
    <3>1. PICK fd \in fds : b = [ptr |-> Slot(fd), events |-> Reported(fd), conn |-> Owner(fd)]
      BY <2>2, <2>3
    <3>2. Ready(fd) # {}
      BY <2>2 DEF NoRareFaults, Spurious
    <3>3. fd # ListenFd /\ b.conn = fdtab[fd] /\ "IN" \in Readiness(fd)
      BY <2>3, <3>1, <3>2 DEF Owner, Reported, Ready
    <3>. QED  BY <3>3 DEF Readiness
  <2>4. NoOrphan' /\ Readies'
    BY <1>1, <2>1, <2>3 DEF NoOrphan, Readies, Readable
  <2>. QED  BY <2>4
<1>5. ASSUME NEW b \in batch, accept_cb(b), Frame PROVE Goal
  <2>1. ~AcceptForgets(b)
    BY DEF NoRareFaults, AcceptForgets
  <2>2. batch' \subseteq batch /\ UNCHANGED <<peer, rx>>
    BY <1>5 DEF accept_cb, AcceptOk, AcceptForgets, AcceptFails, Dispatch, Accepting, kernelVars
  <2>3. Readies'
    <3>1. \A a \in batch : a.conn \in Conn \cup {NoConn}
      BY <1>1 DEF CoreInv, CoreTypeOK, BatchEvent
    <3>. QED  BY <1>1, <2>2, <3>1, ReadiesKept
  <2>4. CASE AcceptFails(b)
    BY <1>1, <2>3, <2>4 DEF AcceptFails, kernelVars, NoOrphan
  <2>5. CASE AcceptOk(b)
    <3>1. PICK fd \in Fd :
             /\ Accepting(fd)
             /\ interest' = EpollAdd(interest, EventSet(ev[Slot(fd)], fd, "recv_cb"), {"IN"})
      BY <2>5 DEF AcceptOk
    <3>2. fdtab[fd] = NoConn /\ fdtab' = [fdtab EXCEPT ![fd] = Head(backlog)]
      BY <3>1 DEF Accepting, FreeFd
    <3>3. interest[fd] = {} /\ ev[Slot(fd)] \in NtyEvent /\ ev[Slot(fd)].status # 1 /\ fd \in AllFd
      BY <1>1, <3>2, FreeFdIsUnwatched
    <3>4. LET e == EventSet(ev[Slot(fd)], fd, "recv_cb") IN e.fd = fd /\ e.status # 1
      BY <3>3 DEF EventSet, NtyEvent
    <3>5. interest' = [interest EXCEPT ![fd] = {"IN"}]
      BY <3>1, <3>3, <3>4 DEF EpollAdd
    <3>6. fdtab \in [Fd -> Conn \cup {NoConn}] /\ interest \in [AllFd -> SUBSET Events]
          /\ \A g \in Fd : g \in AllFd
      BY <1>1 DEF CoreInv, CoreTypeOK, AllFd
    <3>7. NoOrphan'
      BY <1>1, <3>2, <3>5, <3>6 DEF NoOrphan
    <3>. QED  BY <2>3, <3>7
  <2>. QED  BY <1>5, <2>1, <2>4, <2>5 DEF accept_cb
<1>6. ASSUME NEW b \in batch, RecvData(b) PROVE Goal
  <2>1. PICK fd \in Fd : LET c == fdtab[fd]
                             n == Min2(Len(rx[c]), BUFFER_LENGTH)
         IN /\ fd = ev[b.ptr].fd /\ c \in Conn /\ Mirrors(fd) /\ interest[fd] = {"IN"}
            /\ rx' = [rx EXCEPT ![c] = SubSeq(rx[c], n + 1, Len(rx[c]))]
            /\ Rearm(fd, "send_cb", {"OUT"})
    BY <1>1, <1>6, ReadStep
  <2>2. /\ batch' = batch \ {b} /\ ev[b.ptr].callback = "recv_cb"
        /\ UNCHANGED <<fdtab, peer>>
    BY <1>6 DEF RecvData, Dispatch
  <2>3. ev[Slot(fd)].fd = fd
    BY <2>1 DEF Mirrors
  <2>4. NoOrphan'
    BY <1>1, <2>1, <2>2, <2>3, RearmWatches
  <2>5. \A a \in batch' : a.conn # NoConn => a.conn \in Conn /\ a.conn # fdtab[fd]
    BY <1>1, <2>1, <2>2, OtherEvents
  <2>6. rx \in [Conn -> Seq(Byte)]
    BY <1>1 DEF BaseInv, EchoTypes
  <2>7. Readies'
    BY <1>1, <2>1, <2>2, <2>5, <2>6, ReadiesKept
  <2>. QED  BY <2>4, <2>7
<1>7. ASSUME NEW b \in batch, RecvEnd(b) \/ SendError(b) PROVE Goal
  <2>. DEFINE fd == ev[b.ptr].fd
  <2>1. /\ batch' = batch \ {b} /\ ev[b.ptr].callback \in {"recv_cb", "send_cb"}
        /\ DelAndClose(fd) /\ UNCHANGED <<peer, rx>>
    BY <1>7 DEF RecvEnd, SendError, Dispatch
  <2>2. fd \in Fd /\ Mirrors(fd) /\ interest[fd] # {}
    BY <1>1, <2>1, EventFd
  <2>3. /\ fdtab \in [Fd -> Conn \cup {NoConn}] /\ interest \in [AllFd -> SUBSET Events]
        /\ \A g \in Fd : g \in AllFd
    BY <1>1 DEF CoreInv, CoreTypeOK, AllFd
  <2>4. EpollDel(interest, ev[Slot(fd)]) = [interest EXCEPT ![fd] = {}]
    BY <2>2 DEF EpollDel, Mirrors
  <2>5. fdtab'[fd] = NoConn /\ \A g \in Fd \ {fd} : fdtab'[g] = fdtab[g] /\ interest'[g] = interest[g]
    BY <2>1, <2>2, <2>3, <2>4 DEF DelAndClose
  <2>6. NoOrphan'
    BY <1>1, <2>5 DEF NoOrphan
  <2>7. Readies'
    BY <1>1, <2>1, OtherEvents, ReadiesKept
  <2>. QED  BY <2>6, <2>7
<1>8. ASSUME NEW b \in batch, RecvError(b) PROVE FALSE
  <2>. DEFINE fd == ev[b.ptr].fd
  <2>1. Dispatch(b, "recv_cb") /\ rx[fdtab[fd]] = <<>> /\ peer[fdtab[fd]] \in {"open", "timeout"}
    BY <1>8 DEF RecvError
  <2>2. fd \in Fd /\ fdtab[fd] \in Conn /\ EventOf(b, fd) /\ interest[fd] = {"IN"}
    BY <1>1, <2>1, EventFd DEF Dispatch
  <2>3. "IN" \in b.events /\ b.conn = fdtab[fd]
    BY <2>2, FdAssumption DEF EventOf, Owner
  <2>4. Readable(fdtab[fd]) /\ peer[fdtab[fd]] # "timeout"
    BY <1>1, <2>2, <2>3, ConnAssumption DEF Readies
  <2>. QED  BY <2>1, <2>4 DEF Readable
<1>9. ASSUME NEW b \in batch, SendOk(b) PROVE Goal
  <2>1. PICK fd \in Fd : /\ fd = ev[b.ptr].fd /\ Mirrors(fd) /\ interest[fd] = {"OUT"}
                         /\ Rearm(fd, "recv_cb", {"IN"})
    BY <1>1, <1>9, SendStep
  <2>2. /\ batch' = batch \ {b} /\ ev[b.ptr].callback = "send_cb"
        /\ UNCHANGED <<fdtab, peer, rx>>
    BY <1>9 DEF SendOk, Dispatch
  <2>3. ev[Slot(fd)].fd = fd
    BY <2>1 DEF Mirrors
  <2>4. NoOrphan'
    BY <1>1, <2>1, <2>2, <2>3, RearmWatches
  <2>5. Readies'
    BY <1>1, <2>2, OtherEvents, ReadiesKept
  <2>. QED  BY <2>4, <2>5
<1>10. ASSUME NEW b \in batch, SendKilled(b) PROVE Goal
  BY <1>1, <1>10 DEF SendKilled, Dispatch, kernelVars, NoOrphan, Readies, Readable
<1>. QED
  BY <1>2, <1>3, <1>4, <1>5, <1>6, <1>7, <1>8, <1>9, <1>10
  DEF Next, Server, recv_cb, send_cb, Frame

\* As long as fcntl succeeds, readiness lasts and no peer times out, every open
\* connection is watched: the branches of recv_cb and accept_cb that drop one
\* are reached by those faults only.
THEOREM NoneForgotten == ASSUME NoRareFaults PROVE Spec => []NoOrphan
<1>1. Init => WatchedInv
  BY BaseInit DEF Init, CoreInit, WatchedInv, NoOrphan, Readies
<1>2. WatchedInv /\ [Next]_vars => WatchedInv'
  BY WatchedStep
<1>3. WatchedInv => NoOrphan
  BY DEF WatchedInv
<1>. QED  BY <1>1, <1>2, <1>3, PTL DEF Spec

-----------------------------------------------------------------------------
(* Whatever is lost, no byte is repeated, reordered or another client's *)

\* What client c sent before the bytes in its receive queue.
Taken(c) == sent[c] - Len(rx[c])

\* The receive queue holds the last bytes the client sent; what went back to
\* it was sent earlier.
QueueAt(c) ==
    /\ Len(rx[c]) <= sent[c]
    /\ \A j \in 1..Len(rx[c]) : rx[c][j] = <<c, Taken(c) + j>>
    /\ \A i \in 1..Len(out[c]) : out[c][i][2] <= Taken(c)

\* p holds the bytes of c before those in its queue; what went back is earlier.
Precedes(p, c) ==
    /\ Len(p) <= Taken(c)
    /\ \A j \in 1..Len(p) : p[j] = <<c, Taken(c) - Len(p) + j>>
    /\ \A i \in 1..Len(out[c]) : out[c][i][2] <= Taken(c) - Len(p)

PendingAt(fd) ==
    interest[fd] # {} /\ fdtab[fd] # NoConn => Precedes(Pending(fd), fdtab[fd])

OwnAt(c) ==
    \A i \in 1..Len(out[c]) :
        /\ out[c][i][1] = c
        /\ out[c][i][2] <= sent[c]
        /\ i > 1 => out[c][i - 1][2] < out[c][i][2]

OrderInv ==
    /\ BaseInv
    /\ \A c \in Conn : QueueAt(c) /\ OwnAt(c)
    /\ \A fd \in Fd : PendingAt(fd)

LEMMA OrderTypes ==
    ASSUME BaseInv, NEW c \in Conn
    PROVE  /\ rx[c] \in Seq(Byte) /\ out[c] \in Seq(Byte) /\ sent[c] \in Nat
           /\ Len(rx[c]) \in Nat /\ Len(out[c]) \in Nat
           /\ \A i \in 1..Len(out[c]) : out[c][i][2] \in Nat
<1>1. rx[c] \in Seq(Byte) /\ out[c] \in Seq(Byte) /\ sent[c] \in Nat
  BY MaxBytesAssumption DEF BaseInv, EchoTypes
<1>2. Len(rx[c]) \in Nat /\ Len(out[c]) \in Nat
  BY <1>1, LenProperties
<1>3. \A i \in 1..Len(out[c]) : out[c][i] \in Conn \X Nat
  BY <1>1, ElementOfSeq DEF Byte
<1>. QED  BY <1>1, <1>2, <1>3

LEMMA NothingPrecedes ==
    ASSUME BaseInv, NEW c \in Conn, QueueAt(c)
    PROVE  Precedes(<<>>, c)
<1>1. Taken(c) \in Nat
  BY OrderTypes DEF QueueAt, Taken
<1>2. Len(<<>>) = 0
  OBVIOUS
<1>. QED  BY <1>1, <1>2 DEF Precedes, QueueAt

\* Steps that move no byte.
LEMMA OrderFrame ==
    ASSUME OrderInv, UNCHANGED <<rx, rbuffer, sent, out>>,
           \A g \in Fd : interest'[g] # {} /\ fdtab'[g] # NoConn =>
               \/ /\ fdtab'[g] = fdtab[g] /\ interest'[g] = interest[g]
                  /\ ev'[Slot(g)] = ev[Slot(g)]
               \/ fdtab'[g] \in Conn /\ Pending(g)' = <<>>
    PROVE  /\ \A c \in Conn : QueueAt(c)' /\ OwnAt(c)'
           /\ \A fd \in Fd : PendingAt(fd)'
<1>1. \A c \in Conn : QueueAt(c)' /\ OwnAt(c)'
  BY DEF OrderInv, QueueAt, OwnAt, Taken
<1>3. ASSUME NEW g \in Fd, interest'[g] # {}, fdtab'[g] # NoConn
      PROVE  Precedes(Pending(g), fdtab[g])'
  <2>1. CASE /\ fdtab'[g] = fdtab[g] /\ interest'[g] = interest[g]
             /\ ev'[Slot(g)] = ev[Slot(g)]
    <3>1. Precedes(Pending(g), fdtab[g])
      BY <1>3, <2>1 DEF OrderInv, PendingAt
    <3>2. Pending(g)' = Pending(g)
      BY <2>1 DEF Pending
    <3>. QED  BY <2>1, <3>1, <3>2 DEF Precedes, Taken
  <2>2. CASE fdtab'[g] \in Conn /\ Pending(g)' = <<>>
    <3>1. Precedes(<<>>, fdtab'[g])
      BY <2>2, NothingPrecedes DEF OrderInv
    <3>. QED  BY <2>2, <3>1 DEF Precedes, Taken
  <2>. QED  BY <1>3, <2>1, <2>2
<1>. QED  BY <1>1, <1>3 DEF PendingAt

\* Steps that move bytes of one connection only.
LEMMA OrderMoves ==
    ASSUME OrderInv, NEW c \in Conn, UNCHANGED <<fdtab>>,
           \A d \in Conn \ {c} : out'[d] = out[d] /\ rx'[d] = rx[d] /\ sent'[d] = sent[d],
           \A g \in Fd : fdtab[g] # c =>
               /\ interest'[g] = interest[g] /\ ev'[Slot(g)] = ev[Slot(g)]
               /\ rbuffer'[Slot(g)] = rbuffer[Slot(g)],
           QueueAt(c)', OwnAt(c)',
           \A g \in Fd : fdtab[g] = c => PendingAt(g)'
    PROVE  /\ \A d \in Conn : QueueAt(d)' /\ OwnAt(d)'
           /\ \A fd \in Fd : PendingAt(fd)'
<1>1. ASSUME NEW d \in Conn \ {c} PROVE QueueAt(d)' /\ OwnAt(d)'
  <2>1. QueueAt(d) /\ OwnAt(d)
    BY DEF OrderInv
  <2>2. out'[d] = out[d] /\ rx'[d] = rx[d] /\ sent'[d] = sent[d]
    OBVIOUS
  <2>3. Taken(d)' = Taken(d)
    BY <2>2 DEF Taken
  <2>4. QueueAt(d)'
    BY <2>1, <2>2, <2>3 DEF QueueAt
  <2>5. OwnAt(d)'
    BY <2>1, <2>2 DEF OwnAt
  <2>. QED  BY <2>4, <2>5
<1>2. ASSUME NEW g \in Fd, fdtab[g] # c, interest'[g] # {}, fdtab'[g] # NoConn
      PROVE  Precedes(Pending(g), fdtab[g])'
  <2>. DEFINE d == fdtab[g]
  <2>1. d \in Conn \ {c} /\ fdtab'[g] = d
    BY <1>2 DEF OrderInv, BaseInv, CoreInv, CoreTypeOK
  <2>2. Precedes(Pending(g), d)
    BY <1>2 DEF OrderInv, PendingAt
  <2>3. Pending(g)' = Pending(g)
    BY <1>2 DEF Pending
  <2>4. out'[d] = out[d] /\ rx'[d] = rx[d] /\ sent'[d] = sent[d]
    BY <2>1
  <2>. QED  BY <2>1, <2>2, <2>3, <2>4 DEF Precedes, Taken
<1>. QED  BY <1>1, <1>2 DEF PendingAt

LEMMA SendKeepsOrder ==
    ASSUME OrderInv, NEW c \in Conn, ClientSend(c)
    PROVE  /\ \A d \in Conn : QueueAt(d)' /\ OwnAt(d)'
           /\ \A fd \in Fd : PendingAt(fd)'
<1>. DEFINE b == <<c, sent[c] + 1>>
<1>1. /\ rx' = [rx EXCEPT ![c] = rx[c] \o <<b>>] /\ sent' = [sent EXCEPT ![c] = sent[c] + 1]
      /\ UNCHANGED <<rbuffer, out, fdtab, interest, ev>>
  BY DEF ClientSend, Arrive, reactorVars
<1>2. /\ rx \in [Conn -> Seq(Byte)] /\ sent \in [Conn -> 0..MaxBytes]
      /\ BaseInv /\ QueueAt(c) /\ OwnAt(c)
  BY DEF OrderInv, BaseInv, EchoTypes
<1>3. /\ rx'[c] = rx[c] \o <<b>> /\ sent'[c] = sent[c] + 1 /\ out'[c] = out[c]
      /\ \A d \in Conn \ {c} : out'[d] = out[d] /\ rx'[d] = rx[d] /\ sent'[d] = sent[d]
  BY <1>1, <1>2
<1>4. /\ rx[c] \in Seq(Byte) /\ sent[c] \in Nat /\ Len(rx[c]) \in Nat
      /\ \A i \in 1..Len(out[c]) : out[c][i][2] \in Nat
  BY <1>2, OrderTypes
<1>5. b \in Byte
  BY <1>4 DEF Byte
<1>6. /\ Len(rx'[c]) = Len(rx[c]) + 1
      /\ \A j \in 1..Len(rx[c]) : rx'[c][j] = rx[c][j]
      /\ rx'[c][Len(rx[c]) + 1] = b
  <2>1. <<b>> \in Seq(Byte) /\ Len(<<b>>) = 1 /\ <<b>>[1] = b
    BY <1>5
  <2>. HIDE DEF b
  <2>2. /\ Len(rx[c] \o <<b>>) = Len(rx[c]) + 1
        /\ \A j \in 1..Len(rx[c]) : (rx[c] \o <<b>>)[j] = rx[c][j]
        /\ (rx[c] \o <<b>>)[Len(rx[c]) + 1] = b
    BY <1>4, <2>1
  <2>. QED  BY <1>3, <2>2
<1>7. Taken(c)' = Taken(c) /\ Taken(c) \in Nat
  BY <1>2, <1>3, <1>4, <1>6 DEF Taken, QueueAt
<1>8. QueueAt(c)'
  <2>1. Len(rx'[c]) <= sent'[c]
    BY <1>2, <1>3, <1>4, <1>6 DEF QueueAt
  <2>2. ASSUME NEW j \in 1..Len(rx'[c]) PROVE rx'[c][j] = <<c, Taken(c) + j>>
    <3>1. j \in 1..Len(rx[c]) \/ j = Len(rx[c]) + 1
      BY <1>4, <1>6
    <3>2. Taken(c) + (Len(rx[c]) + 1) = sent[c] + 1
      BY <1>4 DEF Taken
    <3>. QED  BY <1>2, <1>6, <3>1, <3>2 DEF QueueAt
  <2>3. \A i \in 1..Len(out'[c]) : out'[c][i][2] <= Taken(c)
    BY <1>2, <1>3 DEF QueueAt
  <2>. QED  BY <1>7, <2>1, <2>2, <2>3 DEF QueueAt
<1>9. OwnAt(c)'
  <2>1. \A i \in 1..Len(out[c]) : out[c][i][2] <= sent[c] + 1
    BY <1>2, <1>4 DEF OwnAt
  <2>. QED  BY <1>2, <1>3, <2>1 DEF OwnAt
<1>10. ASSUME NEW g \in Fd, fdtab[g] = c PROVE PendingAt(g)'
  <2>1. Pending(g)' = Pending(g) /\ PendingAt(g)
    BY <1>1 DEF Pending, OrderInv
  <2>. QED  BY <1>1, <1>3, <1>7, <1>10, <2>1 DEF PendingAt, Precedes
<1>. QED  BY <1>1, <1>2, <1>3, <1>8, <1>9, <1>10, OrderMoves

LEMMA ReadKeepsOrder ==
    ASSUME OrderInv, NEW b \in batch, RecvData(b)
    PROVE  /\ \A d \in Conn : QueueAt(d)' /\ OwnAt(d)'
           /\ \A fd \in Fd : PendingAt(fd)'
<1>1. BaseInv
  BY DEF OrderInv
<1>2. PICK fd \in Fd, c \in Conn, n \in Int :
         /\ c = fdtab[fd] /\ n \in 1..Len(rx[c]) /\ Mirrors(fd) /\ interest[fd] = {"IN"}
         /\ rbuffer' = [rbuffer EXCEPT ![Slot(fd)] = SubSeq(rx[c], 1, n)]
         /\ rx' = [rx EXCEPT ![c] = SubSeq(rx[c], n + 1, Len(rx[c]))]
         /\ Rearm(fd, "send_cb", {"OUT"})
  <2>1. PICK fd \in Fd : LET c == fdtab[fd]
                             n == Min2(Len(rx[c]), BUFFER_LENGTH)
           IN /\ fd = ev[b.ptr].fd /\ c \in Conn /\ n \in 1..Len(rx[c])
              /\ Mirrors(fd) /\ interest[fd] = {"IN"}
              /\ rbuffer' = [rbuffer EXCEPT ![Slot(fd)] = SubSeq(rx[c], 1, n)]
              /\ rx' = [rx EXCEPT ![c] = SubSeq(rx[c], n + 1, Len(rx[c]))]
              /\ Rearm(fd, "send_cb", {"OUT"})
    BY <1>1, ReadStep
  <2>. DEFINE c == fdtab[fd]
              n == Min2(Len(rx[c]), BUFFER_LENGTH)
  <2>2. c \in Conn /\ n \in 1..Len(rx[c])
    BY <2>1
  <2>3. n \in Int
    <3>1. Len(rx[c]) \in Nat
      BY <1>1, <2>2, OrderTypes
    <3>. HIDE DEF n
    <3>. QED  BY <2>2, <3>1
  <2>. QED  BY <2>1, <2>2, <2>3, Zenon
<1>3. PICK h, t : h = SubSeq(rx[c], 1, n) /\ t = SubSeq(rx[c], n + 1, Len(rx[c]))
  OBVIOUS
<1>4. UNCHANGED <<fdtab, sent, out>>
  BY DEF RecvData
<1>5. /\ Slot(fd) \in Slots /\ \A g \in Fd \ {fd} : Slot(g) # Slot(fd) /\ Slot(g) \in Slots
      /\ rbuffer \in [Slots -> Seq(Byte)] /\ rx \in [Conn -> Seq(Byte)]
  BY <1>1, SlotInjective DEF BaseInv, EchoTypes, Slots, AllFd
<1>6. /\ rx[c] \in Seq(Byte) /\ Len(rx[c]) \in Nat /\ sent[c] \in Nat
      /\ \A i \in 1..Len(out[c]) : out[c][i][2] \in Nat
  BY <1>1, OrderTypes
<1>7. /\ Len(h) = n /\ Len(t) = Len(rx[c]) - n
      /\ \A j \in 1..n : h[j] = rx[c][j]
      /\ \A j \in 1..Len(t) : t[j] = rx[c][n + j]
  <2>1. n \in 1..Len(rx[c])
    BY <1>2
  <2>2. Len(h) = n /\ Len(t) = Len(rx[c]) - n
    BY <1>3, <1>6, <2>1
  <2>3. \A j \in 1..n : h[j] = rx[c][j]
    BY <1>3, <1>6, <2>1
  <2>4. \A j \in 1..Len(t) : t[j] = rx[c][n + j]
    BY <1>3, <1>6, <2>1, <2>2
  <2>. QED  BY <2>2, <2>3, <2>4
<1>8. /\ ev'[Slot(fd)].callback = "send_cb"
      /\ \A g \in Fd \ {fd} : interest'[g] = interest[g] /\ ev'[Slot(g)] = ev[Slot(g)]
  <2>1. ev[Slot(fd)].fd = fd
    BY <1>2 DEF Mirrors
  <2>. QED  BY <1>1, <1>2, <2>1, RearmLocal
<1>9. Pending(fd)' = h
  BY <1>2, <1>3, <1>5, <1>8 DEF Pending
<1>10. /\ rx'[c] = t /\ \A d \in Conn \ {c} : rx'[d] = rx[d]
       /\ \A g \in Fd \ {fd} : rbuffer'[Slot(g)] = rbuffer[Slot(g)]
       /\ fdtab'[fd] = c /\ out'[c] = out[c] /\ sent'[c] = sent[c]
  BY <1>2, <1>3, <1>4, <1>5
<1>11. QueueAt(c) /\ OwnAt(c)
  BY DEF OrderInv
<1>12. PICK k : k = Taken(c)
  OBVIOUS
<1>13. /\ k = sent[c] - Len(rx[c]) /\ Len(rx[c]) <= sent[c]
       /\ \A j \in 1..Len(rx[c]) : rx[c][j] = <<c, k + j>>
       /\ \A i \in 1..Len(out[c]) : out[c][i][2] <= k
  BY <1>11, <1>12 DEF QueueAt, Taken
<1>14. k \in Nat /\ n \in 1..Len(rx[c])
  BY <1>2, <1>6, <1>13
<1>15. Taken(c)' = k + n
  <2>1. sent[c] - (Len(rx[c]) - n) = k + n
    BY <1>6, <1>13, <1>14
  <2>. QED  BY <1>7, <1>10, <2>1 DEF Taken
<1>16. ASSUME NEW j \in 1..Len(t) PROVE t[j] = <<c, (k + n) + j>>
  <2>1. n + j \in 1..Len(rx[c]) /\ k + (n + j) = (k + n) + j
    BY <1>6, <1>7, <1>14
  <2>. QED  BY <1>7, <1>13, <2>1
<1>17. /\ Len(h) <= k + n /\ (k + n) - Len(h) = k
       /\ \A j \in 1..Len(h) : h[j] = <<c, k + j>>
  <2>1. Len(h) <= k + n /\ (k + n) - Len(h) = k
    BY <1>7, <1>14
  <2>2. ASSUME NEW j \in 1..Len(h) PROVE h[j] = <<c, k + j>>
    <3>1. j \in 1..n /\ j \in 1..Len(rx[c])
      BY <1>6, <1>7, <1>14
    <3>. QED  BY <1>7, <1>13, <3>1
  <2>. QED  BY <2>1, <2>2
<1>18. QueueAt(c)'
  <2>1. Len(t) <= sent[c]
    BY <1>6, <1>7, <1>13, <1>14
  <2>2. \A i \in 1..Len(out[c]) : out[c][i][2] <= k + n
    BY <1>6, <1>13, <1>14
  <2>. QED  BY <1>10, <1>15, <1>16, <2>1, <2>2 DEF QueueAt
<1>19. OwnAt(c)'
  BY <1>10, <1>11 DEF OwnAt
<1>20. PendingAt(fd)'
  BY <1>9, <1>10, <1>13, <1>15, <1>17 DEF PendingAt, Precedes
<1>21. \A g \in Fd : fdtab[g] = c => g = fd
  BY <1>1, <1>2, ConnAssumption DEF BaseInv, CoreInv, OneFdPerConn
<1>. QED
  BY <1>4, <1>8, <1>10, <1>18, <1>19, <1>20, <1>21, OrderMoves

LEMMA EchoKeepsOrder ==
    ASSUME OrderInv, NEW b \in batch, SendOk(b)
    PROVE  /\ \A d \in Conn : QueueAt(d)' /\ OwnAt(d)'
           /\ \A fd \in Fd : PendingAt(fd)'
<1>1. BaseInv
  BY DEF OrderInv
<1>2. PICK fd \in Fd, c \in Conn, n \in Int, p \in Seq(Byte) :
         /\ c = fdtab[fd] /\ p = rbuffer[Slot(fd)] /\ n \in 0..Len(p)
         /\ Mirrors(fd) /\ interest[fd] = {"OUT"} /\ ev[Slot(fd)].callback = "send_cb"
         /\ out' = [out EXCEPT ![c] = out[c] \o SubSeq(p, 1, n)]
         /\ Rearm(fd, "recv_cb", {"IN"})
  <2>1. PICK fd \in Fd : LET c == fdtab[fd]
                             n == Min2(Len(rbuffer[Slot(fd)]), Room(c))
           IN /\ fd = ev[b.ptr].fd /\ c \in Conn /\ n \in 0..Len(rbuffer[Slot(fd)])
              /\ Mirrors(fd) /\ interest[fd] = {"OUT"}
              /\ ev[Slot(fd)].callback = "send_cb" /\ Slot(fd) \in Slots
              /\ out' = [out EXCEPT ![c] = @ \o SubSeq(rbuffer[Slot(fd)], 1, n)]
              /\ Rearm(fd, "recv_cb", {"IN"})
    BY <1>1, SendStep
  <2>. DEFINE c == fdtab[fd]
              p == rbuffer[Slot(fd)]
              n == Min2(Len(p), Room(c))
  <2>2. c \in Conn /\ n \in 0..Len(p)
    BY <2>1
  <2>3. p \in Seq(Byte) /\ Len(p) \in Nat
    <3>1. Slot(fd) \in Slots
      BY <2>1
    <3>2. rbuffer \in [Slots -> Seq(Byte)]
      BY <1>1 DEF BaseInv, EchoTypes
    <3>. QED  BY <3>1, <3>2
  <2>4. n \in Int
    <3>. HIDE DEF n, p
    <3>. QED  BY <2>2, <2>3
  <2>5. out' = [out EXCEPT ![c] = out[c] \o SubSeq(p, 1, n)]
    BY <2>1
  <2>. QED  BY <2>1, <2>2, <2>3, <2>4, <2>5, Zenon
<1>3. PICK h : h = SubSeq(p, 1, n)
  OBVIOUS
<1>4. UNCHANGED <<fdtab, rx, rbuffer, sent>>
  BY DEF SendOk
<1>5. out \in [Conn -> Seq(Byte)] /\ out[c] \in Seq(Byte) /\ Len(out[c]) \in Nat /\ Len(p) \in Nat
  BY <1>1, <1>2 DEF BaseInv, EchoTypes
<1>6. h \in Seq(Byte) /\ Len(h) = n /\ \A j \in 1..n : h[j] = p[j]
  BY <1>2, <1>3, <1>5
<1>7. out'[c] = out[c] \o h /\ \A d \in Conn \ {c} : out'[d] = out[d]
  BY <1>2, <1>3, <1>5
<1>8. PICK l, m : l = Len(out[c]) /\ m = l + n
  OBVIOUS
<1>9. /\ l \in Nat /\ m \in Nat /\ Len(out'[c]) = m
      /\ \A i \in 1..l : out'[c][i] = out[c][i]
      /\ \A i \in (l + 1)..m : out'[c][i] = h[i - l]
  <2>1. l \in Nat /\ m \in Nat /\ n \in Nat
    BY <1>2, <1>5, <1>8
  <2>2. Len(out'[c]) = m
    <3>1. Len(out[c] \o h) = Len(out[c]) + Len(h)
      BY <1>5, <1>6, ConcatProperties
    <3>. QED  BY <1>6, <1>7, <1>8, <3>1
  <2>3. \A i \in 1..l : out'[c][i] = out[c][i]
    BY <1>5, <1>6, <1>7, <1>8
  <2>4. \A i \in (l + 1)..m : out'[c][i] = h[i - l]
    BY <1>5, <1>6, <1>7, <1>8, <2>1, ConcatProperties
  <2>. QED  BY <2>1, <2>2, <2>3, <2>4
<1>10. /\ ev'[Slot(fd)].callback = "recv_cb"
       /\ \A g \in Fd \ {fd} : interest'[g] = interest[g] /\ ev'[Slot(g)] = ev[Slot(g)]
  <2>1. ev[Slot(fd)].fd = fd
    BY <1>2 DEF Mirrors
  <2>. QED  BY <1>1, <1>2, <2>1, RearmLocal
<1>11. Pending(fd) = p /\ Pending(fd)' = <<>>
  BY <1>2, <1>10 DEF Pending
<1>12. QueueAt(c) /\ OwnAt(c) /\ Precedes(p, c)
  BY <1>2, <1>11, ConnAssumption DEF OrderInv, PendingAt
<1>13. PICK k, e : k = Taken(c) /\ e = k - Len(p)
  OBVIOUS
<1>14. /\ k = sent[c] - Len(rx[c]) /\ Len(rx[c]) <= sent[c] /\ Len(p) <= k
       /\ \A j \in 1..Len(p) : p[j] = <<c, e + j>>
       /\ \A i \in 1..l : out[c][i][2] <= e
  BY <1>8, <1>12, <1>13 DEF QueueAt, Precedes, Taken
<1>15. /\ sent[c] \in Nat /\ Len(rx[c]) \in Nat
       /\ \A i \in 1..l : out[c][i][2] \in Nat
  BY <1>1, <1>8, OrderTypes
<1>16. k \in Nat /\ e \in Nat /\ e + n <= k /\ k <= sent[c] /\ n \in Nat
  <2>1. n \in Nat /\ n <= Len(p)
    BY <1>2, <1>5
  <2>2. k \in Nat /\ k <= sent[c]
    BY <1>14, <1>15
  <2>. QED  BY <1>5, <1>13, <1>14, <2>1, <2>2
<1>17. Taken(c)' = k /\ rx'[c] = rx[c] /\ sent'[c] = sent[c] /\ fdtab'[fd] = c
  BY <1>2, <1>4, <1>13 DEF Taken
<1>18. ASSUME NEW i \in (l + 1)..m PROVE out'[c][i] = <<c, e + (i - l)>>
  <2>1. i - l \in 1..n /\ i - l \in 1..Len(p)
    BY <1>2, <1>5, <1>8, <1>9, <1>16
  <2>. QED  BY <1>6, <1>9, <1>14, <2>1
<1>19. ASSUME NEW i \in 1..m
       PROVE  /\ out'[c][i][1] = c /\ out'[c][i][2] <= k
              /\ i > 1 => out'[c][i - 1][2] < out'[c][i][2]
  <2>1. CASE i \in 1..l
    <3>1. out'[c][i] = out[c][i] /\ (i > 1 => out'[c][i - 1] = out[c][i - 1])
      BY <1>9, <2>1
    <3>2. out[c][i][2] <= e /\ e <= k /\ out[c][i][2] \in Nat
      BY <1>5, <1>14, <1>15, <1>16, <2>1
    <3>3. out[c][i][1] = c /\ (i > 1 => out[c][i - 1][2] < out[c][i][2])
      BY <1>8, <1>12, <2>1 DEF OwnAt
    <3>. QED  BY <1>16, <3>1, <3>2, <3>3
  <2>2. CASE i \in (l + 1)..m
    <3>1. out'[c][i] = <<c, e + (i - l)>>
      BY <1>18, <2>2
    <3>2. e + (i - l) <= k
      BY <1>8, <1>9, <1>16, <2>2
    <3>3. ASSUME i > 1 PROVE out'[c][i - 1][2] < e + (i - l)
      <4>1. CASE i = l + 1
        <5>1. i - 1 \in 1..l /\ i - l = 1
          BY <1>9, <3>3, <4>1
        <5>2. out'[c][i - 1][2] <= e /\ out'[c][i - 1][2] \in Nat
          BY <1>9, <1>14, <1>15, <5>1
        <5>. QED  BY <1>16, <5>1, <5>2
      <4>2. CASE i # l + 1
        <5>1. i - 1 \in (l + 1)..m
          BY <1>9, <2>2, <4>2
        <5>2. out'[c][i - 1] = <<c, e + ((i - 1) - l)>>
          BY <1>18, <5>1
        <5>3. e + ((i - 1) - l) < e + (i - l)
          BY <1>9, <1>16, <2>2
        <5>. QED  BY <5>2, <5>3
      <4>. QED  BY <4>1, <4>2
    <3>. QED  BY <3>1, <3>2, <3>3
  <2>. QED  BY <1>9, <2>1, <2>2
<1>20. QueueAt(c)'
  BY <1>9, <1>12, <1>13, <1>17, <1>19 DEF QueueAt
<1>21. OwnAt(c)'
  <2>1. ASSUME NEW i \in 1..m PROVE out'[c][i][2] <= sent[c]
    <3>1. out'[c][i][2] \in Nat
      <4>1. CASE i \in 1..l
        BY <1>9, <1>15, <4>1
      <4>2. CASE i \in (l + 1)..m
        BY <1>9, <1>16, <1>18, <4>2
      <4>. QED  BY <1>9, <4>1, <4>2
    <3>. QED  BY <1>15, <1>16, <1>19, <3>1
  <2>. QED  BY <1>9, <1>17, <1>19, <2>1 DEF OwnAt
<1>22. PendingAt(fd)'
  <2>1. Len(<<>>) = 0
    OBVIOUS
  <2>. QED  BY <1>9, <1>11, <1>16, <1>17, <1>19, <2>1 DEF PendingAt, Precedes
<1>23. \A g \in Fd : fdtab[g] = c => g = fd
  BY <1>1, <1>2, ConnAssumption DEF BaseInv, CoreInv, OneFdPerConn
<1>. QED
  <2>1. \A d \in Conn \ {c} : out'[d] = out[d] /\ rx'[d] = rx[d] /\ sent'[d] = sent[d]
    BY <1>4, <1>7
  <2>2. \A g \in Fd : fdtab[g] # c =>
           /\ interest'[g] = interest[g] /\ ev'[Slot(g)] = ev[Slot(g)]
           /\ rbuffer'[Slot(g)] = rbuffer[Slot(g)]
    BY <1>2, <1>4, <1>10
  <2>. QED  BY <1>4, <1>20, <1>21, <1>22, <1>23, <2>1, <2>2, OrderMoves

LEMMA OrderStep == OrderInv /\ [Next]_vars => OrderInv'
<1>. SUFFICES ASSUME OrderInv, [Next]_vars PROVE OrderInv'
  OBVIOUS
<1>. DEFINE Goal == /\ \A c \in Conn : QueueAt(c)' /\ OwnAt(c)'
                    /\ \A fd \in Fd : PendingAt(fd)'
<1>1. BaseInv /\ CoreInv /\ BaseInv'
  BY BaseStep DEF OrderInv, BaseInv
<1>. SUFFICES Goal
  BY <1>1 DEF OrderInv
<1>2. CASE UNCHANGED vars \/ Idle \/ (EpollWait /\ Frame)
  <2>1. UNCHANGED <<rx, rbuffer, sent, out, fdtab, interest, ev>>
    BY <1>2 DEF vars, coreVars, kernelVars, reactorVars, Idle, EpollTimeout, EpollWait, Frame
  <2>. QED  BY <2>1, OrderFrame
<1>3. ASSUME NEW c \in Conn, Client(c) PROVE Goal
  <2>1. CASE ClientSend(c)
    BY <2>1, SendKeepsOrder
  <2>2. CASE CoreClient(c) /\ Frame
    <3>1. UNCHANGED <<fdtab, interest, ev, rx>>
      BY <2>2 DEF CoreClient, Connect, ClientFin, ClientReset, ClientPipe, PeerTimeout, Lose,
                  ClientRead, reactorVars
    <3>. QED  BY <2>2, <3>1, OrderFrame DEF Frame
  <2>. QED  BY <1>3, <2>1, <2>2 DEF Client, Frame
<1>4. ASSUME NEW b \in batch, accept_cb(b), Frame PROVE Goal
  <2>1. backlog # <<>>
    <3>1. Dispatch(b, "accept_cb")
      BY <1>4 DEF accept_cb, AcceptOk, AcceptForgets, AcceptFails
    <3>. QED  BY <1>1, <3>1, EventFd DEF Dispatch, EventOf
  <2>2. CASE AcceptFails(b)
    BY <1>4, <2>2, OrderFrame DEF AcceptFails, kernelVars, Frame
  <2>3. ASSUME NEW fd \in Fd, Accepting(fd),
               \/ UNCHANGED <<ev, interest>>
               \/ /\ ev' = [ev EXCEPT ![Slot(fd)] = EventAdd(EventSet(ev[Slot(fd)], fd, "recv_cb"), {"IN"})]
                  /\ interest' = EpollAdd(interest, EventSet(ev[Slot(fd)], fd, "recv_cb"), {"IN"})
        PROVE  Goal
    <3>1. /\ Head(backlog) \in Conn /\ fdtab[fd] = NoConn
          /\ fdtab' = [fdtab EXCEPT ![fd] = Head(backlog)] /\ rx' = rx
      BY <1>1, <2>1, <2>3, AcceptingKeeps DEF Accepting
    <3>2. interest[fd] = {} /\ ev[Slot(fd)] \in NtyEvent
      BY <1>1, <3>1, FreeFdIsUnwatched
    <3>3. /\ ev \in [Slots -> NtyEvent] /\ interest \in [AllFd -> SUBSET Events]
          /\ fdtab \in [Fd -> Conn \cup {NoConn}]
          /\ \A g \in Fd : g \in AllFd /\ Slot(g) \in Slots
          /\ \A g \in Fd \ {fd} : Slot(g) # Slot(fd)
      BY <1>1, SlotInjective DEF CoreInv, CoreTypeOK, Slots, AllFd
    <3>4. EventSet(ev[Slot(fd)], fd, "recv_cb").fd = fd
          /\ EventAdd(EventSet(ev[Slot(fd)], fd, "recv_cb"), {"IN"}).callback = "recv_cb"
      BY <3>2 DEF EventAdd, EventSet, NtyEvent
    <3>5. \A g \in Fd \ {fd} : /\ interest'[g] = interest[g] /\ ev'[Slot(g)] = ev[Slot(g)]
                                /\ fdtab'[g] = fdtab[g]
      BY <2>3, <3>1, <3>3, <3>4 DEF EpollAdd
    <3>6. interest'[fd] = {} \/ ev'[Slot(fd)].callback = "recv_cb"
      BY <2>3, <3>2, <3>3, <3>4
    <3>7. interest'[fd] # {} => fdtab'[fd] \in Conn /\ Pending(fd)' = <<>>
      BY <3>1, <3>3, <3>6 DEF Pending
    <3>. QED  BY <1>4, <3>1, <3>5, <3>7, OrderFrame DEF Frame
  <2>4. CASE AcceptOk(b)
    BY <2>3, <2>4 DEF AcceptOk
  <2>5. CASE AcceptForgets(b)
    BY <2>3, <2>5 DEF AcceptForgets
  <2>. QED  BY <1>4, <2>2, <2>4, <2>5 DEF accept_cb
<1>5. ASSUME NEW b \in batch, RecvEnd(b) \/ RecvError(b) \/ SendError(b) PROVE Goal
  <2>. DEFINE fd == ev[b.ptr].fd
  <2>1. /\ ev[b.ptr].callback \in {"recv_cb", "send_cb"}
        /\ DelAndClose(fd) \/ DelOnly(fd)
        /\ UNCHANGED <<rx, rbuffer, sent, out>>
    BY <1>5 DEF RecvEnd, RecvError, SendError, Dispatch
  <2>2. fd \in Fd /\ Mirrors(fd) /\ interest[fd] # {}
    BY <1>1, <2>1, EventFd
  <2>3. \A g \in Fd : interest'[g] # {} /\ fdtab'[g] # NoConn =>
               fdtab'[g] = fdtab[g] /\ interest'[g] = interest[g] /\ ev'[Slot(g)] = ev[Slot(g)]
    BY <1>1, <2>1, <2>2, CloseLocal
  <2>. QED  BY <2>1, <2>3, OrderFrame
<1>6. ASSUME NEW b \in batch, SendKilled(b) PROVE Goal
  BY <1>6, OrderFrame DEF SendKilled, kernelVars
<1>. QED
  BY <1>2, <1>3, <1>4, <1>5, <1>6, ReadKeepsOrder, EchoKeepsOrder
  DEF Next, Server, recv_cb, send_cb, Frame

LEMMA OrderInit == Init => OrderInv
<1>. SUFFICES ASSUME Init PROVE OrderInv
  OBVIOUS
<1>1. BaseInv
  BY BaseInit
<1>2. ASSUME NEW c \in Conn PROVE QueueAt(c) /\ OwnAt(c)
  <2>1. rx[c] = <<>> /\ out[c] = <<>> /\ sent[c] = 0
    BY DEF Init, CoreInit
  <2>2. Len(<<>>) = 0
    OBVIOUS
  <2>. QED  BY <2>1, <2>2 DEF QueueAt, OwnAt
<1>3. \A fd \in Fd : PendingAt(fd)
  BY DEF Init, CoreInit, PendingAt
<1>. QED  BY <1>1, <1>2, <1>3 DEF OrderInv

\* Whatever faults there are and however little send() takes, a client is sent
\* only bytes of its own, each at most once and in the order it sent them.
THEOREM OwnBytesOnly == Spec => []OwnBytesInOrder
<1>1. OrderInv => OwnBytesInOrder
  BY DEF OrderInv, OwnAt, OwnBytesInOrder
<1>. QED  BY <1>1, OrderInit, OrderStep, PTL DEF Spec
=============================================================================
