---------------------------- MODULE ReactorProofs ----------------------------
(***************************************************************************)
(* The inductive invariant of the reactor and what every step of           *)
(* ReactorCore does to it, for any number of connections and descriptors   *)
(* and any block size.  The servers' proofs cite these lemmas.             *)
(***************************************************************************)
EXTENDS ReactorCore, TLAPS

\* A control block agrees with the kernel (PollMirrorsBlocks for one fd).
Mirrors(fd) ==
    LET e == ev[Slot(fd)] IN
    /\ (e.status = 1) <=> (interest[fd] # {})
    /\ interest[fd] # {} =>
          /\ e.fd = fd /\ e.events = interest[fd]
          /\ Block(fd) < blkcnt
          /\ fd \in Fd => fdtab[fd] # NoConn
          /\ <<e.callback, e.events>> \in
                IF fd = ListenFd THEN {<<"accept_cb", {"IN"}>>}
                ELSE {<<"recv_cb", {"IN"}>>, <<"send_cb", {"OUT"}>>}

\* An event of the batch is one of a descriptor that is still registered for
\* it, a descriptor that was reported writable still is, and a connection is
\* still waiting when the listening socket was reported.
EventOf(b, fd) ==
    /\ b.ptr = Slot(fd) /\ b.conn = Owner(fd)
    /\ b.events # {} /\ b.events \subseteq interest[fd]
    /\ "OUT" \in b.events /\ fd \in Fd => Writable(fdtab[fd])
    /\ fd = ListenFd => backlog # <<>>

BatchInv ==
    /\ \A b \in batch : \E fd \in AllFd : EventOf(b, fd)
    /\ \A a, b \in batch : a.ptr = b.ptr => a = b

BacklogInv ==
    /\ \A i \in 1..Len(backlog) : stage[backlog[i]] = "queued"
    /\ \A i, j \in 1..Len(backlog) : backlog[i] = backlog[j] => i = j

CoreInv ==
    /\ CoreTypeOK
    /\ PollMirrorsBlocks
    /\ OneFdPerConn
    /\ BatchInv
    /\ BacklogInv

-----------------------------------------------------------------------------
LEMMA DivMod ==
    ASSUME NEW a \in Nat, NEW n \in Nat \ {0}
    PROVE  a = n * (a \div n) + (a % n)
OBVIOUS

\* ntyreactor_idx gives different descriptors different control blocks.
LEMMA SlotInjective ==
    ASSUME NEW f \in AllFd, NEW g \in AllFd, Slot(f) = Slot(g)
    PROVE  f = g
<1>1. f \in Nat /\ g \in Nat
  BY FdAssumption DEF AllFd
<1>2. f \div MAX_EPOLL_EVENTS = g \div MAX_EPOLL_EVENTS
      /\ f % MAX_EPOLL_EVENTS = g % MAX_EPOLL_EVENTS
  BY DEF Slot, Block
<1>. QED  BY <1>1, <1>2, DivMod, SizeAssumption

LEMMA BlockNat == \A fd \in AllFd : Block(fd) \in Nat
  BY FdAssumption, SizeAssumption DEF AllFd, Block

LEMMA EventTyping ==
    ASSUME NEW e \in NtyEvent, NEW fd \in AllFd, NEW cb \in Callback, NEW evs \in SUBSET Events
    PROVE  /\ EventSet(e, fd, cb) \in NtyEvent
           /\ EventAdd(e, evs) \in NtyEvent
           /\ EventDel(e) \in NtyEvent
  BY DEF NtyEvent, EventSet, EventAdd, EventDel

LEMMA MirrorsAll == PollMirrorsBlocks <=> \A fd \in AllFd : Mirrors(fd)
  BY DEF PollMirrorsBlocks, Mirrors

-----------------------------------------------------------------------------
\* The descriptor of an event, as the run loop reads it from the control block.
LEMMA EventFd ==
    ASSUME CoreInv, NEW b \in batch
    PROVE  LET fd == ev[b.ptr].fd IN
           /\ fd \in AllFd /\ EventOf(b, fd) /\ interest[fd] # {} /\ Mirrors(fd)
           /\ interest[fd] = ev[b.ptr].events
           /\ ev[b.ptr].callback = "accept_cb" => fd = ListenFd
           /\ ev[b.ptr].callback \in {"recv_cb", "send_cb"} =>
                 /\ fd \in Fd /\ fdtab[fd] \in Conn
                 /\ stage[fdtab[fd]] = "accepted"
           /\ ev[b.ptr].callback = "recv_cb" => interest[fd] = {"IN"}
           /\ ev[b.ptr].callback = "send_cb" => interest[fd] = {"OUT"}
<1>1. PICK fd \in AllFd : EventOf(b, fd)
  BY DEF CoreInv, BatchInv
<1>2. interest[fd] # {} /\ Mirrors(fd)
  BY <1>1, MirrorsAll DEF EventOf, CoreInv
<1>3. ev[b.ptr].fd = fd
  BY <1>1, <1>2 DEF EventOf, Mirrors
<1>4. fd \in Fd => fdtab[fd] \in Conn /\ stage[fdtab[fd]] = "accepted"
  BY <1>2 DEF Mirrors, CoreInv, CoreTypeOK, OneFdPerConn
<1>5. ev[b.ptr] = ev[Slot(fd)]
  BY <1>1 DEF EventOf
<1>6. <<ev[b.ptr].callback, ev[b.ptr].events>> \in
          IF fd = ListenFd THEN {<<"accept_cb", {"IN"}>>}
          ELSE {<<"recv_cb", {"IN"}>>, <<"send_cb", {"OUT"}>>}
  BY <1>2, <1>5 DEF Mirrors
<1>7. interest[fd] = ev[b.ptr].events
  BY <1>2, <1>5 DEF Mirrors
<1>. QED
  BY <1>1, <1>2, <1>3, <1>4, <1>6, <1>7 DEF AllFd

\* The invariant says what NoStaleDispatch and the mirror promise.
LEMMA CoreInvImplies == CoreInv => NoStaleDispatch
<1>. SUFFICES ASSUME CoreInv, NEW b \in batch
              PROVE  Wanted(b) /\ Owner(ev[b.ptr].fd) = b.conn
  BY DEF NoStaleDispatch
<1>. QED  BY EventFd DEF EventOf, Wanted

LEMMA CoreInitInv == CoreInit => CoreInv
<1>. SUFFICES ASSUME CoreInit PROVE CoreInv
  OBVIOUS
<1>1. CoreTypeOK
  <2>1. ZeroBlock \in NtyEvent
    BY DEF ZeroBlock, NtyEvent, Callback
  <2>2. ev \in [Slots -> NtyEvent]
    BY <2>1, EventTyping DEF CoreInit, AllFd, Callback, Events
  <2>3. blkcnt \in Nat \ {0}
    BY BlockNat DEF CoreInit, AllFd, Grown, Max2
  <2>4. /\ fdtab \in [Fd -> Conn \cup {NoConn}]
        /\ interest \in [AllFd -> SUBSET Events]
        /\ backlog \in Seq(Conn)
        /\ batch \subseteq BatchEvent
        /\ alive \in BOOLEAN
    BY DEF CoreInit, Events
  <2>5. /\ stage \in [Conn -> Stages]
        /\ peer \in [Conn -> PeerStates]
        /\ inflight \in [Conn -> 0..SndBuf]
    BY SocketAssumption DEF CoreInit, Stages, PeerStates
  <2>. QED  BY <2>2, <2>3, <2>4, <2>5 DEF CoreTypeOK
<1>2. ASSUME NEW fd \in AllFd PROVE Mirrors(fd)
  <2>1. CASE fd = ListenFd
    <3>1. Slot(fd) \in Slots
      BY DEF Slots
    <3>2. ev[Slot(fd)] = EventAdd(EventSet(ZeroBlock, ListenFd, "accept_cb"), {"IN"})
      BY <2>1, <3>1 DEF CoreInit
    <3>3. ev[Slot(fd)] = [fd |-> ListenFd, events |-> {"IN"}, callback |-> "accept_cb", status |-> 1]
      BY <3>2 DEF EventAdd, EventSet, ZeroBlock
    <3>4. Block(fd) < blkcnt
      BY <2>1, BlockNat DEF CoreInit, Grown, Max2, AllFd
    <3>5. interest[fd] = {"IN"} /\ fd \notin Fd
      BY <2>1, FdAssumption DEF CoreInit
    <3>. QED
      BY <2>1, <3>3, <3>4, <3>5 DEF Mirrors
  <2>2. CASE fd # ListenFd
    <3>1. Slot(fd) \in Slots /\ Slot(fd) # Slot(ListenFd)
      BY <2>2, SlotInjective DEF Slots, AllFd
    <3>. QED
      BY <2>2, <3>1 DEF CoreInit, Mirrors, ZeroBlock
  <2>. QED  BY <2>1, <2>2
<1>3. OneFdPerConn
  BY ConnAssumption DEF CoreInit, OneFdPerConn
<1>4. BatchInv /\ BacklogInv
  BY DEF CoreInit, BatchInv, BacklogInv
<1>. QED  BY <1>1, <1>2, <1>3, <1>4, MirrorsAll DEF CoreInv

-----------------------------------------------------------------------------
(* What a callback does to the rest of the reactor *)

\* Nothing of the batch that is left is about fd.
DoneWith(fd) == \A a \in batch' : a \in batch /\ a.ptr # Slot(fd)

\* Everything that is not the callback's own descriptor stays as it was.
OwnFdOnly(fd) ==
    /\ DoneWith(fd)
    /\ \A g \in AllFd \ {fd} : ev'[Slot(g)] = ev[Slot(g)] /\ interest'[g] = interest[g]
    /\ \A g \in Fd \ {fd} :
          /\ fdtab'[g] = fdtab[g]
          /\ fdtab[g] \in Conn => (Writable(fdtab[g]) => Writable(fdtab[g])')
    /\ blkcnt' = blkcnt /\ backlog' = backlog

LEMMA OwnFdOnlyKeeps ==
    ASSUME CoreInv, NEW fd \in Fd, OwnFdOnly(fd), Mirrors(fd)'
    PROVE  PollMirrorsBlocks' /\ BatchInv'
<1>1. ASSUME NEW g \in AllFd PROVE Mirrors(g)'
  <2>1. CASE g = fd
    BY <2>1
  <2>2. CASE g # fd
    <3>1. Mirrors(g)
      BY MirrorsAll DEF CoreInv
    <3>. QED  BY <2>2, <3>1 DEF OwnFdOnly, DoneWith, Mirrors
  <2>. QED  BY <2>1, <2>2
<1>2. PollMirrorsBlocks'
  BY <1>1 DEF PollMirrorsBlocks, Mirrors
<1>3. ASSUME NEW a \in batch' PROVE \E g \in AllFd : EventOf(a, g)'
  <2>1. a \in batch /\ a.ptr # Slot(fd)
    BY DEF OwnFdOnly, DoneWith
  <2>2. PICK g \in AllFd : EventOf(a, g)
    BY <2>1 DEF CoreInv, BatchInv
  <2>3. g # fd
    BY <2>1, <2>2 DEF EventOf
  <2>4. Owner(g)' = Owner(g) /\ interest'[g] = interest[g]
    BY <2>3 DEF OwnFdOnly, DoneWith, Owner, AllFd
  <2>5. ASSUME "OUT" \in a.events, g \in Fd PROVE Writable(fdtab[g])'
    <3>1. interest[g] # {} /\ Writable(fdtab[g])
      BY <2>2, <2>5 DEF EventOf
    <3>2. fdtab[g] # NoConn
      BY <3>1, <2>5, MirrorsAll DEF CoreInv, Mirrors
    <3>3. fdtab[g] \in Conn
      BY <2>5, <3>2 DEF CoreInv, CoreTypeOK
    <3>. QED  BY <2>3, <2>5, <3>1, <3>3 DEF OwnFdOnly
  <2>. QED  BY <2>2, <2>4, <2>5 DEF EventOf, OwnFdOnly
<1>4. BatchInv'
  BY <1>3 DEF BatchInv, CoreInv, OwnFdOnly, DoneWith
<1>. QED  BY <1>2, <1>4

\* Removing an event from the batch leaves the batch a set of events.
LEMMA ControlBlockTyping ==
    ASSUME CoreInv, NEW fd \in AllFd, NEW e \in NtyEvent
    PROVE  /\ [ev EXCEPT ![Slot(fd)] = e] \in [Slots -> NtyEvent]
           /\ Slot(fd) \in Slots /\ ev[Slot(fd)] \in NtyEvent
           /\ [ev EXCEPT ![Slot(fd)] = e][Slot(fd)] = e
           /\ \A g \in AllFd \ {fd} : [ev EXCEPT ![Slot(fd)] = e][Slot(g)] = ev[Slot(g)]
<1>1. \A g \in AllFd : Slot(g) \in Slots
  BY DEF Slots
<1>2. \A g \in AllFd \ {fd} : Slot(g) # Slot(fd)
  BY SlotInjective
<1>. QED  BY <1>1, <1>2 DEF CoreInv, CoreTypeOK

\* What the callbacks may do to the sockets without breaking the reactor.
SocketStep(fd) ==
    /\ peer' \in [Conn -> PeerStates] /\ inflight' \in [Conn -> 0..SndBuf]
    /\ \A c \in Conn : c # fdtab[fd] => peer'[c] = peer[c] /\ inflight'[c] = inflight[c]

LEMMA WritableKept ==
    ASSUME CoreInv, NEW fd \in Fd, fdtab[fd] \in Conn, SocketStep(fd),
           NEW g \in Fd \ {fd}, fdtab'[g] = fdtab[g], fdtab[g] \in Conn, Writable(fdtab[g])
    PROVE  Writable(fdtab[g])'
<1>1. fdtab[g] # fdtab[fd]
  BY ConnAssumption DEF CoreInv, OneFdPerConn
<1>. QED  BY <1>1 DEF SocketStep, Writable, Gone

Turns == {<<"recv_cb", {"IN"}>>, <<"send_cb", {"OUT"}>>}

\* No second event of the batch is about the descriptor of the first.
LEMMA LastOfBatch ==
    ASSUME CoreInv, NEW b \in batch, NEW fd \in Fd, EventOf(b, fd), batch' = batch \ {b}
    PROVE  DoneWith(fd)
  BY DEF CoreInv, BatchInv, EventOf, DoneWith

\* A watched descriptor without an event in the batch is turned around.
LEMMA RearmInPlace ==
    ASSUME CoreInv, NEW cb, NEW evs, <<cb, evs>> \in Turns,
           NEW fd \in Fd, fdtab[fd] \in Conn, interest[fd] # {}, DoneWith(fd),
           Rearm(fd, cb, evs), SocketStep(fd),
           UNCHANGED <<fdtab, backlog, stage, blkcnt, alive>>
    PROVE  CoreInv'
<1>. DEFINE e1 == ev[Slot(fd)]
            e2 == EventAdd(EventSet(EventDel(e1), fd, cb), evs)
<1>1. fd \in AllFd /\ Mirrors(fd)
  BY MirrorsAll DEF CoreInv, AllFd
<1>2. cb \in Callback /\ evs \in SUBSET Events /\ evs # {}
  BY DEF Callback, Events, Turns
<1>3. e1 \in NtyEvent
  BY <1>1 DEF CoreInv, CoreTypeOK, Slots
<1>4. e2 \in NtyEvent
  BY <1>1, <1>2, <1>3, EventTyping
<1>5. ev' = [ev EXCEPT ![Slot(fd)] = e2]
  BY DEF Rearm
<1>6. ev' \in [Slots -> NtyEvent] /\ ev'[Slot(fd)] = e2
      /\ \A g \in AllFd \ {fd} : ev'[Slot(g)] = ev[Slot(g)]
  BY <1>1, <1>4, <1>5, ControlBlockTyping
<1>7. e1.status = 1 /\ e1.fd = fd
  BY <1>1 DEF Mirrors
<1>8. interest' = [interest EXCEPT ![fd] = evs]
  <2>1. EpollDel(interest, e1) = [interest EXCEPT ![fd] = {}]
    BY <1>7 DEF EpollDel
  <2>2. EventSet(EventDel(e1), fd, cb).status = 0 /\ EventSet(EventDel(e1), fd, cb).fd = fd
    BY <1>3 DEF EventSet, EventDel, NtyEvent
  <2>3. interest \in [AllFd -> SUBSET Events]
    BY DEF CoreInv, CoreTypeOK
  <2>4. interest' = EpollAdd(EpollDel(interest, e1), EventSet(EventDel(e1), fd, cb), evs)
    BY DEF Rearm
  <2>5. /\ [interest EXCEPT ![fd] = {}][fd] = {}
        /\ [[interest EXCEPT ![fd] = {}] EXCEPT ![fd] = evs] = [interest EXCEPT ![fd] = evs]
    BY <1>1, <2>3
  <2>6. ASSUME NEW e, e.status = 0, e.fd = fd
        PROVE  EpollAdd([interest EXCEPT ![fd] = {}], e, evs) = [interest EXCEPT ![fd] = evs]
    BY <2>5, <2>6 DEF EpollAdd
  <2>. QED  BY <2>1, <2>2, <2>4, <2>6, Zenon
<1>9. Mirrors(fd)'
  <2>1. e2.fd = fd /\ e2.events = evs /\ e2.callback = cb /\ e2.status = 1
    BY <1>3 DEF EventAdd, EventSet, EventDel, NtyEvent
  <2>2. interest'[fd] = evs /\ fd # ListenFd
    BY <1>1, <1>8, FdAssumption DEF CoreInv, CoreTypeOK
  <2>3. Block(fd) < blkcnt' /\ fdtab'[fd] # NoConn
    BY <1>1, ConnAssumption DEF Mirrors
  <2>4. <<cb, evs>> \in {<<"recv_cb", {"IN"}>>, <<"send_cb", {"OUT"}>>}
    BY DEF Turns
  <2>. QED  BY <1>2, <1>6, <2>1, <2>2, <2>3, <2>4 DEF Mirrors
<1>10. OwnFdOnly(fd)
  BY <1>1, <1>6, <1>8, WritableKept DEF OwnFdOnly, DoneWith, CoreInv, CoreTypeOK
<1>11. PollMirrorsBlocks' /\ BatchInv'
  BY <1>1, <1>9, <1>10, OwnFdOnlyKeeps
<1>12. CoreTypeOK'
  <2>1. interest' \in [AllFd -> SUBSET Events] /\ batch' \subseteq batch
    BY <1>2, <1>8 DEF CoreInv, CoreTypeOK, DoneWith
  <2>2. peer' \in [Conn -> PeerStates] /\ inflight' \in [Conn -> 0..SndBuf]
    BY DEF SocketStep
  <2>. QED  BY <1>6, <2>1, <2>2 DEF CoreInv, CoreTypeOK
<1>. QED
  BY <1>11, <1>12 DEF CoreInv, OneFdPerConn, BacklogInv

LEMMA RearmKeeps ==
    ASSUME CoreInv, NEW b \in batch, ev[b.ptr].callback \in {"recv_cb", "send_cb"},
           batch' = batch \ {b},
           NEW cb, NEW evs, <<cb, evs>> \in {<<"recv_cb", {"IN"}>>, <<"send_cb", {"OUT"}>>},
           NEW fd \in Fd, fd = ev[b.ptr].fd, Rearm(fd, cb, evs), SocketStep(fd),
           UNCHANGED <<fdtab, backlog, stage, blkcnt, alive>>
    PROVE  CoreInv'
<1>1. fdtab[fd] \in Conn /\ EventOf(b, fd) /\ interest[fd] # {}
  BY EventFd
<1>2. DoneWith(fd) /\ <<cb, evs>> \in Turns
  BY <1>1, LastOfBatch DEF Turns
<1>. QED  BY <1>1, <1>2, RearmInPlace

LEMMA DelAndCloseKeeps ==
    ASSUME CoreInv, NEW b \in batch, ev[b.ptr].callback \in {"recv_cb", "send_cb"},
           batch' = batch \ {b},
           NEW fd \in Fd, fd = ev[b.ptr].fd, DelAndClose(fd),
           UNCHANGED <<backlog, peer, inflight, blkcnt, alive>>
    PROVE  CoreInv'
<1>. DEFINE c == fdtab[fd]
<1>1. /\ fd \in AllFd /\ c \in Conn /\ stage[c] = "accepted" /\ EventOf(b, fd) /\ interest[fd] # {}
      /\ Mirrors(fd)
  BY EventFd
<1>2. ev[Slot(fd)] \in NtyEvent /\ EventDel(ev[Slot(fd)]) \in NtyEvent
  <2>1. ev[Slot(fd)] \in NtyEvent
    BY <1>1 DEF CoreInv, CoreTypeOK, Slots
  <2>. QED  BY <2>1 DEF EventDel, NtyEvent
<1>3. ev' = [ev EXCEPT ![Slot(fd)] = EventDel(ev[Slot(fd)])]
  BY DEF DelAndClose
<1>4. ev' \in [Slots -> NtyEvent] /\ ev'[Slot(fd)] = EventDel(ev[Slot(fd)])
      /\ \A g \in AllFd \ {fd} : ev'[Slot(g)] = ev[Slot(g)]
  BY <1>1, <1>2, <1>3, ControlBlockTyping
<1>5. interest' = [interest EXCEPT ![fd] = {}]
  <2>1. EpollDel(interest, ev[Slot(fd)]) = [interest EXCEPT ![fd] = {}]
    BY <1>1 DEF EpollDel, Mirrors
  <2>2. interest' = [[interest EXCEPT ![fd] = {}] EXCEPT ![fd] = {}]
    BY <2>1 DEF DelAndClose
  <2>3. interest \in [AllFd -> SUBSET Events]
    BY DEF CoreInv, CoreTypeOK
  <2>. QED  BY <1>1, <2>2, <2>3
<1>6. Mirrors(fd)'
  <2>1. ev'[Slot(fd)].status = 0
    BY <1>2, <1>4 DEF EventDel, NtyEvent
  <2>2. interest'[fd] = {}
    BY <1>1, <1>5 DEF CoreInv, CoreTypeOK
  <2>. QED  BY <2>1, <2>2 DEF Mirrors
<1>7. /\ fdtab' = [fdtab EXCEPT ![fd] = NoConn]
      /\ stage' = [stage EXCEPT ![c] = "closed"]
  BY DEF DelAndClose
<1>8. OwnFdOnly(fd)
  BY <1>1, <1>4, <1>5, <1>7, LastOfBatch DEF OwnFdOnly, DoneWith, Writable, Gone, CoreInv, CoreTypeOK
<1>9. PollMirrorsBlocks' /\ BatchInv'
  BY <1>1, <1>6, <1>8, OwnFdOnlyKeeps
<1>10. CoreTypeOK'
  BY <1>1, <1>4, <1>5, <1>7 DEF CoreInv, CoreTypeOK, Stages
<1>11. OneFdPerConn'
  <2>1. ASSUME NEW f \in Fd, NEW g \in Fd, fdtab'[f] = fdtab'[g], fdtab'[f] # NoConn PROVE f = g
    BY <1>7, <2>1 DEF CoreInv, CoreTypeOK, OneFdPerConn
  <2>2. ASSUME NEW d \in Conn PROVE stage'[d] = "accepted" <=> \E g \in Fd : fdtab'[g] = d
    <3>1. CASE d = c
      <4>1. stage'[d] = "closed"
        BY <1>1, <1>7, <3>1 DEF CoreInv, CoreTypeOK
      <4>2. \A g \in Fd : fdtab'[g] # d
        BY <1>1, <1>7, <3>1, ConnAssumption DEF CoreInv, CoreTypeOK, OneFdPerConn
      <4>. QED  BY <4>1, <4>2
    <3>2. CASE d # c
      <4>1. stage'[d] = stage[d]
        BY <1>7, <3>2 DEF CoreInv, CoreTypeOK
      <4>2. \A g \in Fd : fdtab'[g] = d <=> fdtab[g] = d
        BY <1>7, <3>2, ConnAssumption DEF CoreInv, CoreTypeOK
      <4>. QED  BY <4>1, <4>2 DEF CoreInv, OneFdPerConn
    <3>. QED  BY <3>1, <3>2
  <2>. QED  BY <2>1, <2>2 DEF OneFdPerConn
<1>12. BacklogInv'
  BY <1>1, <1>7 DEF CoreInv, CoreTypeOK, BacklogInv
<1>. QED  BY <1>9, <1>10, <1>11, <1>12 DEF CoreInv

LEMMA DelOnlyKeeps ==
    ASSUME CoreInv, NEW b \in batch, ev[b.ptr].callback \in {"recv_cb", "send_cb"},
           batch' = batch \ {b},
           NEW fd \in Fd, fd = ev[b.ptr].fd, DelOnly(fd),
           UNCHANGED <<backlog, peer, inflight, blkcnt, alive>>
    PROVE  CoreInv'
<1>1. fd \in AllFd /\ EventOf(b, fd) /\ interest[fd] # {} /\ Mirrors(fd)
  BY EventFd
<1>2. ev[Slot(fd)] \in NtyEvent /\ EventDel(ev[Slot(fd)]) \in NtyEvent
  <2>1. ev[Slot(fd)] \in NtyEvent
    BY <1>1 DEF CoreInv, CoreTypeOK, Slots
  <2>. QED  BY <2>1 DEF EventDel, NtyEvent
<1>3. ev' = [ev EXCEPT ![Slot(fd)] = EventDel(ev[Slot(fd)])]
  BY DEF DelOnly
<1>4. ev' \in [Slots -> NtyEvent] /\ ev'[Slot(fd)] = EventDel(ev[Slot(fd)])
      /\ \A g \in AllFd \ {fd} : ev'[Slot(g)] = ev[Slot(g)]
  BY <1>1, <1>2, <1>3, ControlBlockTyping
<1>5. interest' = [interest EXCEPT ![fd] = {}]
  BY <1>1 DEF DelOnly, EpollDel, Mirrors
<1>6. Mirrors(fd)'
  <2>1. ev'[Slot(fd)].status = 0
    BY <1>2, <1>4 DEF EventDel, NtyEvent
  <2>2. interest'[fd] = {}
    BY <1>1, <1>5 DEF CoreInv, CoreTypeOK
  <2>. QED  BY <2>1, <2>2 DEF Mirrors
<1>7. fdtab' = fdtab /\ stage' = stage
  BY DEF DelOnly
<1>8. OwnFdOnly(fd)
  BY <1>1, <1>4, <1>5, <1>7, LastOfBatch DEF OwnFdOnly, DoneWith, Writable, Gone, CoreInv, CoreTypeOK
<1>9. PollMirrorsBlocks' /\ BatchInv'
  BY <1>1, <1>6, <1>8, OwnFdOnlyKeeps
<1>10. CoreTypeOK'
  BY <1>4, <1>5, <1>7 DEF CoreInv, CoreTypeOK
<1>. QED
  BY <1>7, <1>9, <1>10 DEF CoreInv, OneFdPerConn, BacklogInv

\* SIGPIPE changes nothing but alive and the batch.
LEMMA DispatchOnlyKeeps ==
    ASSUME CoreInv, NEW b \in batch, batch' = batch \ {b}, alive' \in BOOLEAN,
           UNCHANGED <<fdtab, interest, backlog, stage, peer, inflight, ev, blkcnt>>
    PROVE  CoreInv'
<1>1. CoreTypeOK' /\ PollMirrorsBlocks' /\ OneFdPerConn' /\ BacklogInv'
  BY DEF CoreInv, CoreTypeOK, PollMirrorsBlocks, OneFdPerConn, BacklogInv
<1>2. BatchInv'
  BY DEF CoreInv, BatchInv, EventOf, Owner, Writable, Gone
<1>. QED  BY <1>1, <1>2 DEF CoreInv

LEMMA StutterKeeps ==
    ASSUME CoreInv, UNCHANGED coreVars
    PROVE  CoreInv'
<1>1. UNCHANGED <<fdtab, interest, backlog, stage, peer, inflight, ev, blkcnt, batch, alive>>
  BY DEF coreVars, kernelVars, reactorVars
<1>2. CoreTypeOK' /\ PollMirrorsBlocks' /\ OneFdPerConn' /\ BacklogInv'
  BY <1>1 DEF CoreInv, CoreTypeOK, PollMirrorsBlocks, OneFdPerConn, BacklogInv
<1>3. BatchInv'
  BY <1>1 DEF CoreInv, BatchInv, EventOf, Owner, Writable, Gone
<1>. QED  BY <1>2, <1>3 DEF CoreInv

\* What recv() leaves in the socket was in it.
LEMMA TailOf ==
    ASSUME NEW S, NEW s \in Seq(S), NEW n \in 1..Len(s)
    PROVE  /\ SubSeq(s, n + 1, Len(s)) \in Seq(S)
           /\ \A i \in 1..Len(SubSeq(s, n + 1, Len(s))) :
                 \E j \in 1..Len(s) : SubSeq(s, n + 1, Len(s))[i] = s[j]
<1>1. Len(SubSeq(s, n + 1, Len(s))) = Len(s) - n /\ SubSeq(s, n + 1, Len(s)) \in Seq(S)
  OBVIOUS
<1>2. ASSUME NEW i \in 1..Len(SubSeq(s, n + 1, Len(s)))
      PROVE  SubSeq(s, n + 1, Len(s))[i] = s[n + i] /\ n + i \in 1..Len(s)
  BY <1>1
<1>. QED  BY <1>1, <1>2

\* recv() takes something, and no more than there is.
LEMMA ReadRange ==
    ASSUME NEW l \in Nat, NEW n, n = Min2(l, BUFFER_LENGTH), n > 0
    PROVE  n \in 1..l
  BY SizeAssumption DEF Min2

-----------------------------------------------------------------------------
(* Steps of clients, of epoll_wait and of accept_cb *)

\* A step of a client that leaves the descriptors alone; a descriptor that is
\* writable stays so.
LEMMA ClientKeeps ==
    ASSUME CoreInv,
           UNCHANGED <<fdtab, interest, ev, blkcnt, batch, alive>>,
           peer' \in [Conn -> PeerStates], inflight' \in [Conn -> 0..SndBuf],
           \A c \in Conn : Writable(c) => Writable(c)',
           backlog # <<>> => backlog' # <<>>,
           stage' \in [Conn -> Stages], backlog' \in Seq(Conn), BacklogInv',
           \A c \in Conn : stage'[c] = "accepted" <=> stage[c] = "accepted"
    PROVE  CoreInv'
<1>1. CoreTypeOK'
  BY DEF CoreInv, CoreTypeOK
<1>2. PollMirrorsBlocks' /\ OneFdPerConn'
  BY DEF CoreInv, PollMirrorsBlocks, OneFdPerConn
<1>3. ASSUME NEW b \in batch, NEW fd \in AllFd, EventOf(b, fd) PROVE EventOf(b, fd)'
  <2>1. ASSUME "OUT" \in b.events, fd \in Fd PROVE Writable(fdtab[fd])'
    <3>1. interest[fd] # {} /\ Writable(fdtab[fd])
      BY <1>3, <2>1 DEF EventOf
    <3>2. fdtab[fd] # NoConn
      BY <2>1, <3>1, MirrorsAll DEF CoreInv, Mirrors
    <3>3. fdtab[fd] \in Conn
      BY <2>1, <3>2 DEF CoreInv, CoreTypeOK
    <3>. QED  BY <3>1, <3>3
  <2>. QED  BY <1>3, <2>1 DEF EventOf, Owner
<1>4. BatchInv'
  BY <1>3 DEF CoreInv, BatchInv
<1>. QED  BY <1>1, <1>2, <1>4 DEF CoreInv

LEMMA ConnectKeeps ==
    ASSUME CoreInv, NEW c \in Conn, Connect(c)
    PROVE  CoreInv'
<1>1. /\ stage' = [stage EXCEPT ![c] = "queued"] /\ backlog' = Append(backlog, c)
      /\ backlog' # <<>> /\ stage[c] = "idle"
      /\ stage \in [Conn -> Stages] /\ backlog \in Seq(Conn)
  BY DEF Connect, CoreInv, CoreTypeOK
<1>2. stage' \in [Conn -> Stages] /\ backlog' \in Seq(Conn)
  BY <1>1 DEF Stages
<1>3. BacklogInv'
  <2>1. \A i \in 1..Len(backlog) : backlog[i] # c /\ stage'[backlog[i]] = "queued"
    BY <1>1 DEF CoreInv, BacklogInv
  <2>2. /\ Len(backlog') = Len(backlog) + 1 /\ Len(backlog) \in Nat
        /\ backlog'[Len(backlog) + 1] = c
        /\ \A i \in 1..Len(backlog) : backlog'[i] = backlog[i]
    BY <1>1
  <2>3. stage'[c] = "queued"
    BY <1>1
  <2>. QED  BY <2>1, <2>2, <2>3 DEF CoreInv, BacklogInv
<1>4. \A d \in Conn : Writable(d) => Writable(d)'
  BY DEF Connect, Writable, Gone
<1>5. \A d \in Conn : stage'[d] = "accepted" <=> stage[d] = "accepted"
  BY <1>1
<1>. QED
  BY <1>2, <1>3, <1>4, <1>5, ClientKeeps DEF Connect, CoreInv, CoreTypeOK, reactorVars

LEMMA SocketStepsKeep ==
    ASSUME CoreInv, NEW c \in Conn,
           \/ \E bytes : Arrive(c, bytes)
           \/ ClientFin(c) \/ ClientReset(c) \/ ClientPipe(c) \/ PeerTimeout(c) \/ ClientRead(c)
    PROVE  CoreInv'
<1>1. UNCHANGED <<fdtab, interest, ev, blkcnt, batch, alive, stage, backlog>>
  BY DEF Arrive, ClientFin, ClientReset, ClientPipe, PeerTimeout, Lose, ClientRead, reactorVars
<1>2. peer \in [Conn -> PeerStates] /\ inflight \in [Conn -> 0..SndBuf]
  BY DEF CoreInv, CoreTypeOK
<1>3. peer' \in [Conn -> PeerStates] /\ inflight' \in [Conn -> 0..SndBuf]
  BY <1>2, SocketAssumption
  DEF Arrive, ClientFin, ClientReset, ClientPipe, PeerTimeout, Lose, ClientRead, PeerStates
<1>4. ASSUME NEW d \in Conn, Writable(d) PROVE Writable(d)'
  <2>1. inflight'[d] <= inflight[d] /\ (Gone(d) => Gone(d)')
    BY <1>2, SocketAssumption
    DEF Arrive, ClientFin, ClientReset, ClientPipe, PeerTimeout, Lose, ClientRead, Gone
  <2>2. inflight'[d] \in Int /\ inflight[d] \in Int /\ SndBuf \in Int /\ SndLowWat \in Int
    BY <1>2, <1>3, SocketAssumption
  <2>. QED  BY <1>4, <2>1, <2>2 DEF Writable
<1>5. BacklogInv'
  BY <1>1 DEF CoreInv, BacklogInv
<1>. QED
  BY <1>1, <1>3, <1>4, <1>5, ClientKeeps DEF CoreInv, CoreTypeOK

LEMMA EpollWaitKeeps ==
    ASSUME CoreInv, EpollWait
    PROVE  CoreInv'
<1>1. UNCHANGED <<fdtab, interest, backlog, stage, peer, rx, inflight, ev, blkcnt, alive>>
  BY DEF EpollWait, kernelVars
<1>2. PICK fds \in SUBSET {fd \in AllFd : Ready(fd) # {} \/ Spurious(fd)} :
          batch' = {[ptr |-> Slot(fd), events |-> Reported(fd), conn |-> Owner(fd)] : fd \in fds}
  BY DEF EpollWait
<1>3. ASSUME NEW fd \in fds
      PROVE  LET b == [ptr |-> Slot(fd), events |-> Reported(fd), conn |-> Owner(fd)]
             IN  EventOf(b, fd) /\ b \in BatchEvent
  <2>1. fd \in AllFd /\ (Ready(fd) # {} \/ Spurious(fd))
    BY <1>2
  <2>2. Reported(fd) # {} /\ Reported(fd) \subseteq interest[fd]
    BY <2>1 DEF Reported, Ready, Spurious
  <2>3. "OUT" \in Reported(fd) /\ fd \in Fd => Writable(fdtab[fd])
    BY <2>1, FdAssumption DEF Reported, Ready, Readiness, Spurious
  <2>4. interest[fd] \in SUBSET Events /\ Owner(fd) \in Conn \cup {NoConn} /\ Slot(fd) \in Slots
    BY <2>1 DEF CoreInv, CoreTypeOK, Owner, AllFd, Slots
  <2>5. fd = ListenFd => backlog # <<>>
    BY <2>1, FdAssumption DEF Ready, Readiness, Spurious
  <2>. QED  BY <2>2, <2>3, <2>4, <2>5 DEF EventOf, BatchEvent
<1>4. CoreTypeOK'
  BY <1>1, <1>2, <1>3 DEF CoreInv, CoreTypeOK
<1>5. PollMirrorsBlocks' /\ OneFdPerConn' /\ BacklogInv'
  BY <1>1 DEF CoreInv, PollMirrorsBlocks, OneFdPerConn, BacklogInv
<1>6. BatchInv'
  <2>1. \A b \in batch' : \E fd \in fds : EventOf(b, fd)
    BY <1>2, <1>3
  <2>2. \A b \in batch' : \E fd \in AllFd : EventOf(b, fd)'
    BY <1>1, <1>2, <2>1 DEF EventOf, Owner, Writable, Gone
  <2>3. ASSUME NEW a \in batch', NEW b \in batch', a.ptr = b.ptr PROVE a = b
    BY <1>2, <2>3, SlotInjective
  <2>. QED  BY <2>2, <2>3 DEF BatchInv
<1>. QED  BY <1>4, <1>5, <1>6 DEF CoreInv

\* A descriptor that no connection is open on is not registered, so its control
\* block has status 0 and nty_event_add registers it with EPOLL_CTL_ADD.
LEMMA FreeFdIsUnwatched ==
    ASSUME CoreInv, NEW fd \in Fd, fdtab[fd] = NoConn
    PROVE  /\ interest[fd] = {} /\ ev[Slot(fd)] \in NtyEvent /\ ev[Slot(fd)].status # 1
           /\ fd \in AllFd /\ \A b \in batch : ~EventOf(b, fd)
<1>1. fd \in AllFd
  BY DEF AllFd
<1>2. Mirrors(fd)
  BY <1>1, MirrorsAll DEF CoreInv
<1>3. ev[Slot(fd)] \in NtyEvent
  BY <1>1 DEF CoreInv, CoreTypeOK, Slots
<1>. QED  BY <1>1, <1>2, <1>3 DEF Mirrors, EventOf

\* accept() moves the head of the backlog to the lowest free descriptor.
LEMMA AcceptingKeeps ==
    ASSUME CoreInv, backlog # <<>>, NEW fd \in Fd, Accepting(fd)
    PROVE  /\ OneFdPerConn' /\ BacklogInv' /\ Head(backlog) \in Conn
           /\ stage[Head(backlog)] = "queued"
           /\ fdtab' \in [Fd -> Conn \cup {NoConn}] /\ fdtab[fd] = NoConn
           /\ fdtab' = [fdtab EXCEPT ![fd] = Head(backlog)]
           /\ stage' \in [Conn -> Stages] /\ backlog' \in Seq(Conn)
<1>. DEFINE c == Head(backlog)
<1>1. backlog \in Seq(Conn) /\ fdtab \in [Fd -> Conn \cup {NoConn}] /\ stage \in [Conn -> Stages]
  BY DEF CoreInv, CoreTypeOK
<1>2. /\ c \in Conn /\ c = backlog[1] /\ Len(backlog) \in Nat \ {0}
      /\ Tail(backlog) \in Seq(Conn) /\ Len(Tail(backlog)) = Len(backlog) - 1
      /\ \A i \in 1..Len(Tail(backlog)) : Tail(backlog)[i] = backlog[i + 1]
  BY <1>1
<1>3. stage[c] = "queued"
  BY <1>2 DEF CoreInv, BacklogInv
<1>4. /\ fdtab[fd] = NoConn /\ fdtab' = [fdtab EXCEPT ![fd] = c]
      /\ stage' = [stage EXCEPT ![c] = "accepted"] /\ backlog' = Tail(backlog)
  BY DEF Accepting, FreeFd
<1>5. fdtab' \in [Fd -> Conn \cup {NoConn}] /\ stage' \in [Conn -> Stages] /\ backlog' \in Seq(Conn)
  BY <1>1, <1>2, <1>4 DEF Stages
<1>6. BacklogInv'
  <2>1. ASSUME NEW i \in 1..Len(backlog') PROVE stage'[backlog'[i]] = "queued"
    <3>1. i + 1 \in 1..Len(backlog) /\ backlog'[i] = backlog[i + 1] /\ i + 1 # 1
      BY <1>2, <1>4
    <3>2. stage[backlog[i + 1]] = "queued" /\ backlog[i + 1] # c
      BY <1>2, <3>1 DEF CoreInv, BacklogInv
    <3>3. backlog[i + 1] \in Conn
      BY <1>1, <3>1
    <3>. QED  BY <1>1, <1>4, <3>1, <3>2, <3>3
  <2>2. ASSUME NEW i \in 1..Len(backlog'), NEW j \in 1..Len(backlog'), backlog'[i] = backlog'[j]
        PROVE  i = j
    <3>1. i + 1 \in 1..Len(backlog) /\ j + 1 \in 1..Len(backlog)
          /\ backlog[i + 1] = backlog[j + 1]
      BY <1>2, <1>4, <2>2
    <3>2. i + 1 = j + 1
      BY <3>1 DEF CoreInv, BacklogInv
    <3>. QED  BY <3>2
  <2>. QED  BY <2>1, <2>2 DEF BacklogInv
<1>7. OneFdPerConn'
  <2>1. \A g \in Fd : fdtab[g] # c
    BY <1>2, <1>3 DEF CoreInv, OneFdPerConn
  <2>2. \A g \in Fd : fdtab'[g] = IF g = fd THEN c ELSE fdtab[g]
    BY <1>1, <1>4
  <2>3. \A d \in Conn : stage'[d] = IF d = c THEN "accepted" ELSE stage[d]
    BY <1>1, <1>4
  <2>4. c # NoConn
    BY <1>2, ConnAssumption
  <2>5. ASSUME NEW f \in Fd, NEW g \in Fd, fdtab'[f] = fdtab'[g], fdtab'[f] # NoConn PROVE f = g
    BY <2>1, <2>2, <2>5 DEF CoreInv, OneFdPerConn
  <2>6. ASSUME NEW d \in Conn PROVE stage'[d] = "accepted" <=> \E g \in Fd : fdtab'[g] = d
    <3>1. CASE d = c
      BY <2>2, <2>3, <3>1
    <3>2. CASE d # c
      <4>1. (\E g \in Fd : fdtab'[g] = d) <=> (\E g \in Fd : fdtab[g] = d)
        BY <1>4, <2>2, <3>2, ConnAssumption
      <4>. QED  BY <2>3, <3>2, <4>1 DEF CoreInv, OneFdPerConn
    <3>. QED  BY <3>1, <3>2
  <2>. QED  BY <2>5, <2>6 DEF OneFdPerConn
<1>. QED  BY <1>2, <1>3, <1>4, <1>5, <1>6, <1>7

\* Events of other descriptors are not affected by the descriptor accept()
\* takes, because it was free.
LEMMA AcceptLeavesBatch ==
    ASSUME CoreInv, NEW b \in batch, EventOf(b, ListenFd), batch' = batch \ {b},
           NEW fd \in Fd, fdtab[fd] = NoConn,
           UNCHANGED <<peer, inflight>>,
           \A g \in AllFd \ {fd} : interest'[g] = interest[g],
           \A g \in Fd \ {fd} : fdtab'[g] = fdtab[g]
    PROVE  BatchInv'
<1>1. ASSUME NEW a \in batch' PROVE \E g \in AllFd : EventOf(a, g)'
  <2>1. PICK g \in AllFd : EventOf(a, g)
    BY DEF CoreInv, BatchInv
  <2>2. g # fd /\ g # ListenFd
    BY <2>1, FreeFdIsUnwatched DEF EventOf, CoreInv, BatchInv
  <2>. QED  BY <2>1, <2>2 DEF EventOf, Owner, Writable, Gone, AllFd
<1>. QED  BY <1>1 DEF CoreInv, BatchInv

LEMMA AcceptKeeps ==
    ASSUME CoreInv, NEW b \in batch, accept_cb(b)
    PROVE  CoreInv'
<1>1. batch' = batch \ {b} /\ EventOf(b, ListenFd) /\ backlog # <<>>
  <2>1. Dispatch(b, "accept_cb")
    BY DEF accept_cb, AcceptOk, AcceptForgets, AcceptFails
  <2>2. ev[b.ptr].fd = ListenFd /\ EventOf(b, ListenFd)
    BY <2>1, EventFd DEF Dispatch
  <2>. QED  BY <2>1, <2>2 DEF Dispatch, EventOf
<1>2. ASSUME AcceptOk(b) PROVE CoreInv'
  <2>1. PICK fd \in Fd :
          /\ Accepting(fd)
          /\ blkcnt' = Grown(blkcnt, fd)
          /\ ev' = [ev EXCEPT ![Slot(fd)] = EventAdd(EventSet(ev[Slot(fd)], fd, "recv_cb"), {"IN"})]
          /\ interest' = EpollAdd(interest, EventSet(ev[Slot(fd)], fd, "recv_cb"), {"IN"})
    BY <1>2 DEF AcceptOk
  <2>. DEFINE e1 == EventSet(ev[Slot(fd)], fd, "recv_cb")
              e2 == EventAdd(e1, {"IN"})
  <2>2. /\ OneFdPerConn' /\ BacklogInv' /\ fdtab[fd] = NoConn /\ Head(backlog) \in Conn
        /\ fdtab' = [fdtab EXCEPT ![fd] = Head(backlog)]
        /\ fdtab' \in [Fd -> Conn \cup {NoConn}]
        /\ stage' \in [Conn -> Stages] /\ backlog' \in Seq(Conn)
    BY <1>1, <2>1, AcceptingKeeps
  <2>3. /\ interest[fd] = {} /\ ev[Slot(fd)] \in NtyEvent /\ ev[Slot(fd)].status # 1
        /\ fd \in AllFd
    BY <2>2, FreeFdIsUnwatched
  <2>4. e1 \in NtyEvent /\ e2 \in NtyEvent
    BY <2>3, EventTyping DEF Callback, Events
  <2>5. /\ e1.fd = fd /\ e1.status # 1
        /\ e2.fd = fd /\ e2.status = 1 /\ e2.callback = "recv_cb" /\ e2.events = {"IN"}
    BY <2>3 DEF EventSet, EventAdd, NtyEvent
  <2>6. ev' \in [Slots -> NtyEvent] /\ ev'[Slot(fd)] = e2
        /\ \A g \in AllFd \ {fd} : ev'[Slot(g)] = ev[Slot(g)]
    BY <2>1, <2>3, <2>4, ControlBlockTyping
  <2>7. interest' = [interest EXCEPT ![fd] = {"IN"}]
    BY <2>1, <2>3, <2>5 DEF EpollAdd
  <2>8. interest' \in [AllFd -> SUBSET Events] /\ interest'[fd] = {"IN"}
        /\ \A g \in AllFd \ {fd} : interest'[g] = interest[g]
    BY <2>3, <2>7 DEF CoreInv, CoreTypeOK, Events
  <2>9. blkcnt' \in Nat \ {0} /\ blkcnt <= blkcnt' /\ Block(fd) < blkcnt' /\ blkcnt \in Nat
    BY <2>1, <2>3, BlockNat DEF CoreInv, CoreTypeOK, Grown, Max2
  <2>10. ASSUME NEW g \in AllFd PROVE Mirrors(g)'
    <3>1. CASE g = fd
      <4>1. fdtab'[fd] # NoConn /\ fd # ListenFd
        BY <2>2, ConnAssumption, FdAssumption DEF CoreInv, CoreTypeOK
      <4>. QED  BY <2>5, <2>6, <2>8, <2>9, <3>1, <4>1 DEF Mirrors
    <3>2. CASE g # fd
      <4>1. Mirrors(g) /\ Block(g) \in Nat
        BY MirrorsAll, BlockNat DEF CoreInv
      <4>2. g \in Fd => fdtab'[g] = fdtab[g]
        BY <2>2, <3>2 DEF CoreInv, CoreTypeOK
      <4>3. ev'[Slot(g)] = ev[Slot(g)] /\ interest'[g] = interest[g]
        BY <2>6, <2>8, <3>2
      <4>4. Block(g) < blkcnt => Block(g) < blkcnt'
        BY <2>9, <4>1
      <4>. QED  BY <4>1, <4>2, <4>3, <4>4 DEF Mirrors
    <3>. QED  BY <3>1, <3>2
  <2>11. PollMirrorsBlocks'
    BY <2>10 DEF PollMirrorsBlocks, Mirrors
  <2>12. UNCHANGED <<peer, inflight, alive>>
    BY <2>1 DEF Accepting
  <2>13. BatchInv'
    <3>1. \A g \in Fd \ {fd} : fdtab'[g] = fdtab[g]
      BY <2>2 DEF CoreInv, CoreTypeOK
    <3>. QED  BY <1>1, <2>2, <2>8, <2>12, <3>1, AcceptLeavesBatch
  <2>14. CoreTypeOK'
    BY <1>1, <2>2, <2>6, <2>8, <2>9, <2>12 DEF CoreInv, CoreTypeOK
  <2>. QED  BY <2>2, <2>11, <2>13, <2>14 DEF CoreInv
<1>3. ASSUME AcceptForgets(b) PROVE CoreInv'
  <2>1. PICK fd \in Fd : Accepting(fd)
    BY <1>3 DEF AcceptForgets
  <2>2. UNCHANGED <<ev, interest, blkcnt, peer, inflight, alive>>
    BY <1>3, <2>1 DEF AcceptForgets, Accepting
  <2>3. /\ OneFdPerConn' /\ BacklogInv' /\ fdtab[fd] = NoConn /\ Head(backlog) \in Conn
        /\ fdtab' = [fdtab EXCEPT ![fd] = Head(backlog)]
        /\ fdtab' \in [Fd -> Conn \cup {NoConn}]
        /\ stage' \in [Conn -> Stages] /\ backlog' \in Seq(Conn)
    BY <1>1, <2>1, AcceptingKeeps
  <2>4. \A g \in Fd : fdtab[g] # NoConn => fdtab'[g] # NoConn
    BY <2>3, ConnAssumption DEF CoreInv, CoreTypeOK
  <2>5. PollMirrorsBlocks'
    BY <2>2, <2>4 DEF CoreInv, PollMirrorsBlocks
  <2>6. BatchInv'
    <3>1. \A g \in Fd \ {fd} : fdtab'[g] = fdtab[g]
      BY <2>3 DEF CoreInv, CoreTypeOK
    <3>. QED  BY <1>1, <2>2, <2>3, <3>1, AcceptLeavesBatch
  <2>7. CoreTypeOK'
    BY <1>1, <2>2, <2>3 DEF CoreInv, CoreTypeOK
  <2>. QED  BY <2>3, <2>5, <2>6, <2>7 DEF CoreInv
<1>4. ASSUME AcceptFails(b) PROVE CoreInv'
  BY <1>1, <1>4, DispatchOnlyKeeps DEF AcceptFails, kernelVars, CoreInv, CoreTypeOK
<1>. QED  BY <1>2, <1>3, <1>4 DEF accept_cb
=============================================================================
