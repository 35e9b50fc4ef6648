------------------------------ MODULE HttpProofs ------------------------------
(***************************************************************************)
(* Theorems of the HTTP server, for any number of clients, descriptors and *)
(* files, files of any size, every edit, habit and fault.                  *)
(***************************************************************************)
EXTENDS HttpServer, ReactorProofs, SequenceTheorems, FiniteSetTheorems

\* What wbuffer holds: nothing, or the part that begins an answer.
HeadPart == {p \in Part : p.what \in {"header", "404"}}
Buffers  == {<<>>} \cup {<<p>> : p \in HeadPart}

HttpTypes ==
    /\ method \in [Slots -> {"GET", "POST"}]
    /\ resource \in [Slots -> File \cup {NoFile}]
    /\ wbuffer \in [Slots -> Buffers]
    /\ issend \in [Slots -> BOOLEAN]
    /\ copied \in BOOLEAN
    /\ size \in [File -> Sizes]
    /\ said \in [Conn -> Seq(Request)]
    /\ rx \in [Conn -> Seq(Request)]
    /\ out \in [Conn -> Seq(Part)]

\* UnitsUnderHeader for one client.
Headed(o) ==
    \A i \in 1..Len(o) : o[i].what = "unit" =>
        /\ i > 1 /\ o[i - 1].what \in {"header", "unit"}
        /\ o[i - 1].file = o[i].file

\* The last part of o is a header of f.
EndsInHeader(o, f) == Len(o) > 0 /\ o[Len(o)].what = "header" /\ o[Len(o)].file = f

SaidOther(c) == \E i \in 1..Len(said[c]) : said[c][i].method # "GET"

\* Armed for send_cb: what the block holds is about to be answered.
Answering(fd) == ev[Slot(fd)].callback = "send_cb" /\ ev[Slot(fd)].status = 1

\* A block with issend set holds the header of its resource, left by an answer
\* that could not be sent, or will get a new answer before it is used.
LeftAt(fd) ==
    LET s == Slot(fd) IN
    issend[s] =>
        \/ /\ resource[s] \in File /\ wbuffer[s] # <<>>
           /\ wbuffer[s][1].what = "header" /\ wbuffer[s][1].file = resource[s]
        \/ method[s] = "GET" /\ Answering(fd)

\* An answer to a POST is for a client that sent something else than GET.
PostAt(fd) ==
    fdtab[fd] # NoConn /\ Answering(fd) /\ method[Slot(fd)] = "POST" => SaidOther(fdtab[fd])

\* Between the header and the line end the descriptor is open and watched, no
\* event of the batch is about it, and up to sendfile() the header is the last
\* thing sent.
SendingInv ==
    /\ sending = 0 => ~copied
    /\ sending # 0 =>
          /\ sending \in Fd /\ fdtab[sending] \in Conn /\ interest[sending] # {}
          /\ \A a \in batch : a.ptr # Slot(sending)
          /\ resource[Slot(sending)] \in File
          /\ ~copied => EndsInHeader(out[fdtab[sending]], resource[Slot(sending)])

\* What was received was sent.
RxInv == \A c \in Conn : \A i \in 1..Len(rx[c]) : \E j \in 1..Len(said[c]) : rx[c][i] = said[c][j]

HttpInv ==
    /\ CoreInv /\ HttpTypes
    /\ \A fd \in Fd : LeftAt(fd) /\ PostAt(fd)
    /\ SendingInv /\ RxInv
    /\ \A c \in Conn : Headed(out[c])
    /\ HangsUpOnPostOnly

-----------------------------------------------------------------------------
(* Parts *)

LEMMA SlotsOf == \A fd \in Fd : Slot(fd) \in Slots /\ \A g \in Fd \ {fd} : Slot(g) # Slot(fd)
  BY SlotInjective DEF Slots, AllFd

LEMMA BufferOf ==
    ASSUME NEW b \in Buffers, b # <<>>
    PROVE  \E p \in HeadPart : b = <<p>> /\ b[1] = p /\ Len(b) = 1 /\ b \in Seq(Part)
<1>1. PICK p \in HeadPart : b = <<p>>
  BY DEF Buffers
<1>2. p \in Part
  BY DEF HeadPart
<1>3. <<p>>[1] = p /\ Len(<<p>>) = 1 /\ <<p>> \in Seq(Part)
  BY <1>2
<1>. QED  BY <1>1, <1>3

LEMMA FileSizes ==
    /\ Missing \notin 0..MaxSize
    /\ \A n \in Sizes : n # Missing => n \in 0..MaxSize
    /\ size \in [File -> Sizes] => \A f \in File : Contents(f) \in 0..MaxSize
<1>1. 0 \in 0..MaxSize /\ Missing \notin 0..MaxSize
  BY FileAssumption DEF Missing
<1>. QED  BY <1>1 DEF Sizes, Contents

LEMMA PartsTyping ==
    /\ NotFound \in HeadPart /\ LineEnd \in Part /\ LineEnd.what = "crlf"
    /\ \A f \in File, n \in 0..MaxSize : Header(f, n) \in HeadPart
    /\ \A f \in File : Unit(f) \in Part /\ Unit(f).what = "unit" /\ Unit(f).file = f
<1>1. 0 \in 0..MaxSize /\ 1 \in 0..MaxSize
  BY FileAssumption
<1>. QED  BY <1>1 DEF NotFound, LineEnd, Header, Unit, HeadPart, Part

LEMMA HeadedByOther ==
    ASSUME NEW o \in Seq(Part), Headed(o), NEW p \in Part, p.what # "unit"
    PROVE  /\ o \o <<p>> \in Seq(Part) /\ Headed(o \o <<p>>) /\ Len(<<p>>) = 1
           /\ p.what = "header" => EndsInHeader(o \o <<p>>, p.file)
<1>1. Len(o) \in Nat
  OBVIOUS
<1>2. /\ o \o <<p>> \in Seq(Part) /\ Len(o \o <<p>>) = Len(o) + 1
      /\ (o \o <<p>>)[Len(o) + 1] = p
      /\ \A i \in 1..Len(o) : (o \o <<p>>)[i] = o[i]
  BY <1>1
<1>3. ASSUME NEW i \in 1..Len(o \o <<p>>), (o \o <<p>>)[i].what = "unit"
      PROVE  /\ i > 1 /\ (o \o <<p>>)[i - 1].what \in {"header", "unit"}
             /\ (o \o <<p>>)[i - 1].file = (o \o <<p>>)[i].file
  <2>1. i \in 1..Len(o)
    BY <1>1, <1>2, <1>3
  <2>2. i > 1 /\ o[i - 1].what \in {"header", "unit"} /\ o[i - 1].file = o[i].file
    BY <1>2, <1>3, <2>1 DEF Headed
  <2>3. i - 1 \in 1..Len(o)
    BY <1>1, <2>1, <2>2
  <2>. QED  BY <1>2, <2>1, <2>2, <2>3
<1>. QED  BY <1>1, <1>2, <1>3 DEF Headed, EndsInHeader

\* The units of a file keep the parts headed.
LEMMA HeadedByFile ==
    ASSUME NEW o \in Seq(Part), Headed(o), NEW f \in File, EndsInHeader(o, f), NEW n \in Nat
    PROVE  /\ o \o [i \in 1..n |-> Unit(f)] \in Seq(Part)
           /\ Headed(o \o [i \in 1..n |-> Unit(f)])
           /\ Len([i \in 1..n |-> Unit(f)]) = n
<1>. DEFINE t == [i \in 1..n |-> Unit(f)]
<1>1. t \in Seq(Part) /\ Len(t) = n /\ \A i \in 1..n : t[i] = Unit(f)
  BY PartsTyping
<1>. HIDE DEF t
<1>2. /\ o \o t \in Seq(Part) /\ Len(o \o t) = Len(o) + n /\ Len(o) \in Nat
      /\ \A i \in 1..Len(o) : (o \o t)[i] = o[i]
      /\ \A i \in 1..n : (o \o t)[Len(o) + i] = t[i]
  BY <1>1
<1>3. ASSUME NEW i \in 1..Len(o \o t), (o \o t)[i].what = "unit"
      PROVE  /\ i > 1 /\ (o \o t)[i - 1].what \in {"header", "unit"}
             /\ (o \o t)[i - 1].file = (o \o t)[i].file
  <2>1. CASE i \in 1..Len(o)
    <3>1. i > 1 /\ o[i - 1].what \in {"header", "unit"} /\ o[i - 1].file = o[i].file
      BY <1>2, <1>3, <2>1 DEF Headed
    <3>2. i - 1 \in 1..Len(o)
      BY <1>2, <2>1, <3>1
    <3>. QED  BY <1>2, <2>1, <3>1, <3>2
  <2>2. CASE i \notin 1..Len(o)
    <3>1. PICK k \in 1..n : i = Len(o) + k
      <4>1. i - Len(o) \in 1..n /\ i = Len(o) + (i - Len(o))
        BY <1>2, <2>2
      <4>. QED  BY <4>1
    <3>2. (o \o t)[i] = Unit(f)
      BY <1>1, <1>2, <3>1
    <3>3. CASE k = 1
      <4>1. i - 1 = Len(o) /\ Len(o) \in 1..Len(o)
        BY <1>2, <3>1, <3>3 DEF EndsInHeader
      <4>2. (o \o t)[i - 1] = o[Len(o)] /\ i > 1
        BY <1>2, <4>1
      <4>. QED  BY <3>2, <4>2, PartsTyping DEF EndsInHeader
    <3>4. CASE k # 1
      <4>1. i - 1 = Len(o) + (k - 1) /\ k - 1 \in 1..n /\ i > 1
        BY <1>2, <3>1, <3>4
      <4>2. (o \o t)[i - 1] = Unit(f)
        BY <1>1, <1>2, <4>1
      <4>. QED  BY <3>2, <4>1, <4>2, PartsTyping
    <3>. QED  BY <3>3, <3>4
  <2>. QED  BY <2>1, <2>2
<1>4. Headed(o \o t)
  BY <1>3 DEF Headed
<1>. QED  BY <1>1, <1>2, <1>4 DEF t

-----------------------------------------------------------------------------
LEMMA HttpInit == Init => HttpInv
<1>. SUFFICES ASSUME Init PROVE HttpInv
  OBVIOUS
<1>1. CoreInv
  BY CoreInitInv DEF Init
<1>2. <<>> \in Seq(Request) /\ <<>> \in Seq(Part) /\ <<>> \in Buffers
  BY DEF Buffers
<1>3. HttpTypes
  BY <1>2, PlaceAssumption DEF Init, CoreInit, HttpTypes
<1>4. \A fd \in Fd : LeftAt(fd) /\ PostAt(fd)
  BY SlotsOf DEF Init, CoreInit, LeftAt, PostAt
<1>5. SendingInv /\ RxInv /\ HangsUpOnPostOnly /\ \A c \in Conn : Headed(out[c])
  BY DEF Init, CoreInit, SendingInv, RxInv, HangsUpOnPostOnly, Headed
<1>. QED  BY <1>1, <1>3, <1>4, <1>5 DEF HttpInv
\* A step that does not touch the requests: of a client, epoll_wait or SIGPIPE.
LEMMA QuietKeeps ==
    ASSUME HttpInv, CoreInv', UNCHANGED <<fdtab, ev, rx, interest, httpVars, said, out>>,
           size' \in [File -> Sizes],
           sending = 0 \/ batch' = batch,
           \A c \in Conn : stage'[c] = "closed" /\ peer'[c] = "open" =>
               stage[c] = "closed" /\ peer[c] = "open"
    PROVE  HttpInv'
<1>1. HttpTypes'
  BY DEF HttpInv, HttpTypes, httpVars
<1>2. \A fd \in Fd : LeftAt(fd)' /\ PostAt(fd)'
  BY DEF HttpInv, LeftAt, PostAt, Answering, SaidOther, httpVars
<1>3. SendingInv'
  BY DEF HttpInv, SendingInv, EndsInHeader, httpVars
<1>4. RxInv' /\ HangsUpOnPostOnly' /\ \A c \in Conn : Headed(out[c])'
  BY DEF HttpInv, RxInv, HangsUpOnPostOnly, Headed, httpVars
<1>. QED  BY <1>1, <1>2, <1>3, <1>4 DEF HttpInv

LEMMA ClientSayKeeps ==
    ASSUME HttpInv, NEW c \in Conn, NEW r \in Request, ClientSay(c, r), size' = size
    PROVE  HttpInv'
<1>1. /\ UNCHANGED <<fdtab, interest, stage, peer, ev, batch, httpVars, out>>
      /\ rx' = [rx EXCEPT ![c] = rx[c] \o <<r>>] /\ said' = [said EXCEPT ![c] = Append(said[c], r)]
  BY DEF ClientSay, Arrive, reactorVars
<1>2. CoreInv'
  BY SocketStepsKeep DEF ClientSay, HttpInv
<1>3. rx \in [Conn -> Seq(Request)] /\ said \in [Conn -> Seq(Request)]
  BY DEF HttpInv, HttpTypes
<1>4. PICK x \in Seq(Request) : x = rx[c]
  BY <1>3
<1>5. PICK y \in Seq(Request) : y = said[c]
  BY <1>3
<1>6. /\ x \o <<r>> \in Seq(Request) /\ Len(x \o <<r>>) = Len(x) + 1 /\ Len(x) \in Nat
      /\ (x \o <<r>>)[Len(x) + 1] = r
      /\ \A i \in 1..Len(x) : (x \o <<r>>)[i] = x[i]
  OBVIOUS
<1>7. /\ Append(y, r) \in Seq(Request) /\ Len(Append(y, r)) = Len(y) + 1 /\ Len(y) \in Nat
      /\ Append(y, r)[Len(y) + 1] = r
      /\ \A i \in 1..Len(y) : Append(y, r)[i] = y[i]
  OBVIOUS
<1>8. /\ rx'[c] = x \o <<r>> /\ said'[c] = Append(y, r)
      /\ \A d \in Conn \ {c} : rx'[d] = rx[d] /\ said'[d] = said[d]
  BY <1>1, <1>3, <1>4, <1>5
<1>9. HttpTypes'
  BY <1>1, <1>3, <1>4, <1>5, <1>6, <1>7 DEF HttpInv, HttpTypes, httpVars
<1>10. ASSUME NEW d \in Conn, SaidOther(d) PROVE SaidOther(d)'
  <2>1. CASE d = c
    <3>1. PICK j \in 1..Len(y) : y[j].method # "GET"
      BY <1>5, <1>10, <2>1 DEF SaidOther
    <3>2. j \in 1..Len(said'[c]) /\ said'[c][j] = y[j]
      BY <1>7, <1>8
    <3>. QED  BY <2>1, <3>1, <3>2 DEF SaidOther
  <2>2. CASE d # c
    BY <1>8, <1>10, <2>2 DEF SaidOther
  <2>. QED  BY <2>1, <2>2
<1>11. RxInv'
  <2>1. ASSUME NEW d \in Conn, NEW i \in 1..Len(rx'[d])
        PROVE  \E j \in 1..Len(said'[d]) : rx'[d][i] = said'[d][j]
    <3>1. CASE d # c
      <4>1. rx'[d] = rx[d] /\ said'[d] = said[d]
        BY <1>8, <3>1
      <4>2. PICK j \in 1..Len(said[d]) : rx[d][i] = said[d][j]
        BY <2>1, <4>1 DEF HttpInv, RxInv
      <4>. QED  BY <4>1, <4>2
    <3>2. CASE d = c /\ i = Len(x) + 1
      <4>1. rx'[d][i] = r /\ Len(y) + 1 \in 1..Len(said'[d]) /\ said'[d][Len(y) + 1] = r
        BY <1>6, <1>7, <1>8, <3>2
      <4>. QED  BY <4>1
    <3>3. CASE d = c /\ i # Len(x) + 1
      <4>1. i \in 1..Len(x) /\ rx'[d][i] = x[i]
        <5>1. rx'[d] = x \o <<r>>
          BY <1>8, <3>3
        <5>2. i \in 1..Len(x) + 1
          BY <1>6, <2>1, <5>1
        <5>3. i \in 1..Len(x)
          BY <1>6, <3>3, <5>2
        <5>. QED  BY <1>6, <5>1, <5>3
      <4>2. PICK j \in 1..Len(y) : x[i] = y[j]
        BY <1>4, <1>5, <4>1 DEF HttpInv, RxInv
      <4>3. j \in 1..Len(said'[d]) /\ said'[d][j] = y[j]
        <5>1. said'[d] = Append(y, r)
          BY <1>8, <3>3
        <5>2. j \in 1..Len(Append(y, r)) /\ Append(y, r)[j] = y[j]
          BY <1>7
        <5>. QED  BY <5>1, <5>2
      <4>4. rx'[d][i] = said'[d][j]
        BY <4>1, <4>2, <4>3
      <4>. QED  BY <4>3, <4>4
    <3>. QED  BY <3>1, <3>2, <3>3
  <2>. QED  BY <2>1 DEF RxInv
<1>12. \A fd \in Fd : LeftAt(fd)' /\ PostAt(fd)'
  <2>1. ASSUME NEW fd \in Fd PROVE LeftAt(fd)' /\ PostAt(fd)'
    <3>1. LeftAt(fd)'
      BY <1>1 DEF HttpInv, LeftAt, Answering, httpVars
    <3>2. fdtab[fd] \in Conn \cup {NoConn}
      BY DEF HttpInv, CoreInv, CoreTypeOK
    <3>3. PostAt(fd)'
      <4>1. SUFFICES ASSUME fdtab'[fd] # NoConn, Answering(fd)', method'[Slot(fd)] = "POST"
                     PROVE  SaidOther(fdtab[fd])' /\ fdtab' = fdtab
        BY DEF PostAt, SaidOther
      <4>2. fdtab[fd] \in Conn /\ SaidOther(fdtab[fd]) /\ fdtab' = fdtab
        BY <1>1, <3>2, <4>1 DEF HttpInv, PostAt, Answering, httpVars
      <4>3. PICK d \in Conn : d = fdtab[fd]
        BY <4>2
      <4>4. SaidOther(d)'
        BY <1>10, <4>2, <4>3
      <4>. QED  BY <4>2, <4>3, <4>4 DEF SaidOther
    <3>. QED  BY <3>1, <3>3
  <2>. QED  BY <2>1
<1>13. SendingInv' /\ \A d \in Conn : Headed(out[d])'
  BY <1>1 DEF HttpInv, SendingInv, EndsInHeader, Headed, httpVars
<1>14. HangsUpOnPostOnly'
  <2>1. HangsUpOnPostOnly <=> \A d \in Conn : stage[d] = "closed" /\ peer[d] = "open" => SaidOther(d)
    BY DEF HangsUpOnPostOnly, SaidOther
  <2>2. \A d \in Conn : stage'[d] = "closed" /\ peer'[d] = "open" => SaidOther(d)'
    BY <1>1, <1>10, <2>1 DEF HttpInv
  <2>. QED  BY <2>2 DEF HangsUpOnPostOnly, SaidOther
<1>. QED  BY <1>2, <1>9, <1>11, <1>12, <1>13, <1>14 DEF HttpInv

LEMMA ClientMoveKeeps ==
    ASSUME HttpInv, NEW c \in Conn, CoreClient(c), UNCHANGED <<httpVars, size, said, out>>
    PROVE  HttpInv'
<1>1. CoreInv'
  BY ConnectKeeps, SocketStepsKeep DEF CoreClient, HttpInv
<1>2. UNCHANGED <<fdtab, interest, ev, rx, batch>>
  BY DEF CoreClient, Connect, ClientRead, ClientFin, ClientReset, ClientPipe, PeerTimeout, Lose, reactorVars
<1>3. stage \in [Conn -> Stages] /\ peer \in [Conn -> PeerStates]
  BY DEF HttpInv, CoreInv, CoreTypeOK
<1>4. ASSUME NEW d \in Conn, stage'[d] = "closed", peer'[d] = "open"
      PROVE  stage[d] = "closed" /\ peer[d] = "open"
  BY <1>3, <1>4
  DEF CoreClient, Connect, ClientRead, ClientFin, ClientReset, ClientPipe, PeerTimeout, Lose, Reaching
<1>5. size' \in [File -> Sizes]
  BY DEF HttpInv, HttpTypes
<1>. QED  BY <1>1, <1>2, <1>4, <1>5, QuietKeeps

LEMMA EditKeeps ==
    ASSUME HttpInv, NEW f \in File, NEW n \in Sizes, Edit(f, n)
    PROVE  HttpInv'
<1>1. UNCHANGED coreVars /\ UNCHANGED <<httpVars, said, out>>
      /\ size' \in [File -> Sizes]
  BY DEF Edit, HttpInv, HttpTypes
<1>2. CoreInv'
  BY <1>1, StutterKeeps DEF HttpInv
<1>. QED  BY <1>1, <1>2, QuietKeeps DEF coreVars, kernelVars, reactorVars
-----------------------------------------------------------------------------
(* What a callback does to the rest *)

\* Every other descriptor and connection stays as it is.
Others(fd, c) ==
    /\ \A g \in Fd \ {fd} :
          /\ fdtab'[g] = fdtab[g] /\ ev'[Slot(g)] = ev[Slot(g)]
          /\ method'[Slot(g)] = method[Slot(g)] /\ resource'[Slot(g)] = resource[Slot(g)]
          /\ wbuffer'[Slot(g)] = wbuffer[Slot(g)] /\ issend'[Slot(g)] = issend[Slot(g)]
    /\ \A d \in Conn \ {c} :
          rx'[d] = rx[d] /\ out'[d] = out[d] /\ stage'[d] = stage[d] /\ peer'[d] = peer[d]

\* The input of its own connection is used up, the output stays headed, and the
\* client is hung up on for a reason.
Own(c) ==
    /\ \A i \in 1..Len(rx'[c]) : \E j \in 1..Len(rx[c]) : rx'[c][i] = rx[c][j]
    /\ Headed(out'[c])
    /\ stage'[c] = "closed" /\ peer'[c] = "open" => SaidOther(c)

LEMMA OwnRequest ==
    ASSUME HttpInv, CoreInv', HttpTypes', SendingInv',
           NEW fd \in Fd, NEW c \in Conn, said' = said,
           Others(fd, c), Own(c), LeftAt(fd)', PostAt(fd)'
    PROVE  HttpInv'
<1>. USE DEF Others, Own
<1>1. \A d : SaidOther(d)' = SaidOther(d)
  BY DEF SaidOther
<1>2. ASSUME NEW g \in Fd PROVE LeftAt(g)' /\ PostAt(g)'
  <2>1. CASE g = fd
    BY <2>1
  <2>2. CASE g # fd
    BY <2>2 DEF HttpInv, LeftAt, PostAt, Answering, SaidOther
  <2>. QED  BY <2>1, <2>2
<1>3. RxInv'
  <2>1. ASSUME NEW d \in Conn, NEW i \in 1..Len(rx'[d])
        PROVE  \E j \in 1..Len(said'[d]) : rx'[d][i] = said'[d][j]
    <3>1. PICK k \in 1..Len(rx[d]) : rx'[d][i] = rx[d][k]
      <4>1. CASE d = c
        BY <2>1, <4>1
      <4>2. CASE d # c
        <5>1. rx'[d] = rx[d]
          BY <4>2
        <5>. QED  BY <2>1, <5>1
      <4>. QED  BY <4>1, <4>2
    <3>2. PICK j \in 1..Len(said[d]) : rx[d][k] = said[d][j]
      BY DEF HttpInv, RxInv
    <3>. QED  BY <3>1, <3>2
  <2>. QED  BY <2>1 DEF RxInv
<1>4. HangsUpOnPostOnly'
  <2>1. \A d \in Conn : stage[d] = "closed" /\ peer[d] = "open" => SaidOther(d)
    BY DEF HttpInv, HangsUpOnPostOnly, SaidOther
  <2>2. \A d \in Conn : stage'[d] = "closed" /\ peer'[d] = "open" => SaidOther(d)'
    BY <1>1, <2>1
  <2>. QED  BY <2>2 DEF HangsUpOnPostOnly, SaidOther
<1>5. \A d \in Conn : Headed(out[d])'
  <2>1. \A d \in Conn : Headed(out'[d])
    BY DEF HttpInv
  <2>. QED  BY <2>1 DEF Headed
<1>. QED  BY <1>2, <1>3, <1>4, <1>5 DEF HttpInv

\* What an event of recv_cb or send_cb is about.
Callee(b, cb, fd, c, s) ==
    /\ fd = ev[b.ptr].fd /\ c = fdtab[fd] /\ s = Slot(fd) /\ stage[c] = "accepted"
    /\ ev[s].callback = cb /\ ev[s].status = 1 /\ interest[fd] # {}
    /\ \A g \in Fd \ {fd} : Slot(g) \in Slots /\ Slot(g) # s
    /\ batch' = batch \ {b} /\ ev[b.ptr].callback = cb /\ DoneWith(fd)
    /\ cb = "send_cb" => Room(c) >= 1 \/ Gone(c)

LEMMA CallbackOf ==
    ASSUME HttpInv, NEW b \in batch, NEW cb \in {"recv_cb", "send_cb"}, Dispatch(b, cb)
    PROVE  \E fd \in Fd, c \in Conn, s \in Slots : Callee(b, cb, fd, c, s)
<1>1. PICK fd : fd = ev[b.ptr].fd
  OBVIOUS
<1>2. ev[b.ptr].callback = cb /\ batch' = batch \ {b} /\ CoreInv
  BY DEF Dispatch, HttpInv
<1>3. /\ fd \in Fd /\ fdtab[fd] \in Conn /\ EventOf(b, fd) /\ stage[fdtab[fd]] = "accepted"
      /\ interest[fd] # {} /\ Mirrors(fd) /\ (cb = "send_cb" => interest[fd] = {"OUT"})
  BY <1>1, <1>2, EventFd
<1>4. Slot(fd) \in Slots /\ \A g \in Fd \ {fd} : Slot(g) \in Slots /\ Slot(g) # Slot(fd)
  BY <1>3, SlotsOf
<1>5. ev[Slot(fd)].callback = cb /\ ev[Slot(fd)].status = 1
  BY <1>2, <1>3 DEF EventOf, Mirrors
<1>6. DoneWith(fd)
  BY <1>2, <1>3, LastOfBatch
<1>7. ASSUME cb = "send_cb" PROVE Room(fdtab[fd]) >= 1 \/ Gone(fdtab[fd])
  <2>1. "OUT" \in b.events
    BY <1>3, <1>7 DEF EventOf
  <2>2. Writable(fdtab[fd])
    BY <1>3, <2>1 DEF EventOf
  <2>3. inflight[fdtab[fd]] \in 0..SndBuf
    BY <1>2, <1>3 DEF CoreInv, CoreTypeOK
  <2>. QED  BY <2>2, <2>3, SocketAssumption DEF Writable, Room
<1>. QED  BY <1>1, <1>2, <1>3, <1>4, <1>5, <1>6, <1>7 DEF Callee

LEMMA RearmBlock ==
    ASSUME HttpInv, NEW fd \in Fd, NEW cb, NEW evs, Rearm(fd, cb, evs)
    PROVE  /\ ev'[Slot(fd)].callback = cb /\ ev'[Slot(fd)].status = 1
           /\ \A g \in Fd \ {fd} : ev'[Slot(g)] = ev[Slot(g)]
<1>1. ev \in [Slots -> NtyEvent]
  BY DEF HttpInv, CoreInv, CoreTypeOK
<1>2. ev' = [ev EXCEPT ![Slot(fd)] = EventAdd(EventSet(EventDel(ev[Slot(fd)]), fd, cb), evs)]
  BY DEF Rearm
<1>3. EventAdd(EventSet(EventDel(ev[Slot(fd)]), fd, cb), evs).callback = cb
      /\ EventAdd(EventSet(EventDel(ev[Slot(fd)]), fd, cb), evs).status = 1
  <2>1. ev[Slot(fd)] \in NtyEvent
    BY <1>1, SlotsOf
  <2>. QED  BY <2>1 DEF NtyEvent, EventAdd, EventSet, EventDel
<1>. QED  BY <1>1, <1>2, <1>3, SlotsOf

LEMMA DelBlock ==
    ASSUME HttpInv, NEW fd \in Fd, DelAndClose(fd) \/ DelOnly(fd)
    PROVE  ev'[Slot(fd)].status = 0 /\ \A g \in Fd \ {fd} : ev'[Slot(g)] = ev[Slot(g)]
<1>1. ev' = [ev EXCEPT ![Slot(fd)] = EventDel(ev[Slot(fd)])] /\ ev \in [Slots -> NtyEvent]
  BY DEF DelAndClose, DelOnly, HttpInv, CoreInv, CoreTypeOK
<1>2. EventDel(ev[Slot(fd)]).status = 0
  <2>1. ev[Slot(fd)] \in NtyEvent
    BY <1>1, SlotsOf
  <2>. QED  BY <2>1 DEF NtyEvent, EventDel
<1>. QED  BY <1>1, <1>2, SlotsOf

-----------------------------------------------------------------------------
LEMMA AcceptKeepsHttp ==
    ASSUME HttpInv, NEW b \in batch, accept_cb(b), sending = 0,
           UNCHANGED <<httpVars, size, said, out>>
    PROVE  HttpInv'
<1>1. CoreInv /\ CoreInv' /\ size' \in [File -> Sizes]
  BY AcceptKeeps DEF HttpInv, HttpTypes
<1>2. CASE AcceptFails(b)
  BY <1>1, <1>2, QuietKeeps DEF AcceptFails, kernelVars
<1>3. ASSUME NEW fd \in Fd, Accepting(fd), Dispatch(b, "accept_cb"),
             \/ ev' = [ev EXCEPT ![Slot(fd)] = EventAdd(EventSet(ev[Slot(fd)], fd, "recv_cb"), {"IN"})]
             \/ ev' = ev
      PROVE  HttpInv'
  <2>1. backlog # <<>>
    BY <1>1, <1>3, EventFd DEF Dispatch, EventOf
  <2>2. PICK c \in Conn : c = Head(backlog)
    BY <1>1, <1>3, <2>1, AcceptingKeeps
  <2>3. /\ fdtab[fd] = NoConn /\ fdtab' = [fdtab EXCEPT ![fd] = c]
        /\ stage' = [stage EXCEPT ![c] = "accepted"] /\ UNCHANGED <<peer, rx>>
    BY <1>1, <1>3, <2>1, <2>2, AcceptingKeeps DEF Accepting
  <2>4. ev[Slot(fd)].status # 1 /\ ev[Slot(fd)] \in NtyEvent
    BY <1>1, <2>3, FreeFdIsUnwatched
  <2>5. /\ ev \in [Slots -> NtyEvent] /\ stage \in [Conn -> Stages]
        /\ fdtab \in [Fd -> Conn \cup {NoConn}]
    BY <1>1 DEF CoreInv, CoreTypeOK
  <2>6. ~Answering(fd)'
    <3>1. EventAdd(EventSet(ev[Slot(fd)], fd, "recv_cb"), {"IN"}).callback = "recv_cb"
      BY <2>4 DEF NtyEvent, EventAdd, EventSet
    <3>. QED  BY <1>3, <2>4, <2>5, <3>1, SlotsOf DEF Answering
  <2>7. Others(fd, c)
    BY <1>3, <2>3, <2>5, SlotsOf DEF Others, httpVars
  <2>8. Own(c)
    BY <2>3, <2>5 DEF HttpInv, Own
  <2>9. LeftAt(fd)' /\ PostAt(fd)'
    <3>1. ~Answering(fd)
      BY <2>4 DEF Answering
    <3>. QED  BY <2>6, <3>1 DEF HttpInv, LeftAt, PostAt, httpVars
  <2>10. HttpTypes' /\ SendingInv'
    BY <1>1, <2>3 DEF HttpInv, HttpTypes, SendingInv, httpVars
  <2>. QED  BY <1>1, <2>7, <2>8, <2>9, <2>10, OwnRequest
<1>4. CASE AcceptOk(b)
  BY <1>3, <1>4 DEF AcceptOk
<1>5. CASE AcceptForgets(b)
  BY <1>3, <1>5 DEF AcceptForgets
<1>. QED  BY <1>2, <1>4, <1>5 DEF accept_cb
-----------------------------------------------------------------------------
(* recv_cb *)

LEMMA RecvDataKeeps ==
    ASSUME HttpInv, NEW b \in batch, sending = 0, RecvData(b), size' = size
    PROVE  HttpInv'
<1>1. PICK fd \in Fd, c \in Conn, s \in Slots : Callee(b, "recv_cb", fd, c, s)
  BY CallbackOf DEF RecvData
<1>2. PICK n : n = Min2(Len(rx[c]), BUFFER_LENGTH)
  OBVIOUS
<1>3. /\ n > 0 /\ parser_http_request(s, rx[c][1])
      /\ rx' = [rx EXCEPT ![c] = SubSeq(rx[c], n + 1, Len(rx[c]))]
      /\ Rearm(fd, "send_cb", {"OUT"})
      /\ UNCHANGED <<fdtab, backlog, stage, peer, inflight, blkcnt, alive,
                     wbuffer, issend, sending, copied, said, out>>
  BY <1>1, <1>2 DEF RecvData, Callee
<1>4. HttpTypes /\ CoreInv
  BY DEF HttpInv
<1>5. PICK x \in Seq(Request) : x = rx[c]
  BY <1>4 DEF HttpTypes
<1>6. n \in 1..Len(x) /\ 1 \in 1..Len(x) /\ x[1] \in Request
  <2>1. Len(x) \in Nat /\ n = Min2(Len(x), BUFFER_LENGTH) /\ n > 0
    BY <1>2, <1>3, <1>5
  <2>2. n \in 1..Len(x)
    BY <2>1, ReadRange
  <2>. QED  BY <2>1, <2>2
<1>7. PICK r \in Request : r = x[1]
  BY <1>6
<1>8. /\ method' = [method EXCEPT ![s] = IF r.method = "other" THEN method[s] ELSE r.method]
      /\ resource' = [resource EXCEPT ![s] = IF r.method = "GET" THEN r.path ELSE resource[s]]
  BY <1>3, <1>5, <1>7 DEF parser_http_request
<1>9. r.method \in AllMethods /\ (r.method = "GET" => r.path \in File)
  BY DEF Request
<1>10. /\ method' \in [Slots -> {"GET", "POST"}] /\ resource' \in [Slots -> File \cup {NoFile}]
       /\ \A t \in Slots \ {s} : method'[t] = method[t] /\ resource'[t] = resource[t]
       /\ method'[s] = IF r.method = "other" THEN method[s] ELSE r.method
       /\ r.method # "GET" => resource'[s] = resource[s]
  BY <1>4, <1>8, <1>9 DEF HttpTypes, AllMethods
<1>11. PICK y \in Seq(Request) : y = SubSeq(x, n + 1, Len(x))
  BY <1>6, TailOf
<1>12. /\ rx'[c] = y /\ rx' \in [Conn -> Seq(Request)]
       /\ \A d \in Conn \ {c} : rx'[d] = rx[d]
       /\ \A i \in 1..Len(y) : \E j \in 1..Len(x) : y[i] = x[j]
  BY <1>3, <1>4, <1>5, <1>6, <1>11, TailOf DEF HttpTypes
<1>13. CoreInv'
  <2>1. SocketStep(fd)
    BY <1>3, <1>4 DEF SocketStep, CoreInv, CoreTypeOK
  <2>2. <<"send_cb", {"OUT"}>> \in Turns
    BY DEF Turns
  <2>3. fdtab[fd] \in Conn /\ interest[fd] # {} /\ DoneWith(fd)
    BY <1>1 DEF Callee
  <2>. QED  BY <1>3, <1>4, <2>1, <2>2, <2>3, RearmInPlace
<1>14. Answering(fd)' /\ \A g \in Fd \ {fd} : ev'[Slot(g)] = ev[Slot(g)]
  BY <1>3, RearmBlock DEF Answering
<1>15. s = Slot(fd) /\ c = fdtab[fd] /\ stage[c] = "accepted"
       /\ \A g \in Fd \ {fd} : Slot(g) \in Slots \ {s}
  BY <1>1 DEF Callee
<1>16. Others(fd, c)
  BY <1>3, <1>10, <1>12, <1>14, <1>15 DEF Others
<1>17. Own(c)
  <2>1. \A i \in 1..Len(rx'[c]) : \E j \in 1..Len(rx[c]) : rx'[c][i] = rx[c][j]
    BY <1>5, <1>12
  <2>2. Headed(out'[c]) /\ stage'[c] # "closed"
    BY <1>3, <1>15 DEF HttpInv
  <2>. QED  BY <2>1, <2>2 DEF Own
<1>18. LeftAt(fd)'
  <2>1. ev[s].callback = "recv_cb"
    BY <1>1 DEF Callee
  <2>2. CASE r.method = "GET"
    BY <1>10, <1>14, <1>15, <2>2 DEF LeftAt
  <2>3. CASE r.method # "GET"
    <3>1. issend[s] => /\ resource[s] \in File /\ wbuffer[s] # <<>>
                       /\ wbuffer[s][1].what = "header" /\ wbuffer[s][1].file = resource[s]
      BY <1>15, <2>1 DEF HttpInv, LeftAt, Answering
    <3>. QED  BY <1>3, <1>10, <1>15, <2>3, <3>1 DEF LeftAt
  <2>. QED  BY <2>2, <2>3
<1>19. PostAt(fd)'
  <2>1. ASSUME method'[s] = "POST" PROVE SaidOther(c)
    <3>1. r.method # "GET"
      BY <1>10, <2>1
    <3>2. PICK j \in 1..Len(said[c]) : x[1] = said[c][j]
      BY <1>5, <1>6 DEF HttpInv, RxInv
    <3>. QED  BY <1>7, <3>1, <3>2 DEF SaidOther
  <2>. QED  BY <1>3, <1>15, <2>1 DEF PostAt, SaidOther
<1>20. HttpTypes'
  BY <1>3, <1>4, <1>10, <1>12 DEF HttpTypes
<1>21. SendingInv'
  BY <1>3 DEF HttpInv, SendingInv
<1>. QED  BY <1>3, <1>13, <1>16, <1>17, <1>18, <1>19, <1>20, <1>21, OwnRequest

\* The ends of recv_cb that read no request.
LEMMA RecvOverKeeps ==
    ASSUME HttpInv, NEW b \in batch, sending = 0, RecvEnd(b) \/ RecvError(b), size' = size
    PROVE  HttpInv'
<1>1. PICK fd \in Fd, c \in Conn, s \in Slots : Callee(b, "recv_cb", fd, c, s)
  BY CallbackOf DEF RecvEnd, RecvError
<1>2. /\ s = Slot(fd) /\ c = fdtab[fd] /\ stage[c] = "accepted" /\ fd = ev[b.ptr].fd
      /\ \A g \in Fd \ {fd} : Slot(g) \in Slots \ {s}
      /\ batch' = batch \ {b} /\ ev[b.ptr].callback = "recv_cb" /\ ~Answering(fd)
  BY <1>1 DEF Callee, Answering
<1>3. /\ \/ DelAndClose(fd) /\ peer[c] # "open"
         \/ DelOnly(fd)
      /\ UNCHANGED <<backlog, peer, rx, inflight, blkcnt, alive, httpVars, said, out>>
  BY <1>2 DEF RecvEnd, RecvError
<1>4. CoreInv'
  BY <1>2, <1>3, DelAndCloseKeeps, DelOnlyKeeps DEF HttpInv
<1>5. /\ fdtab \in [Fd -> Conn \cup {NoConn}] /\ stage \in [Conn -> Stages]
      /\ ~Answering(fd)' /\ \A g \in Fd \ {fd} : ev'[Slot(g)] = ev[Slot(g)]
  BY <1>3, DelBlock DEF HttpInv, CoreInv, CoreTypeOK, Answering
<1>6. Others(fd, c)
  BY <1>2, <1>3, <1>5 DEF Others, DelAndClose, DelOnly, httpVars
<1>7. Own(c)
  BY <1>2, <1>3, <1>5 DEF HttpInv, Own, DelAndClose, DelOnly
<1>8. LeftAt(fd)' /\ PostAt(fd)'
  BY <1>2, <1>3, <1>5 DEF HttpInv, LeftAt, PostAt, httpVars
<1>9. HttpTypes' /\ SendingInv'
  BY <1>3 DEF HttpInv, HttpTypes, SendingInv, httpVars
<1>. QED  BY <1>3, <1>4, <1>6, <1>7, <1>8, <1>9, OwnRequest

-----------------------------------------------------------------------------
(* send_cb *)

\* What http_response leaves in the control block.
LEMMA Responded ==
    ASSUME HttpInv, NEW fd \in Fd, NEW s \in Slots, s = Slot(fd), http_response(s)
    PROVE  /\ wbuffer' \in [Slots -> Buffers] /\ issend' \in [Slots -> BOOLEAN]
           /\ \A t \in Slots \ {s} : wbuffer'[t] = wbuffer[t] /\ issend'[t] = issend[t]
           /\ issend'[s] => /\ resource[s] \in File /\ wbuffer'[s] # <<>>
                            /\ wbuffer'[s][1].what = "header"
                            /\ wbuffer'[s][1].file = resource[s]
           /\ wbuffer'[s] = <<>> => method[s] = "POST"
<1>1. HttpTypes
  BY DEF HttpInv
<1>2. CASE method[s] = "GET"
  <2>1. http_get_response(s) /\ resource[s] \in File \cup {NoFile}
    BY <1>1, <1>2 DEF http_response, HttpTypes
  <2>2. CASE resource[s] = NoFile \/ size[resource[s]] = Missing
    <3>1. /\ wbuffer' = [wbuffer EXCEPT ![s] = <<NotFound>>]
          /\ issend' = [issend EXCEPT ![s] = FALSE]
      BY <2>1, <2>2 DEF http_get_response
    <3>2. <<NotFound>> \in Buffers /\ <<NotFound>> # <<>>
      BY PartsTyping DEF Buffers
    <3>. QED  BY <1>1, <3>1, <3>2 DEF HttpTypes
  <2>3. CASE resource[s] # NoFile /\ size[resource[s]] # Missing
    <3>1. PICK f \in File : f = resource[s]
      BY <2>1, <2>3
    <3>2. size[f] \in 0..MaxSize
      BY <1>1, <2>3, <3>1, FileSizes DEF HttpTypes
    <3>3. /\ wbuffer' = [wbuffer EXCEPT ![s] = <<Header(f, size[f])>>]
          /\ issend' = [issend EXCEPT ![s] = TRUE]
      BY <2>1, <2>3, <3>1 DEF http_get_response
    <3>4. /\ <<Header(f, size[f])>> \in Buffers /\ <<Header(f, size[f])>> # <<>>
          /\ <<Header(f, size[f])>>[1].what = "header" /\ <<Header(f, size[f])>>[1].file = f
      BY <3>2, PartsTyping DEF Buffers, Header
    <3>. QED  BY <1>1, <3>1, <3>3, <3>4 DEF HttpTypes
  <2>. QED  BY <2>2, <2>3
<1>3. CASE method[s] # "GET"
  <2>1. UNCHANGED <<wbuffer, issend>> /\ method[s] = "POST"
    BY <1>1, <1>3 DEF http_response, HttpTypes
  <2>. QED  BY <1>1, <2>1 DEF HttpInv, HttpTypes, LeftAt
<1>. QED  BY <1>2, <1>3
\* Bytes of its own connection move, and the process may be killed.
LEMMA SocketsOnly ==
    ASSUME CoreInv, NEW fd \in Fd, fdtab[fd] \in Conn, DoneWith(fd), SocketStep(fd),
           UNCHANGED <<fdtab, interest, backlog, stage, ev, blkcnt>>, alive' \in BOOLEAN
    PROVE  CoreInv'
<1>1. Mirrors(fd)'
  <2>1. Mirrors(fd)
    BY MirrorsAll DEF CoreInv, AllFd
  <2>. QED  BY <2>1 DEF Mirrors
<1>2. OwnFdOnly(fd)
  BY WritableKept DEF OwnFdOnly
<1>3. PollMirrorsBlocks' /\ BatchInv'
  BY <1>1, <1>2, OwnFdOnlyKeeps
<1>4. CoreTypeOK'
  BY DEF CoreInv, CoreTypeOK, SocketStep, DoneWith
<1>. QED  BY <1>3, <1>4 DEF CoreInv, OneFdPerConn, BacklogInv

LEMMA SendHeadKeeps ==
    ASSUME HttpInv, NEW b \in batch, sending = 0, NEW fd \in Fd, SendHead(b, fd), size' = size
    PROVE  HttpInv'
<1>1. Responding(b, fd)
  BY DEF SendHead
<1>2. PICK c \in Conn, s \in Slots : Callee(b, "send_cb", fd, c, s)
  BY <1>1, CallbackOf DEF Responding, Callee
<1>3. /\ s = Slot(fd) /\ c = fdtab[fd] /\ stage[c] = "accepted"
      /\ \A g \in Fd \ {fd} : Slot(g) \in Slots \ {s}
      /\ DoneWith(fd) /\ interest[fd] # {} /\ (Room(c) >= 1 \/ Gone(c))
  BY <1>2 DEF Callee
<1>4. /\ http_response(s) /\ ~Gone(c) /\ wbuffer'[s] # <<>>
      /\ out' = [out EXCEPT ![c] = out[c] \o wbuffer'[s]]
      /\ inflight' = [inflight EXCEPT ![c] = inflight[c] + Len(wbuffer'[s])]
      /\ UNCHANGED <<backlog, peer, rx, blkcnt, method, resource, copied, said, fdtab, stage, alive>>
      /\ \/ issend'[s] /\ sending' = fd /\ UNCHANGED <<ev, interest>>
         \/ ~issend'[s] /\ Rearm(fd, "recv_cb", {"IN"}) /\ sending' = sending
  BY <1>3 DEF SendHead, Responding, Sent
<1>5. /\ wbuffer' \in [Slots -> Buffers] /\ issend' \in [Slots -> BOOLEAN]
      /\ \A t \in Slots \ {s} : wbuffer'[t] = wbuffer[t] /\ issend'[t] = issend[t]
      /\ issend'[s] => /\ resource[s] \in File
                       /\ wbuffer'[s][1].what = "header" /\ wbuffer'[s][1].file = resource[s]
  BY <1>3, <1>4, Responded
<1>6. PICK p \in HeadPart : wbuffer'[s] = <<p>> /\ wbuffer'[s][1] = p /\ Len(wbuffer'[s]) = 1
  <2>1. PICK w \in Buffers : w = wbuffer'[s]
    BY <1>5
  <2>. QED  BY <1>4, <2>1, BufferOf
<1>7. HttpTypes /\ CoreInv
  BY DEF HttpInv
<1>8. PICK o \in Seq(Part) : o = out[c]
  BY <1>7 DEF HttpTypes
<1>9. /\ o \o <<p>> \in Seq(Part) /\ Headed(o \o <<p>>)
      /\ p.what = "header" => EndsInHeader(o \o <<p>>, p.file)
  BY <1>8, HeadedByOther DEF HttpInv, HeadPart
<1>10. out'[c] = o \o <<p>> /\ out' \in [Conn -> Seq(Part)]
       /\ \A d \in Conn \ {c} : out'[d] = out[d]
  BY <1>4, <1>6, <1>7, <1>8, <1>9 DEF HttpTypes
<1>11. SocketStep(fd)
  <2>1. inflight \in [Conn -> 0..SndBuf] /\ peer \in [Conn -> PeerStates]
    BY <1>7 DEF CoreInv, CoreTypeOK
  <2>2. inflight[c] + 1 \in 0..SndBuf
    BY <1>3, <1>4, <2>1, SocketAssumption DEF Room
  <2>3. inflight' = [inflight EXCEPT ![c] = inflight[c] + 1]
    BY <1>4, <1>6
  <2>. QED  BY <1>3, <1>4, <2>1, <2>2, <2>3 DEF SocketStep
<1>12. HttpTypes'
  BY <1>4, <1>5, <1>7, <1>10 DEF HttpTypes
<1>13. Own(c)
  <2>1. \A i \in 1..Len(rx'[c]) : \E j \in 1..Len(rx[c]) : rx'[c][i] = rx[c][j]
    BY <1>4
  <2>. QED  BY <1>3, <1>4, <1>9, <1>10, <2>1 DEF Own
<1>14. CASE issend'[s]
  <2>1. sending' = fd /\ UNCHANGED <<ev, interest>>
    BY <1>4, <1>14
  <2>2. CoreInv'
    <3>1. alive' \in BOOLEAN
      BY <1>4, <1>7 DEF CoreInv, CoreTypeOK
    <3>. QED  BY <1>3, <1>4, <1>7, <1>11, <2>1, <3>1, SocketsOnly
  <2>3. Others(fd, c)
    BY <1>3, <1>4, <1>5, <1>10, <2>1 DEF Others
  <2>4. LeftAt(fd)'
    BY <1>3, <1>4, <1>5 DEF LeftAt
  <2>5. PostAt(fd)'
    BY <1>4, <2>1 DEF HttpInv, PostAt, Answering, SaidOther
  <2>6. SendingInv'
    <3>1. resource'[s] \in File /\ EndsInHeader(out'[c], resource'[s])
      BY <1>4, <1>5, <1>6, <1>9, <1>10, <1>14
    <3>2. fdtab'[fd] = c /\ interest'[fd] # {} /\ \A a \in batch' : a.ptr # Slot(fd)
      BY <1>3, <1>4, <2>1 DEF DoneWith
    <3>3. sending' # 0
      BY <2>1, StdinAssumption
    <3>. QED  BY <1>3, <2>1, <3>1, <3>2, <3>3 DEF SendingInv, EndsInHeader
  <2>. QED  BY <1>4, <1>12, <1>13, <2>2, <2>3, <2>4, <2>5, <2>6, OwnRequest
<1>15. CASE ~issend'[s]
  <2>1. Rearm(fd, "recv_cb", {"IN"}) /\ sending' = 0
    BY <1>4, <1>15
  <2>2. CoreInv'
    <3>1. <<"recv_cb", {"IN"}>> \in Turns
      BY DEF Turns
    <3>. QED  BY <1>3, <1>4, <1>7, <1>11, <2>1, <3>1, RearmInPlace
  <2>3. ~Answering(fd)' /\ \A g \in Fd \ {fd} : ev'[Slot(g)] = ev[Slot(g)]
    BY <2>1, RearmBlock DEF Answering
  <2>4. Others(fd, c)
    BY <1>3, <1>4, <1>5, <1>10, <2>3 DEF Others
  <2>5. LeftAt(fd)' /\ PostAt(fd)' /\ SendingInv'
    BY <1>3, <1>4, <1>15, <2>1, <2>3 DEF HttpInv, LeftAt, PostAt, SendingInv
  <2>. QED  BY <1>4, <1>12, <1>13, <2>2, <2>4, <2>5, OwnRequest
<1>. QED  BY <1>14, <1>15

\* send() fails or has nothing to send, or SIGPIPE ends the process.
LEMMA SendOverKeeps ==
    ASSUME HttpInv, NEW b \in batch, sending = 0, NEW fd \in Fd,
           SendClose(b, fd) \/ SendKilled(b, fd), size' = size
    PROVE  HttpInv'
<1>1. Responding(b, fd)
  BY DEF SendClose, SendKilled
<1>2. PICK c \in Conn, s \in Slots : Callee(b, "send_cb", fd, c, s)
  BY <1>1, CallbackOf DEF Responding, Callee
<1>3. /\ s = Slot(fd) /\ c = fdtab[fd] /\ stage[c] = "accepted" /\ fd = ev[b.ptr].fd
      /\ \A g \in Fd \ {fd} : Slot(g) \in Slots \ {s}
      /\ batch' = batch \ {b} /\ ev[b.ptr].callback = "send_cb" /\ Answering(fd)
  BY <1>2 DEF Callee, Answering
<1>4. /\ http_response(s) /\ UNCHANGED <<inflight, sending, out>>
      /\ UNCHANGED <<backlog, peer, rx, blkcnt, method, resource, copied, said>>
      /\ \/ /\ peer[c] \in {"reset", "timeout"} \/ wbuffer'[s] = <<>>
            /\ DelAndClose(fd) /\ alive' = alive
         \/ alive' = FALSE /\ UNCHANGED <<fdtab, stage, interest, ev>>
  BY <1>3 DEF SendClose, SendKilled, Responding
<1>5. /\ wbuffer' \in [Slots -> Buffers] /\ issend' \in [Slots -> BOOLEAN]
      /\ \A t \in Slots \ {s} : wbuffer'[t] = wbuffer[t] /\ issend'[t] = issend[t]
      /\ issend'[s] => /\ resource[s] \in File /\ wbuffer'[s] # <<>>
                       /\ wbuffer'[s][1].what = "header" /\ wbuffer'[s][1].file = resource[s]
      /\ wbuffer'[s] = <<>> => method[s] = "POST"
  BY <1>3, <1>4, Responded
<1>6. HttpTypes /\ CoreInv
  BY DEF HttpInv
<1>7. HttpTypes' /\ SendingInv' /\ LeftAt(fd)'
  BY <1>3, <1>4, <1>5, <1>6 DEF HttpInv, HttpTypes, SendingInv, LeftAt
<1>8. /\ Headed(out'[c])
      /\ \A i \in 1..Len(rx'[c]) : \E j \in 1..Len(rx[c]) : rx'[c][i] = rx[c][j]
  BY <1>4 DEF HttpInv
<1>9. method[s] = "POST" => SaidOther(c)
  BY <1>3, ConnAssumption DEF HttpInv, PostAt
<1>10. CASE DelAndClose(fd) /\ alive' = alive /\ (peer[c] \in {"reset", "timeout"} \/ wbuffer'[s] = <<>>)
  <2>1. CoreInv'
    BY <1>3, <1>4, <1>6, <1>10, DelAndCloseKeeps
  <2>2. /\ fdtab \in [Fd -> Conn \cup {NoConn}] /\ stage \in [Conn -> Stages]
        /\ ~Answering(fd)' /\ \A g \in Fd \ {fd} : ev'[Slot(g)] = ev[Slot(g)]
    BY <1>6, <1>10, DelBlock DEF CoreInv, CoreTypeOK, Answering
  <2>3. Others(fd, c)
    BY <1>3, <1>4, <1>5, <1>10, <2>2 DEF Others, DelAndClose
  <2>4. Own(c)
    BY <1>4, <1>5, <1>8, <1>9, <1>10 DEF Own
  <2>5. PostAt(fd)'
    BY <2>2 DEF PostAt
  <2>. QED  BY <1>4, <1>7, <2>1, <2>3, <2>4, <2>5, OwnRequest
<1>11. CASE alive' = FALSE /\ UNCHANGED <<fdtab, stage, interest, ev>>
  <2>1. CoreInv'
    BY <1>3, <1>4, <1>6, <1>11, DispatchOnlyKeeps
  <2>2. Others(fd, c)
    BY <1>3, <1>4, <1>5, <1>11 DEF Others
  <2>3. Own(c)
    BY <1>3, <1>8, <1>11 DEF Own
  <2>4. PostAt(fd)'
    BY <1>4, <1>11 DEF HttpInv, PostAt, Answering, SaidOther
  <2>. QED  BY <1>4, <1>7, <2>1, <2>2, <2>3, <2>4, OwnRequest
<1>. QED  BY <1>4, <1>10, <1>11
-----------------------------------------------------------------------------
(* The file behind the header *)

LEMMA FileDoneKeeps ==
    ASSUME HttpInv, sending # 0, NEW fd \in Fd, fd = sending, NEW c \in Conn, c = fdtab[fd],
           FileDone(fd), SocketStep(fd), size' = size,
           out' \in [Conn -> Seq(Part)], Headed(out'[c]), \A d \in Conn \ {c} : out'[d] = out[d]
    PROVE  HttpInv'
<1>1. PICK s \in Slots : s = Slot(fd)
  BY SlotsOf
<1>2. /\ issend' = [issend EXCEPT ![s] = FALSE] /\ sending' = 0 /\ copied' = FALSE
      /\ Rearm(fd, "recv_cb", {"IN"})
      /\ UNCHANGED <<fdtab, backlog, stage, rx, blkcnt, batch, alive,
                     method, resource, wbuffer, said>>
  BY <1>1 DEF FileDone
<1>3. HttpTypes /\ CoreInv /\ interest[fd] # {} /\ stage[c] = "accepted"
  BY DEF HttpInv, SendingInv, CoreInv, OneFdPerConn
<1>4. CoreInv'
  <2>1. <<"recv_cb", {"IN"}>> \in Turns
    BY DEF Turns
  <2>2. DoneWith(fd)
    BY <1>2 DEF HttpInv, SendingInv, DoneWith
  <2>. QED  BY <1>2, <1>3, <2>1, <2>2, RearmInPlace
<1>5. ~Answering(fd)' /\ \A g \in Fd \ {fd} : ev'[Slot(g)] = ev[Slot(g)]
  BY <1>2, RearmBlock DEF Answering
<1>6. issend' \in [Slots -> BOOLEAN] /\ ~issend'[s]
      /\ \A g \in Fd \ {fd} : issend'[Slot(g)] = issend[Slot(g)]
  BY <1>1, <1>2, <1>3, SlotsOf DEF HttpTypes
<1>7. Others(fd, c)
  BY <1>2, <1>5, <1>6 DEF Others, SocketStep
<1>8. Own(c)
  <2>1. \A i \in 1..Len(rx'[c]) : \E j \in 1..Len(rx[c]) : rx'[c][i] = rx[c][j]
    BY <1>2
  <2>. QED  BY <1>2, <1>3, <2>1 DEF Own
<1>9. HttpTypes' /\ SendingInv' /\ LeftAt(fd)' /\ PostAt(fd)'
  BY <1>1, <1>2, <1>3, <1>5, <1>6 DEF HttpTypes, SendingInv, LeftAt, PostAt
<1>. QED  BY <1>2, <1>4, <1>7, <1>8, <1>9, OwnRequest

LEMMA FileCopiedKeeps ==
    ASSUME HttpInv, sending # 0, NEW fd \in Fd, fd = sending, NEW c \in Conn, c = fdtab[fd],
           FileCopied, SocketStep(fd), size' = size,
           out' \in [Conn -> Seq(Part)], Headed(out'[c]), \A d \in Conn \ {c} : out'[d] = out[d]
    PROVE  HttpInv'
<1>1. /\ copied' = TRUE
      /\ UNCHANGED <<fdtab, interest, backlog, stage, rx, ev, blkcnt, batch, alive,
                     method, resource, wbuffer, issend, sending, said>>
  BY DEF FileCopied, reactorVars
<1>2. HttpTypes /\ CoreInv /\ stage[c] = "accepted"
  BY DEF HttpInv, CoreInv, OneFdPerConn
<1>3. CoreInv'
  <2>1. DoneWith(fd)
    BY <1>1 DEF HttpInv, SendingInv, DoneWith
  <2>2. alive' \in BOOLEAN
    BY <1>1, <1>2 DEF CoreInv, CoreTypeOK
  <2>. QED  BY <1>1, <1>2, <2>1, <2>2, SocketsOnly
<1>4. Others(fd, c)
  BY <1>1 DEF Others, SocketStep
<1>5. Own(c)
  <2>1. \A i \in 1..Len(rx'[c]) : \E j \in 1..Len(rx[c]) : rx'[c][i] = rx[c][j]
    BY <1>1
  <2>. QED  BY <1>1, <1>2, <2>1 DEF Own
<1>6. HttpTypes' /\ SendingInv'
  BY <1>1, <1>2 DEF HttpInv, HttpTypes, SendingInv
<1>7. LeftAt(fd)' /\ PostAt(fd)'
  BY <1>1 DEF HttpInv, LeftAt, PostAt, Answering, SaidOther
<1>. QED  BY <1>1, <1>3, <1>4, <1>5, <1>6, <1>7, OwnRequest

\* Parts for which there is room are a step of the socket.
LEMMA SentStep ==
    ASSUME HttpInv, NEW fd \in Fd, NEW c \in Conn, c = fdtab[fd], peer' = peer,
           NEW o \in Seq(Part), o = out[c], NEW t, Sent(c, t), Len(t) \in 0..Room(c),
           o \o t \in Seq(Part), Headed(o \o t)
    PROVE  /\ SocketStep(fd) /\ out' \in [Conn -> Seq(Part)] /\ Headed(out'[c])
           /\ \A d \in Conn \ {c} : out'[d] = out[d]
<1>1. out \in [Conn -> Seq(Part)] /\ inflight \in [Conn -> 0..SndBuf] /\ peer \in [Conn -> PeerStates]
  BY DEF HttpInv, CoreInv, CoreTypeOK, HttpTypes
<1>2. /\ out' = [out EXCEPT ![c] = o \o t]
      /\ inflight' = [inflight EXCEPT ![c] = inflight[c] + Len(t)]
  BY DEF Sent
<1>3. inflight[c] + Len(t) \in 0..SndBuf
  BY <1>1, SocketAssumption DEF Room
<1>4. SocketStep(fd)
  BY <1>1, <1>2, <1>3 DEF SocketStep
<1>. QED  BY <1>1, <1>2, <1>4

LEMMA SendFileKeeps ==
    ASSUME HttpInv, SendFile, size' = size
    PROVE  HttpInv'
<1>1. sending # 0 /\ sending \in Fd /\ fdtab[sending] \in Conn
  BY DEF SendFile, HttpInv, SendingInv
<1>2. PICK fd \in Fd, c \in Conn : fd = sending /\ c = fdtab[fd]
  BY <1>1
<1>3. PICK f \in File : f = resource[Slot(fd)] /\ EndsInHeader(out[c], f)
  BY <1>1, <1>2 DEF HttpInv, SendingInv, SendFile
<1>4. PICK n : n = Min2(Contents(f), Room(c))
  OBVIOUS
<1>5. Sent(c, [i \in 1..n |-> Unit(f)]) /\ peer' = peer /\ FileCopied
  BY <1>2, <1>3, <1>4 DEF SendFile, ToSend
<1>6. n \in 0..Room(c) /\ n \in Nat
  <2>1. Contents(f) \in Nat
    BY FileSizes, FileAssumption DEF HttpInv, HttpTypes
  <2>2. inflight[c] \in 0..SndBuf
    BY DEF HttpInv, CoreInv, CoreTypeOK
  <2>3. Room(c) \in Nat
    BY <2>2, SocketAssumption DEF Room
  <2>. QED  BY <1>4, <2>1, <2>3 DEF Min2
<1>7. PICK o \in Seq(Part) : o = out[c]
  BY DEF HttpInv, HttpTypes
<1>8. PICK t : t = [i \in 1..n |-> Unit(f)]
  OBVIOUS
<1>9. o \o t \in Seq(Part) /\ Headed(o \o t) /\ Len(t) = n
  <2>1. Headed(o) /\ EndsInHeader(o, f)
    BY <1>3, <1>7 DEF HttpInv
  <2>. QED  BY <1>6, <1>8, <2>1, HeadedByFile
<1>10. /\ SocketStep(fd) /\ out' \in [Conn -> Seq(Part)] /\ Headed(out'[c])
       /\ \A d \in Conn \ {c} : out'[d] = out[d]
  BY <1>2, <1>5, <1>6, <1>7, <1>8, <1>9, SentStep
<1>. QED  BY <1>1, <1>2, <1>5, <1>10, FileCopiedKeeps

LEMMA SendLineEndKeeps ==
    ASSUME HttpInv, SendLineEnd, size' = size
    PROVE  HttpInv'
<1>1. sending # 0 /\ sending \in Fd /\ fdtab[sending] \in Conn
  BY DEF SendLineEnd, HttpInv, SendingInv
<1>2. PICK fd \in Fd, c \in Conn : fd = sending /\ c = fdtab[fd]
  BY <1>1
<1>3. PICK t : t = IF Room(c) > 0 THEN <<LineEnd>> ELSE <<>>
  OBVIOUS
<1>4. Sent(c, t) /\ peer' = peer /\ FileDone(fd)
  BY <1>2, <1>3 DEF SendLineEnd
<1>5. PICK o \in Seq(Part) : o = out[c] /\ Headed(o)
  BY DEF HttpInv, HttpTypes
<1>6. Room(c) \in Nat
  <2>1. inflight[c] \in 0..SndBuf
    BY DEF HttpInv, CoreInv, CoreTypeOK
  <2>. QED  BY <2>1, SocketAssumption DEF Room
<1>7. o \o t \in Seq(Part) /\ Headed(o \o t) /\ Len(t) \in 0..Room(c)
  <2>1. CASE Room(c) > 0
    <3>1. t = <<LineEnd>> /\ LineEnd \in Part /\ LineEnd.what # "unit"
      BY <1>3, <2>1, PartsTyping
    <3>2. o \o t \in Seq(Part) /\ Headed(o \o t) /\ Len(t) = 1
      BY <1>5, <3>1, HeadedByOther
    <3>. QED  BY <1>6, <2>1, <3>2
  <2>2. CASE ~(Room(c) > 0)
    <3>1. t = <<>> /\ o \o t = o /\ Len(t) = 0
      BY <1>3, <2>2
    <3>. QED  BY <1>5, <1>6, <3>1
  <2>. QED  BY <2>1, <2>2
<1>8. /\ SocketStep(fd) /\ out' \in [Conn -> Seq(Part)] /\ Headed(out'[c])
      /\ \A d \in Conn \ {c} : out'[d] = out[d]
  BY <1>2, <1>4, <1>5, <1>7, SentStep
<1>. QED  BY <1>1, <1>2, <1>4, <1>8, FileDoneKeeps

LEMMA SendFileLateKeeps ==
    ASSUME HttpInv, SendFileLate, size' = size
    PROVE  HttpInv'
<1>1. sending # 0 /\ sending \in Fd /\ fdtab[sending] \in Conn
  BY DEF SendFileLate, HttpInv, SendingInv
<1>2. PICK fd \in Fd, c \in Conn : fd = sending /\ c = fdtab[fd]
  BY <1>1
<1>3. /\ peer' = [peer EXCEPT ![c] = "pipe"] /\ UNCHANGED <<out, inflight>>
      /\ FileCopied \/ FileDone(fd)
  BY <1>2 DEF SendFileLate
<1>4. /\ peer \in [Conn -> PeerStates] /\ inflight \in [Conn -> 0..SndBuf]
      /\ out' \in [Conn -> Seq(Part)] /\ Headed(out'[c])
  BY <1>3 DEF HttpInv, CoreInv, CoreTypeOK, HttpTypes
<1>5. SocketStep(fd)
  BY <1>2, <1>3, <1>4 DEF SocketStep, PeerStates
<1>. QED  BY <1>1, <1>2, <1>3, <1>4, <1>5, FileCopiedKeeps, FileDoneKeeps

LEMMA SendFileKilledKeeps ==
    ASSUME HttpInv, SendFileKilled, size' = size
    PROVE  HttpInv'
<1>1. /\ alive' = FALSE
      /\ UNCHANGED <<fdtab, interest, backlog, stage, peer, rx, inflight, ev, blkcnt, batch,
                     httpVars, said, out>>
  BY DEF SendFileKilled, kernelVars
<1>2. sending \in Fd /\ fdtab[sending] \in Conn
  BY DEF SendFileKilled, HttpInv, SendingInv
<1>3. PICK fd \in Fd : fd = sending /\ fdtab[fd] \in Conn
  BY <1>2
<1>4. DoneWith(fd) /\ SocketStep(fd) /\ CoreInv
  BY <1>1, <1>3 DEF SendFileKilled, HttpInv, SendingInv, DoneWith, SocketStep, CoreInv, CoreTypeOK
<1>5. CoreInv'
  BY <1>1, <1>3, <1>4, SocketsOnly
<1>6. size' \in [File -> Sizes]
  BY DEF HttpInv, HttpTypes
<1>. QED  BY <1>1, <1>5, <1>6, QuietKeeps

-----------------------------------------------------------------------------
LEMMA HttpStep == HttpInv /\ [Next]_vars => HttpInv'
<1>. SUFFICES ASSUME HttpInv, [Next]_vars PROVE HttpInv'
  OBVIOUS
<1>1. CASE UNCHANGED vars \/ Idle
  <2>1. UNCHANGED coreVars /\ UNCHANGED <<httpVars, size, said, out>>
    BY <1>1 DEF vars, Idle, EpollTimeout
  <2>2. CoreInv' /\ size' \in [File -> Sizes]
    BY <2>1, StutterKeeps DEF HttpInv, HttpTypes
  <2>. QED  BY <2>1, <2>2, QuietKeeps DEF coreVars, kernelVars, reactorVars
<1>2. ASSUME NEW c \in Conn, Client(c) PROVE HttpInv'
  BY <1>2, ClientSayKeeps, ClientMoveKeeps DEF Client, ClientSay
<1>3. ASSUME NEW f \in File, NEW n \in Sizes, Edit(f, n) PROVE HttpInv'
  BY <1>3, EditKeeps
<1>4. CASE Server
  <2>1. size' = size
    BY <1>4 DEF Server
  <2>2. CASE sending = 0 /\ EpollWait /\ UNCHANGED <<httpVars, said, out>>
    <3>1. CoreInv' /\ size' \in [File -> Sizes]
      BY <2>1, <2>2, EpollWaitKeeps DEF HttpInv, HttpTypes
    <3>. QED  BY <2>2, <3>1, QuietKeeps DEF EpollWait, kernelVars
  <2>3. ASSUME NEW b \in batch, sending = 0, accept_cb(b), UNCHANGED <<httpVars, said, out>>
        PROVE  HttpInv'
    BY <2>1, <2>3, AcceptKeepsHttp
  <2>4. ASSUME NEW b \in batch, sending = 0, recv_cb(b) PROVE HttpInv'
    BY <2>1, <2>4, RecvDataKeeps, RecvOverKeeps DEF recv_cb
  <2>5. ASSUME NEW b \in batch, sending = 0, send_cb(b) PROVE HttpInv'
    BY <2>1, <2>5, SendHeadKeeps, SendOverKeeps DEF send_cb
  <2>6. CASE SendFile \/ SendLineEnd \/ SendFileLate \/ SendFileKilled
    BY <2>1, <2>6, SendFileKeeps, SendLineEndKeeps, SendFileLateKeeps, SendFileKilledKeeps
  <2>. QED  BY <1>4, <2>2, <2>3, <2>4, <2>5, <2>6 DEF Server
<1>. QED  BY <1>1, <1>2, <1>3, <1>4 DEF Next

LEMMA HttpInvariant == Spec => []HttpInv
  BY HttpInit, HttpStep, PTL DEF Spec

\* The contents of a file come behind a header of that file, whatever the size
\* of the files, who edits them and which answers the control block kept.
THEOREM HttpUnitsUnderHeader == Spec => []UnitsUnderHeader
<1>1. HttpInv => UnitsUnderHeader
  BY DEF HttpInv, UnitsUnderHeader, Headed
<1>. QED  BY <1>1, HttpInvariant, PTL

\* A client that sent nothing but GET is never hung up on while it is there,
\* whatever method and answer the last user of the block left.
THEOREM HttpHangsUpOnPostOnly == Spec => []HangsUpOnPostOnly
<1>1. HttpInv => HangsUpOnPostOnly
  BY DEF HttpInv
<1>. QED  BY <1>1, HttpInvariant, PTL

-----------------------------------------------------------------------------
(* The whole conversation of a client that waits *)

\* The units of a file go into the send buffer behind a header, and a line end.
FilesFit == MaxSize + 2 <= SndBuf

\* Answer, for the sizes sz of the files: what comes before the line end, and all.
SizeOf(sz, f) == IF f \in Directory \/ sz[f] = Missing THEN 0 ELSE sz[f]

Body(sz, r) == <<Header(r.path, sz[r.path])>> \o [i \in 1..SizeOf(sz, r.path) |-> Unit(r.path)]

AnswerOf(sz, r) ==
    IF sz[r.path] = Missing THEN <<NotFound>> ELSE Body(sz, r) \o <<LineEnd>>

\* InTurn for the sizes sz; when whole, so is the last answer.
Served(sz, o, asked, whole) ==
    \E cut \in [0..Len(asked) -> 0..Len(o)] :
        /\ cut[0] = 0 /\ cut[Len(asked)] = Len(o)
        /\ \A k \in 1..Len(asked) :
              /\ cut[k] - cut[k - 1] \in 0..Len(AnswerOf(sz, asked[k]))
              /\ cut[k] - cut[k - 1] = Len(AnswerOf(sz, asked[k])) \/ (~whole /\ cut[k] = Len(o))
              /\ \A i \in 1..(cut[k] - cut[k - 1]) : o[cut[k - 1] + i] = AnswerOf(sz, asked[k])[i]

\* Where the answers begin in o.
Begins(o) == {i \in 1..Len(o) : o[i].what \in {"header", "404"}}

Busy(fd, c) == fdtab[fd] = c /\ (Answering(fd) \/ sending = fd)

\* Every request of c was answered, and none is on the way.
Rested(c) ==
    /\ Served(size, out[c], said[c], TRUE) /\ Cardinality(Begins(out[c])) = Len(said[c])
    /\ rx[c] = <<>> /\ \A fd \in Fd : ~Busy(fd, c)

\* The last request of c, r, was received, or is the one its control block holds.
Awaits(c) ==
    \E a \in Seq(Request), r \in Request :
        /\ said[c] = Append(a, r) /\ Served(size, out[c], a, TRUE)
        /\ Cardinality(Begins(out[c])) = Len(a) /\ inflight[c] = 0
        /\ \/ rx[c] = <<r>> /\ \A fd \in Fd : ~Busy(fd, c)
           \/ /\ rx[c] = <<>>
              /\ \A fd \in Fd : Busy(fd, c) =>
                    /\ sending # fd /\ method[Slot(fd)] = "GET" /\ resource[Slot(fd)] = r.path

\* How far send_cb is with the answer to r: p was sent.
PartWay(c, r, p) ==
    \/ ~copied /\ p = <<Header(r.path, size[r.path])>>
    \/ copied /\ p = Body(size, r)
    \/ copied /\ p = <<Header(r.path, size[r.path])>> /\ peer[c] = "pipe"

\* The header of the last request was sent, and its file or the line end comes next.
HalfAnswered(c) ==
    \E a \in Seq(Request), r \in Request, o \in Seq(Part), p \in Seq(Part) :
        /\ said[c] = Append(a, r) /\ Served(size, o, a, TRUE)
        /\ Cardinality(Begins(o)) = Len(a)
        /\ size[r.path] # Missing /\ out[c] = o \o p /\ PartWay(c, r, p)
        /\ rx[c] = <<>> /\ inflight[c] <= Len(p)
        /\ sending \in Fd /\ fdtab[sending] = c /\ resource[Slot(sending)] = r.path

\* The connection ended before the last answer was whole.
CutShort(c) ==
    /\ Served(size, out[c], said[c], FALSE)
    /\ stage[c] = "closed" \/ peer[c] # "open"
    /\ rx[c] = <<>> /\ \A fd \in Fd : ~Busy(fd, c)

\* A client that waits and asks for files nobody edits.
Patient(c) == c \notin Hasty /\ \A i \in 1..Len(said[c]) : Unedited(said[c][i])

Turn(c) == Rested(c) \/ Awaits(c) \/ HalfAnswered(c) \/ CutShort(c)

TurnInv == \A c \in Conn : Patient(c) => Turn(c)

-----------------------------------------------------------------------------
(* Answers in a sequence of parts *)

LEMMA PartsAssociative ==
    ASSUME NEW s \in Seq(Part), NEW t \in Seq(Part), NEW u \in Seq(Part)
    PROVE  (s \o t) \o u = s \o (t \o u)
  BY ConcatAssociative

\* A header x, units y and a line end z behind o, in the ways they are grouped.
Grouped(o, x, y, z, all) ==
    all \in Seq(Part) /\ all = o \o ((x \o y) \o z)
    /\ all = (o \o x) \o (y \o z) /\ all = (o \o (x \o y)) \o z

LEMMA PartsGrouped ==
    ASSUME NEW o \in Seq(Part), NEW x \in Seq(Part), NEW y \in Seq(Part), NEW z \in Seq(Part)
    PROVE  \E all : Grouped(o, x, y, z, all)
<1>1. x \o y \in Seq(Part)
  OBVIOUS
<1>2. o \o ((x \o y) \o z) = (o \o (x \o y)) \o z
  <2>. SUFFICES ASSUME NEW b \in Seq(Part)
                PROVE  o \o (b \o z) = (o \o b) \o z
    BY <1>1
  <2>. QED  BY PartsAssociative, ZenonT(60)
<1>3. PICK a \in Seq(Part) : a = o \o x
  <2>1. o \o x \in Seq(Part)
    OBVIOUS
  <2>. QED  BY <2>1
<1>4. a \o (y \o z) = (a \o y) \o z
  BY PartsAssociative, Zenon
<1>5. a \o y = o \o (x \o y)
  BY <1>3, PartsAssociative, SMTT(30)
<1>6. o \o ((x \o y) \o z) \in Seq(Part)
  BY <1>1
<1>. QED  BY <1>2, <1>3, <1>4, <1>5, <1>6 DEF Grouped

\* r asks for a file.
LEMMA BodyParts ==
    ASSUME NEW sz \in [File -> Sizes], NEW r \in Request, r.method = "GET", sz[r.path] # Missing
    PROVE  \E t \in Seq(Part) :
              /\ t = [i \in 1..SizeOf(sz, r.path) |-> Unit(r.path)]
              /\ Len(t) = SizeOf(sz, r.path) /\ SizeOf(sz, r.path) \in 0..MaxSize
              /\ \A i \in 1..Len(t) : t[i].what = "unit"
              /\ Header(r.path, sz[r.path]) \in HeadPart /\ Header(r.path, sz[r.path]) \in Part
              /\ Body(sz, r) = <<Header(r.path, sz[r.path])>> \o t
<1>1. PICK f \in File : f = r.path
  BY DEF Request
<1>2. 0 \in 0..MaxSize /\ sz[f] \in 0..MaxSize
  BY <1>1, FileSizes, FileAssumption
<1>3. PICK n \in 0..MaxSize : n = SizeOf(sz, f)
  BY <1>2 DEF SizeOf
<1>4. n \in Nat /\ Unit(f) \in Part /\ Unit(f).what = "unit" /\ Header(f, sz[f]) \in HeadPart
  BY <1>2, PartsTyping
<1>5. PICK t \in Seq(Part) : t = [i \in 1..n |-> Unit(f)] /\ Len(t) = n /\ \A i \in 1..n : t[i] = Unit(f)
  <2>. DEFINE u == [i \in 1..n |-> Unit(f)]
  <2>1. u \in Seq(Part) /\ Len(u) = n /\ \A i \in 1..n : u[i] = Unit(f)
    BY <1>4
  <2>. QED  BY <2>1
<1>6. Body(sz, r) = <<Header(f, sz[f])>> \o t
  BY <1>1, <1>3, <1>5 DEF Body
<1>. QED  BY <1>1, <1>3, <1>4, <1>5, <1>6 DEF HeadPart

LEMMA AnswerParts ==
    ASSUME NEW sz \in [File -> Sizes], NEW r \in Request, r.method = "GET"
    PROVE  /\ AnswerOf(sz, r) \in Seq(Part)
           /\ sz[r.path] = Missing => AnswerOf(sz, r) = <<NotFound>>
           /\ sz[r.path] # Missing =>
                 /\ Body(sz, r) \in Seq(Part) /\ Len(Body(sz, r)) = SizeOf(sz, r.path) + 1
                 /\ SizeOf(sz, r.path) \in 0..MaxSize
                 /\ Body(sz, r)[1] = Header(r.path, sz[r.path])
                 /\ AnswerOf(sz, r) = Body(sz, r) \o <<LineEnd>>
                 /\ Len(AnswerOf(sz, r)) = SizeOf(sz, r.path) + 2
                 /\ \A i \in 1..Len(Body(sz, r)) : AnswerOf(sz, r)[i] = Body(sz, r)[i]
<1>1. CASE sz[r.path] = Missing
  <2>1. NotFound \in Part
    BY PartsTyping DEF HeadPart
  <2>. QED  BY <1>1, <2>1 DEF AnswerOf
<1>2. CASE sz[r.path] # Missing
  <2>1. PICK h \in Part, t \in Seq(Part), n \in 0..MaxSize :
          /\ h = Header(r.path, sz[r.path]) /\ n = SizeOf(sz, r.path) /\ Len(t) = n
          /\ Body(sz, r) = <<h>> \o t
    BY <1>2, BodyParts
  <2>2. n \in Nat /\ LineEnd \in Part
    BY FileAssumption, PartsTyping
  <2>3. PICK b \in Seq(Part) : b = <<h>> \o t /\ Len(b) = n + 1 /\ b[1] = h
    <3>1. <<h>> \o t \in Seq(Part) /\ Len(<<h>> \o t) = n + 1 /\ (<<h>> \o t)[1] = h
      BY <2>1, <2>2
    <3>. QED  BY <3>1
  <2>4. /\ b \o <<LineEnd>> \in Seq(Part) /\ Len(b \o <<LineEnd>>) = n + 2
        /\ \A i \in 1..Len(b) : (b \o <<LineEnd>>)[i] = b[i]
    BY <2>2, <2>3
  <2>5. AnswerOf(sz, r) = b \o <<LineEnd>>
    BY <1>2, <2>1, <2>3 DEF AnswerOf
  <2>. QED  BY <1>2, <2>1, <2>3, <2>4, <2>5
<1>. QED  BY <1>1, <1>2

\* What was sent of the answer to r begins it.
LEMMA PartWayBegins ==
    ASSUME NEW sz \in [File -> Sizes], NEW r \in Request, r.method = "GET", sz[r.path] # Missing,
           NEW p \in Seq(Part), p = <<Header(r.path, sz[r.path])>> \/ p = Body(sz, r)
    PROVE  /\ AnswerOf(sz, r) \in Seq(Part) /\ Len(p) <= Len(AnswerOf(sz, r))
           /\ \A i \in 1..Len(p) : p[i] = AnswerOf(sz, r)[i]
<1>1. PICK w \in Seq(Part), b \in Seq(Part), n \in 0..MaxSize :
        /\ w = AnswerOf(sz, r) /\ b = Body(sz, r) /\ Len(b) = n + 1 /\ Len(w) = n + 2
        /\ b[1] = Header(r.path, sz[r.path]) /\ \A i \in 1..Len(b) : w[i] = b[i]
  BY AnswerParts
<1>2. n \in Nat
  BY FileAssumption
<1>3. CASE p = b
  BY <1>1, <1>2, <1>3
<1>4. CASE p = <<b[1]>>
  <2>1. 1 \in 1..Len(b) /\ b[1] \in Part
    BY <1>1, <1>2
  <2>2. Len(p) = 1 /\ p[1] = b[1] /\ w[1] = b[1]
    BY <1>1, <1>4, <2>1
  <2>. QED  BY <1>1, <1>2, <2>2
<1>. QED  BY <1>1, <1>3, <1>4

\* Parts that begin the answer to r follow the answers to the requests before it.
LEMMA ServedMore ==
    ASSUME NEW sz, NEW o \in Seq(Part), NEW a \in Seq(Request), Served(sz, o, a, TRUE),
           NEW r \in Request, NEW p \in Seq(Part), NEW whole \in BOOLEAN,
           AnswerOf(sz, r) \in Seq(Part), Len(p) <= Len(AnswerOf(sz, r)),
           \A i \in 1..Len(p) : p[i] = AnswerOf(sz, r)[i],
           whole => Len(p) = Len(AnswerOf(sz, r))
    PROVE  Served(sz, o \o p, Append(a, r), whole)
<1>1. PICK cut \in [0..Len(a) -> 0..Len(o)] :
         /\ cut[0] = 0 /\ cut[Len(a)] = Len(o)
         /\ \A k \in 1..Len(a) :
               /\ cut[k] - cut[k - 1] \in 0..Len(AnswerOf(sz, a[k]))
               /\ cut[k] - cut[k - 1] = Len(AnswerOf(sz, a[k]))
               /\ \A i \in 1..(cut[k] - cut[k - 1]) :
                     o[cut[k - 1] + i] = AnswerOf(sz, a[k])[i]
  BY DEF Served
<1>2. PICK m \in Nat, n \in Nat, l \in Nat, q \in Nat :
         m = Len(a) /\ n = Len(o) /\ l = Len(p) /\ q = Len(AnswerOf(sz, r))
  OBVIOUS
<1>0. cut \in [0..m -> 0..n] /\ cut[0] = 0 /\ cut[m] = n
  BY <1>1, <1>2
<1>3. /\ Append(a, r) \in Seq(Request) /\ Len(Append(a, r)) = m + 1 /\ Append(a, r)[m + 1] = r
      /\ \A k \in 1..m : Append(a, r)[k] = a[k]
  BY <1>2
<1>4. /\ o \o p \in Seq(Part) /\ Len(o \o p) = n + l
      /\ \A i \in 1..n : (o \o p)[i] = o[i]
      /\ \A i \in 1..l : (o \o p)[n + i] = p[i]
  BY <1>2
<1>. DEFINE new == [k \in 0..(m + 1) |-> IF k = m + 1 THEN n + l ELSE cut[k]]
<1>5. /\ new \in [0..(m + 1) -> 0..(n + l)] /\ new[m + 1] = n + l /\ \A k \in 0..m : new[k] = cut[k]
      /\ \A k \in 0..m : cut[k] \in 0..n
  <2>1. \A k \in 0..m : cut[k] \in 0..n /\ k # m + 1
    BY <1>0
  <2>2. \A k \in 0..(m + 1) : k = m + 1 \/ k \in 0..m
    OBVIOUS
  <2>3. n + l \in 0..(n + l) /\ \A x \in 0..n : x \in 0..(n + l)
    OBVIOUS
  <2>. QED  BY <2>1, <2>2, <2>3
<1>. HIDE DEF new
<1>6. ASSUME NEW k \in 1..m
      PROVE  /\ new[k] - new[k - 1] \in 0..Len(AnswerOf(sz, Append(a, r)[k]))
             /\ new[k] - new[k - 1] = Len(AnswerOf(sz, Append(a, r)[k]))
             /\ \A i \in 1..(new[k] - new[k - 1]) :
                   (o \o p)[new[k - 1] + i] = AnswerOf(sz, Append(a, r)[k])[i]
  <2>1. k \in 0..m /\ k - 1 \in 0..m /\ k \in 1..Len(a)
    BY <1>2, SMTT(30)
  <2>2. new[k] = cut[k] /\ new[k - 1] = cut[k - 1] /\ Append(a, r)[k] = a[k]
        /\ cut[k] \in 0..n /\ cut[k - 1] \in 0..n
    BY <1>3, <1>5, <2>1
  <2>3. PICK u \in 0..n, v \in 0..n : u = cut[k - 1] /\ v = cut[k]
    BY <2>2
  <2>4. ASSUME NEW i \in 1..(v - u)
        PROVE  (o \o p)[u + i] = AnswerOf(sz, a[k])[i]
    <3>1. u + i \in 1..n
      <4>1. u \in Int /\ v \in Int /\ n \in Int /\ i \in Int /\ 0 <= u /\ v <= n /\ 1 <= i /\ i <= v - u
        BY <2>3
      <4>. QED  BY <4>1
    <3>2. o[u + i] = AnswerOf(sz, a[k])[i]
      BY <1>1, <2>1, <2>3
    <3>. QED  BY <1>4, <3>1, <3>2
  <2>. QED  BY <1>1, <2>1, <2>2, <2>3, <2>4
<1>7. /\ new[m + 1] - new[m] \in 0..q
      /\ new[m + 1] - new[m] = q \/ (~whole /\ new[m + 1] = n + l)
      /\ \A i \in 1..(new[m + 1] - new[m]) : (o \o p)[new[m] + i] = AnswerOf(sz, r)[i]
  <2>1. new[m] = n /\ new[m + 1] = n + l
    BY <1>0, <1>5
  <2>2. new[m + 1] - new[m] = l
    BY <1>2, <2>1
  <2>3. l \in 0..q /\ (whole => l = q)
    BY <1>2
  <2>4. \A i \in 1..l : (o \o p)[n + i] = AnswerOf(sz, r)[i]
    BY <1>2, <1>4
  <2>. QED  BY <2>1, <2>2, <2>3, <2>4
<1>8. new[0] = 0
  BY <1>0, <1>5
<1>9. \A k \in 1..(m + 1) : k = m + 1 \/ k \in 1..m
  BY <1>2
<1>10. /\ new \in [0..Len(Append(a, r)) -> 0..Len(o \o p)]
       /\ new[0] = 0 /\ new[Len(Append(a, r))] = Len(o \o p)
  BY <1>3, <1>4, <1>5, <1>8
<1>11. ASSUME NEW k \in 1..Len(Append(a, r))
       PROVE  /\ new[k] - new[k - 1] \in 0..Len(AnswerOf(sz, Append(a, r)[k]))
              /\ \/ new[k] - new[k - 1] = Len(AnswerOf(sz, Append(a, r)[k]))
                 \/ ~whole /\ new[k] = Len(o \o p)
              /\ \A i \in 1..(new[k] - new[k - 1]) :
                    (o \o p)[new[k - 1] + i] = AnswerOf(sz, Append(a, r)[k])[i]
  <2>1. CASE k \in 1..m
    BY <1>6, <2>1
  <2>2. CASE k = m + 1
    <3>1. new[k] = new[m + 1] /\ new[k - 1] = new[m] /\ Append(a, r)[k] = r
      BY <1>3, <2>2
    <3>2. Len(AnswerOf(sz, Append(a, r)[k])) = q /\ Len(o \o p) = n + l
      BY <1>2, <1>4, <3>1
    <3>3. \A i \in 1..(new[k] - new[k - 1]) :
            (o \o p)[new[k - 1] + i] = AnswerOf(sz, Append(a, r)[k])[i]
      BY <1>7, <3>1, Zenon
    <3>4. new[k] - new[k - 1] \in 0..q
          /\ (new[k] - new[k - 1] = q \/ (~whole /\ new[k] = n + l))
      BY <1>7, <3>1, Zenon
    <3>. QED  BY <3>2, <3>3, <3>4, Zenon
  <2>. QED  BY <1>3, <1>9, <2>1, <2>2
<1>. QED  BY <1>10, <1>11 DEF Served

LEMMA ServedKept ==
    ASSUME NEW sz, NEW sz2, NEW o, NEW a \in Seq(Request), NEW whole \in BOOLEAN,
           Served(sz, o, a, whole),
           \A k \in 1..Len(a) : AnswerOf(sz2, a[k]) = AnswerOf(sz, a[k])
    PROVE  Served(sz2, o, a, whole)
<1>1. PICK cut \in [0..Len(a) -> 0..Len(o)] :
         /\ cut[0] = 0 /\ cut[Len(a)] = Len(o)
         /\ \A k \in 1..Len(a) :
               /\ cut[k] - cut[k - 1] \in 0..Len(AnswerOf(sz, a[k]))
               /\ cut[k] - cut[k - 1] = Len(AnswerOf(sz, a[k])) \/ (~whole /\ cut[k] = Len(o))
               /\ \A i \in 1..(cut[k] - cut[k - 1]) : o[cut[k - 1] + i] = AnswerOf(sz, a[k])[i]
  BY Zenon DEF Served
<1>2. ASSUME NEW k \in 1..Len(a)
      PROVE  /\ cut[k] - cut[k - 1] \in 0..Len(AnswerOf(sz2, a[k]))
             /\ cut[k] - cut[k - 1] = Len(AnswerOf(sz2, a[k])) \/ (~whole /\ cut[k] = Len(o))
             /\ \A i \in 1..(cut[k] - cut[k - 1]) : o[cut[k - 1] + i] = AnswerOf(sz2, a[k])[i]
  <2>1. AnswerOf(sz2, a[k]) = AnswerOf(sz, a[k])
    OBVIOUS
  <2>. QED  BY <1>1, <2>1, Zenon
<1>. QED  BY <1>1, <1>2, Zenon DEF Served

LEMMA BeginsMore ==
    ASSUME NEW o \in Seq(Part), NEW p \in HeadPart
    PROVE  Cardinality(Begins(o \o <<p>>)) = Cardinality(Begins(o)) + 1
<1>1. PICK n \in Nat : n = Len(o)
  OBVIOUS
<1>2. p \in Part /\ p.what \in {"header", "404"}
  BY DEF HeadPart
<1>3. /\ Len(o \o <<p>>) = n + 1 /\ (o \o <<p>>)[n + 1] = p
      /\ \A i \in 1..n : (o \o <<p>>)[i] = o[i]
  BY <1>1, <1>2
<1>4. Begins(o \o <<p>>) = Begins(o) \cup {n + 1}
  <2>1. \A i : i \in 1..(n + 1) <=> i \in 1..n \/ i = n + 1
    BY <1>1
  <2>. QED  BY <1>1, <1>2, <1>3, <2>1 DEF Begins
<1>5. n + 1 \notin Begins(o)
  BY <1>1 DEF Begins
<1>6. IsFiniteSet(Begins(o))
  <2>1. IsFiniteSet(1..n)
    BY <1>1, FS_Interval
  <2>2. Begins(o) \in SUBSET (1..n)
    BY <1>1 DEF Begins
  <2>. QED  BY <2>1, <2>2, FS_Subset
<1>. QED  BY <1>4, <1>5, <1>6, FS_AddElement

LEMMA BeginsSame ==
    ASSUME NEW o \in Seq(Part), NEW t \in Seq(Part),
           \A i \in 1..Len(t) : t[i].what \notin {"header", "404"}
    PROVE  Begins(o \o t) = Begins(o)
<1>1. PICK n \in Nat, l \in Nat : n = Len(o) /\ l = Len(t)
  OBVIOUS
<1>2. /\ Len(o \o t) = n + l
      /\ \A i \in 1..n : (o \o t)[i] = o[i]
      /\ \A i \in 1..l : (o \o t)[n + i] = t[i]
  BY <1>1
<1>3. ASSUME NEW i \in 1..(n + l), i \notin 1..n
      PROVE  (o \o t)[i].what \notin {"header", "404"}
  <2>1. i - n \in 1..l /\ n + (i - n) = i
    BY <1>1, <1>3
  <2>2. (o \o t)[i] = t[i - n]
    BY <1>2, <2>1
  <2>. QED  BY <1>1, <2>1, <2>2
<1>4. \A i : i \in 1..n => i \in 1..(n + l)
  BY <1>1
<1>. QED  BY <1>1, <1>2, <1>3, <1>4 DEF Begins

-----------------------------------------------------------------------------
(* Steps of others *)

\* The answers to the requests of a patient client, for files that stay.
LEMMA SameAnswers ==
    ASSUME NEW a \in Seq(Request), \A k \in 1..Len(a) : Unedited(a[k]),
           \A f \in File \ Edited : size'[f] = size[f]
    PROVE  \A k \in 1..Len(a) : AnswerOf(size', a[k]) = AnswerOf(size, a[k])
<1>1. ASSUME NEW k \in 1..Len(a) PROVE AnswerOf(size', a[k]) = AnswerOf(size, a[k])
  <2>1. PICK r \in Request : r = a[k]
    OBVIOUS
  <2>2. r.path \in File \ Edited
    BY <2>1 DEF Request, Unedited
  <2>3. size'[r.path] = size[r.path]
    BY <2>2
  <2>. QED  BY <2>1, <2>3 DEF AnswerOf, Body, SizeOf
<1>. QED  BY <1>1

\* The requests before the last one.
LEMMA LastAsked ==
    ASSUME HttpInv, NEW c \in Conn, Patient(c), NEW a \in Seq(Request), NEW r \in Request,
           said[c] = Append(a, r)
    PROVE  /\ \A k \in 1..Len(a) : Unedited(a[k])
           /\ Unedited(r) /\ r.path \in File \ Edited
           /\ Len(said[c]) = Len(a) + 1
<1>1. PICK m \in Nat : m = Len(a)
  OBVIOUS
<1>2. /\ Len(Append(a, r)) = m + 1 /\ Append(a, r)[m + 1] = r
      /\ \A k \in 1..m : Append(a, r)[k] = a[k]
  BY <1>1
<1>3. \A k \in 1..(m + 1) : Unedited(Append(a, r)[k])
  BY <1>2 DEF Patient
<1>4. Unedited(r) /\ \A k \in 1..m : Unedited(a[k])
  BY <1>1, <1>2, <1>3
<1>. QED  BY <1>1, <1>2, <1>4 DEF Unedited, Request

\* What may happen to a client while its turn stays what it is.
Undisturbed(c) ==
    /\ said'[c] = said[c] /\ out'[c] = out[c] /\ rx'[c] = rx[c]
    /\ inflight'[c] \in Nat /\ inflight'[c] <= inflight[c]
    /\ stage[c] = "closed" \/ peer[c] # "open" => stage'[c] = "closed" \/ peer'[c] # "open"
    /\ peer[c] = "pipe" => peer'[c] = "pipe"
    /\ \A f \in File \ Edited : size'[f] = size[f]
    /\ \A fd \in Fd : Busy(fd, c)' <=> Busy(fd, c)
    /\ \A fd \in Fd : Busy(fd, c) =>
          /\ method'[Slot(fd)] = method[Slot(fd)] /\ resource'[Slot(fd)] = resource[Slot(fd)]
          /\ sending' = fd <=> sending = fd
          /\ sending = fd => copied' = copied

LEMMA TurnKept ==
    ASSUME HttpInv, NEW c \in Conn, Patient(c), Turn(c), Undisturbed(c)
    PROVE  Turn(c)'
<1>1. HttpTypes /\ inflight[c] \in Nat
  BY DEF HttpInv, CoreInv, CoreTypeOK
<1>2. PICK y \in Seq(Request) : y = said[c] /\ y = said'[c]
  BY <1>1 DEF HttpTypes, Undisturbed
<1>3. PICK z \in Seq(Part) : z = out[c] /\ z = out'[c]
  BY <1>1 DEF HttpTypes, Undisturbed
<1>4. ASSUME NEW whole \in BOOLEAN, Served(size, z, y, whole) PROVE Served(size', z, y, whole)
  <2>1. \A k \in 1..Len(y) : Unedited(y[k])
    BY <1>2 DEF Patient
  <2>. QED  BY <1>4, <2>1, SameAnswers, ServedKept DEF Undisturbed
<1>5. CASE Rested(c)
  <2>1. Served(size', z, y, TRUE) /\ Cardinality(Begins(z)) = Len(y)
    BY <1>2, <1>3, <1>4, <1>5 DEF Rested
  <2>2. rx'[c] = <<>> /\ \A fd \in Fd : ~Busy(fd, c)'
    BY <1>5 DEF Rested, Undisturbed
  <2>3. Rested(c)'
    BY <1>2, <1>3, <2>1, <2>2 DEF Rested, Begins
  <2>. QED  BY <2>3 DEF Turn
<1>6. CASE CutShort(c)
  <2>1. Served(size', z, y, FALSE)
    BY <1>2, <1>3, <1>4, <1>6 DEF CutShort
  <2>2. CutShort(c)'
    BY <1>2, <1>3, <1>6, <2>1 DEF CutShort, Undisturbed
  <2>. QED  BY <2>2 DEF Turn
<1>7. CASE Awaits(c)
  <2>1. PICK a \in Seq(Request), r \in Request :
          /\ y = Append(a, r) /\ Served(size, z, a, TRUE)
          /\ Cardinality(Begins(z)) = Len(a) /\ inflight[c] = 0
          /\ \/ rx[c] = <<r>> /\ \A fd \in Fd : ~Busy(fd, c)
             \/ /\ rx[c] = <<>>
                /\ \A fd \in Fd : Busy(fd, c) =>
                      /\ sending # fd /\ method[Slot(fd)] = "GET" /\ resource[Slot(fd)] = r.path
    BY <1>2, <1>3, <1>7 DEF Awaits
  <2>2. Served(size', z, a, TRUE)
    <3>1. \A k \in 1..Len(a) : Unedited(a[k])
      BY <1>2, <2>1, LastAsked
    <3>. QED  BY <2>1, <3>1, SameAnswers, ServedKept DEF Undisturbed
  <2>3. \/ rx'[c] = <<r>> /\ \A fd \in Fd : ~Busy(fd, c)'
        \/ /\ rx'[c] = <<>>
           /\ \A fd \in Fd : Busy(fd, c)' =>
                 /\ sending' # fd /\ method'[Slot(fd)] = "GET" /\ resource'[Slot(fd)] = r.path
    BY <2>1 DEF Undisturbed
  <2>4. inflight'[c] = 0
    BY <1>1, <2>1 DEF Undisturbed
  <2>5. Awaits(c)'
    BY <1>2, <1>3, <2>1, <2>2, <2>3, <2>4 DEF Awaits
  <2>. QED  BY <2>5 DEF Turn
<1>8. CASE HalfAnswered(c)
  <2>1. PICK a \in Seq(Request), r \in Request, o \in Seq(Part), p \in Seq(Part) :
          /\ y = Append(a, r) /\ Served(size, o, a, TRUE)
          /\ Cardinality(Begins(o)) = Len(a)
          /\ size[r.path] # Missing /\ z = o \o p /\ PartWay(c, r, p)
          /\ rx[c] = <<>> /\ inflight[c] <= Len(p)
          /\ sending \in Fd /\ fdtab[sending] = c /\ resource[Slot(sending)] = r.path
    BY <1>2, <1>3, <1>8 DEF HalfAnswered
  <2>2. (\A k \in 1..Len(a) : Unedited(a[k])) /\ r.path \in File \ Edited
    BY <1>2, <2>1, LastAsked
  <2>3. Served(size', o, a, TRUE) /\ size'[r.path] = size[r.path]
    BY <2>1, <2>2, SameAnswers, ServedKept DEF Undisturbed
  <2>4. PICK fd \in Fd : fd = sending
    BY <2>1
  <2>5. Busy(fd, c) /\ Busy(fd, c)' /\ sending' = fd /\ resource'[Slot(fd)] = r.path
        /\ copied' = copied
    BY <2>1, <2>4 DEF Busy, Undisturbed
  <2>6. inflight'[c] <= Len(p) /\ rx'[c] = <<>> /\ fdtab'[fd] = c
    BY <1>1, <2>1, <2>5 DEF Undisturbed, Busy
  <2>7. PartWay(c, r, p)'
    <3>1. Body(size', r) = Body(size, r) /\ Header(r.path, size'[r.path]) = Header(r.path, size[r.path])
      BY <2>3 DEF Body, SizeOf
    <3>2. peer[c] = "pipe" => peer'[c] = "pipe"
      BY DEF Undisturbed
    <3>. QED  BY <2>1, <2>5, <3>1, <3>2 DEF PartWay
  <2>8. HalfAnswered(c)'
    <3>1. said'[c] = Append(a, r) /\ Served(size', o, a, TRUE) /\ Cardinality(Begins(o)) = Len(a)
      BY <1>2, <2>1, <2>3
    <3>2. size'[r.path] # Missing /\ out'[c] = o \o p
      BY <1>3, <2>1, <2>3
    <3>3. sending' \in Fd /\ fdtab'[sending'] = c /\ resource'[Slot(sending')] = r.path
      BY <2>4, <2>5, <2>6
    <3>. QED  BY <2>6, <2>7, <3>1, <3>2, <3>3, Zenon DEF HalfAnswered
  <2>. QED  BY <2>8 DEF Turn
<1>. QED  BY <1>5, <1>6, <1>7, <1>8 DEF Turn

\* A callback about fd and its connection d does nothing to the others.
Beside(fd, d) ==
    /\ \A g \in Fd \ {fd} :
          /\ fdtab'[g] = fdtab[g] /\ ev'[Slot(g)] = ev[Slot(g)]
          /\ method'[Slot(g)] = method[Slot(g)] /\ resource'[Slot(g)] = resource[Slot(g)]
    /\ \A c \in Conn \ {d} :
          /\ rx'[c] = rx[c] /\ out'[c] = out[c] /\ stage'[c] = stage[c]
          /\ peer'[c] = peer[c] /\ inflight'[c] = inflight[c]
    /\ fdtab[fd] \in {d, NoConn} /\ fdtab'[fd] \in {d, NoConn}
    /\ said' = said /\ size' = size
    /\ sending' = sending \/ {sending, sending'} = {0, fd}
    /\ sending = fd \/ copied' = copied

LEMMA TurnBeside ==
    ASSUME HttpInv, TurnInv, NEW fd \in Fd, NEW d \in Conn, Beside(fd, d),
           Patient(d) /\ Turn(d) => Turn(d)'
    PROVE  TurnInv'
<1>. SUFFICES ASSUME NEW c \in Conn, Patient(c)' PROVE Turn(c)'
  BY DEF TurnInv
<1>1. Patient(c)
  BY DEF Beside, Patient, Unedited
<1>2. CASE c = d
  BY <1>1, <1>2 DEF TurnInv
<1>3. CASE c # d
  <2>1. fdtab[fd] # c /\ fdtab'[fd] # c
    BY <1>3, ConnAssumption DEF Beside
  <2>2. inflight[c] \in Nat
    BY DEF HttpInv, CoreInv, CoreTypeOK
  <2>3. ASSUME NEW g \in Fd
        PROVE  /\ Busy(g, c)' <=> Busy(g, c)
               /\ Busy(g, c) => /\ method'[Slot(g)] = method[Slot(g)]
                                /\ resource'[Slot(g)] = resource[Slot(g)]
                                /\ sending' = g <=> sending = g
                                /\ sending = g => copied' = copied
    <3>1. CASE g = fd
      BY <2>1, <3>1 DEF Busy
    <3>2. CASE g # fd
      <4>1. sending' = g <=> sending = g
        <5>1. g # 0
          BY StdinAssumption
        <5>. QED  BY <3>2, <5>1 DEF Beside
      <4>2. sending = g => copied' = copied
        BY <3>2 DEF Beside
      <4>. QED  BY <3>2, <4>1, <4>2 DEF Beside, Busy, Answering
    <3>. QED  BY <3>1, <3>2
  <2>4. Undisturbed(c)
    BY <1>3, <2>2, <2>3 DEF Beside, Undisturbed
  <2>. QED  BY <1>1, <2>4, TurnKept DEF TurnInv
<1>. QED  BY <1>2, <1>3

\* A step that leaves requests and answers as they are, and the process may end.
LEMMA QuietTurn ==
    ASSUME HttpInv, TurnInv, UNCHANGED <<fdtab, ev, rx, method, resource, sending, copied, said, out>>,
           \A f \in File \ Edited : size'[f] = size[f],
           \A c \in Conn : inflight'[c] \in Nat /\ inflight'[c] <= inflight[c],
           \A c \in Conn : stage[c] = "closed" \/ peer[c] # "open" =>
               stage'[c] = "closed" \/ peer'[c] # "open",
           \A c \in Conn : peer[c] = "pipe" => peer'[c] = "pipe"
    PROVE  TurnInv'
<1>. SUFFICES ASSUME NEW c \in Conn, Patient(c)' PROVE Turn(c)'
  BY DEF TurnInv
<1>1. Patient(c)
  BY DEF Patient, Unedited
<1>2. Undisturbed(c)
  BY DEF Undisturbed, Busy, Answering
<1>. QED  BY <1>1, <1>2, TurnKept DEF TurnInv

LEMMA ClientSayTurn ==
    ASSUME HttpInv, TurnInv, NEW c \in Conn, NEW r \in Request, ClientSay(c, r), size' = size
    PROVE  TurnInv'
<1>1. /\ UNCHANGED <<fdtab, stage, peer, inflight, ev, httpVars, out>>
      /\ rx' = [rx EXCEPT ![c] = rx[c] \o <<r>>] /\ said' = [said EXCEPT ![c] = Append(said[c], r)]
      /\ c \in Hasty \/ Answered(c)
      /\ stage[c] \in {"queued", "accepted"} /\ peer[c] = "open"
  BY DEF ClientSay, Arrive, Reaching, reactorVars
<1>2. HttpTypes /\ CoreTypeOK
  BY DEF HttpInv, CoreInv
<1>3. PICK y \in Seq(Request) : y = said[c]
  BY <1>2 DEF HttpTypes
<1>4. /\ said'[c] = Append(y, r) /\ rx'[c] = rx[c] \o <<r>>
      /\ \A d \in Conn \ {c} : rx'[d] = rx[d] /\ said'[d] = said[d]
  BY <1>1, <1>2, <1>3 DEF HttpTypes
<1>5. ASSUME NEW d \in Conn \ {c}, Patient(d)' PROVE Turn(d)'
  <2>1. Patient(d)
    BY <1>4, <1>5 DEF Patient, Unedited
  <2>2. inflight[d] \in Nat
    BY <1>2 DEF CoreTypeOK
  <2>3. Undisturbed(d)
    BY <1>1, <1>4, <2>2 DEF Undisturbed, Busy, Answering, httpVars
  <2>. QED  BY <2>1, <2>3, TurnKept DEF TurnInv
<1>6. ASSUME Patient(c)' PROVE Turn(c)'
  <2>1. PICK m \in Nat : m = Len(y)
    BY <1>3
  <2>2. Len(Append(y, r)) = m + 1 /\ \A i \in 1..m : Append(y, r)[i] = y[i]
    BY <1>3, <2>1
  <2>3. Patient(c) /\ c \notin Hasty
    <3>1. c \notin Hasty /\ \A i \in 1..(m + 1) : Unedited(Append(y, r)[i])
      BY <1>4, <1>6, <2>2 DEF Patient, Unedited
    <3>2. \A i \in 1..m : i \in 1..(m + 1)
      BY <2>1
    <3>. QED  BY <1>3, <2>1, <2>2, <3>1, <3>2 DEF Patient
  <2>4. Cardinality(Begins(out[c])) = m /\ inflight[c] = 0 /\ (sending # 0 => fdtab[sending] # c)
    BY <1>1, <1>3, <2>1, <2>3 DEF Answered, Answers, Begins
  <2>5. ~Awaits(c)
    <3>1. ASSUME Awaits(c) PROVE FALSE
      <4>1. PICK a \in Seq(Request), q \in Request :
              said[c] = Append(a, q) /\ Cardinality(Begins(out[c])) = Len(a)
        BY <3>1 DEF Awaits
      <4>2. Len(said[c]) = Len(a) + 1 /\ Len(a) \in Nat
        BY <4>1
      <4>. QED  BY <1>3, <2>1, <2>4, <4>1, <4>2
    <3>. QED  BY <3>1
  <2>6. ~HalfAnswered(c)
    BY <2>4, StdinAssumption DEF HalfAnswered
  <2>7. ~CutShort(c)
    BY <1>1 DEF CutShort
  <2>8. Rested(c)
    BY <2>3, <2>5, <2>6, <2>7 DEF TurnInv, Turn
  <2>9. rx'[c] = <<r>> /\ \A fd \in Fd : ~Busy(fd, c)'
    BY <1>1, <1>4, <2>8 DEF Rested, Busy, Answering, httpVars
  <2>10. Served(size', out'[c], y, TRUE) /\ Cardinality(Begins(out'[c])) = Len(y) /\ inflight'[c] = 0
    BY <1>1, <1>3, <2>1, <2>4, <2>8 DEF Rested
  <2>11. Awaits(c)'
    BY <1>3, <1>4, <2>9, <2>10 DEF Awaits, Begins
  <2>. QED  BY <2>11 DEF Turn
<1>. QED  BY <1>5, <1>6 DEF TurnInv

LEMMA ClientMoveTurn ==
    ASSUME HttpInv, TurnInv, NEW c \in Conn, CoreClient(c), UNCHANGED <<httpVars, size, said, out>>
    PROVE  TurnInv'
<1>1. UNCHANGED <<fdtab, ev, rx>>
  BY DEF CoreClient, Connect, ClientRead, ClientFin, ClientReset, ClientPipe, PeerTimeout, Lose, reactorVars
<1>2. stage \in [Conn -> Stages] /\ peer \in [Conn -> PeerStates] /\ inflight \in [Conn -> 0..SndBuf]
  BY DEF HttpInv, CoreInv, CoreTypeOK
<1>3. ASSUME NEW d \in Conn, stage[d] = "closed" \/ peer[d] # "open"
      PROVE  stage'[d] = "closed" \/ peer'[d] # "open"
  BY <1>2, <1>3
  DEF CoreClient, Connect, ClientRead, ClientFin, ClientReset, ClientPipe, PeerTimeout, Lose, Reaching
<1>4. ASSUME NEW d \in Conn PROVE inflight'[d] \in Nat /\ inflight'[d] <= inflight[d]
  <2>1. inflight[d] \in Nat /\ inflight[c] \in Nat
    BY <1>2, SocketAssumption
  <2>2. \/ inflight' = inflight
        \/ inflight' = [inflight EXCEPT ![c] = 0]
        \/ inflight[c] > 0 /\ inflight' = [inflight EXCEPT ![c] = inflight[c] - 1]
    BY DEF CoreClient, Connect, ClientRead, ClientFin, ClientReset, ClientPipe, PeerTimeout, Lose
  <2>. QED  BY <1>2, <2>1, <2>2
<1>5. ASSUME NEW d \in Conn, peer[d] = "pipe" PROVE peer'[d] = "pipe"
  BY <1>2, <1>5
  DEF CoreClient, Connect, ClientRead, ClientFin, ClientReset, ClientPipe, PeerTimeout, Lose
<1>. QED  BY <1>1, <1>3, <1>4, <1>5, QuietTurn DEF httpVars

LEMMA AcceptTurn ==
    ASSUME HttpInv, TurnInv, NEW b \in batch, accept_cb(b), sending = 0,
           UNCHANGED <<httpVars, size, said, out>>
    PROVE  TurnInv'
<1>1. CoreInv /\ inflight \in [Conn -> 0..SndBuf]
  BY DEF HttpInv, CoreInv, CoreTypeOK
<1>2. \A c \in Conn : inflight[c] \in Nat
  BY <1>1
<1>3. CASE AcceptFails(b)
  BY <1>2, <1>3, QuietTurn DEF AcceptFails, kernelVars, httpVars
<1>4. ASSUME NEW fd \in Fd, Accepting(fd), Dispatch(b, "accept_cb"),
             \/ ev' = [ev EXCEPT ![Slot(fd)] = EventAdd(EventSet(ev[Slot(fd)], fd, "recv_cb"), {"IN"})]
             \/ ev' = ev
      PROVE  TurnInv'
  <2>1. backlog # <<>>
    BY <1>1, <1>4, EventFd DEF Dispatch, EventOf
  <2>2. PICK c \in Conn : c = Head(backlog)
    BY <1>1, <1>4, <2>1, AcceptingKeeps
  <2>3. /\ fdtab[fd] = NoConn /\ fdtab' = [fdtab EXCEPT ![fd] = c]
        /\ stage' = [stage EXCEPT ![c] = "accepted"] /\ UNCHANGED <<peer, rx, inflight>>
        /\ stage[c] = "queued"
    BY <1>1, <1>4, <2>1, <2>2, AcceptingKeeps DEF Accepting
  <2>4. ev[Slot(fd)].status # 1 /\ ev[Slot(fd)] \in NtyEvent
    BY <1>1, <2>3, FreeFdIsUnwatched
  <2>5. /\ ev \in [Slots -> NtyEvent] /\ stage \in [Conn -> Stages]
        /\ fdtab \in [Fd -> Conn \cup {NoConn}]
    BY <1>1 DEF CoreInv, CoreTypeOK
  <2>6. ~Answering(fd)' /\ \A g \in Fd \ {fd} : ev'[Slot(g)] = ev[Slot(g)]
    <3>1. EventAdd(EventSet(ev[Slot(fd)], fd, "recv_cb"), {"IN"}).callback = "recv_cb"
      BY <2>4 DEF NtyEvent, EventAdd, EventSet
    <3>. QED  BY <1>4, <2>4, <2>5, <3>1, SlotsOf DEF Answering
  <2>7. Beside(fd, c)
    BY <2>3, <2>5, <2>6 DEF Beside, httpVars
  <2>8. Undisturbed(c)
    <3>1. ~Busy(fd, c) /\ ~Busy(fd, c)'
      BY <2>3, <2>6, ConnAssumption, StdinAssumption DEF Busy, httpVars
    <3>2. \A g \in Fd \ {fd} : Busy(g, c)' <=> Busy(g, c)
      BY <2>3, <2>5, <2>6 DEF Busy, Answering, httpVars
    <3>. QED  BY <1>2, <2>3, <3>1, <3>2 DEF Undisturbed, httpVars
  <2>. QED  BY <2>7, <2>8, TurnKept, TurnBeside
<1>5. CASE AcceptOk(b)
  <2>1. PICK fd \in Fd : /\ Accepting(fd)
                         /\ ev' = [ev EXCEPT ![Slot(fd)] = EventAdd(EventSet(ev[Slot(fd)], fd, "recv_cb"), {"IN"})]
    BY <1>5 DEF AcceptOk
  <2>2. Dispatch(b, "accept_cb")
    BY <1>5 DEF AcceptOk
  <2>. QED  BY <1>4, <2>1, <2>2
<1>6. CASE AcceptForgets(b)
  <2>1. PICK fd \in Fd : Accepting(fd)
    BY <1>6 DEF AcceptForgets
  <2>2. Dispatch(b, "accept_cb") /\ ev' = ev
    BY <1>6 DEF AcceptForgets
  <2>. QED  BY <1>4, <2>1, <2>2
<1>. QED  BY <1>3, <1>5, <1>6 DEF accept_cb

-----------------------------------------------------------------------------
(* The turn of the client of a callback *)

LEMMA RecvDataTurn ==
    ASSUME HttpInv, TurnInv, NEW b \in batch, sending = 0, RecvData(b), size' = size
    PROVE  TurnInv'
<1>1. PICK fd \in Fd, c \in Conn, s \in Slots : Callee(b, "recv_cb", fd, c, s)
  BY CallbackOf DEF RecvData
<1>2. PICK n : n = Min2(Len(rx[c]), BUFFER_LENGTH)
  OBVIOUS
<1>3. /\ n > 0 /\ parser_http_request(s, rx[c][1])
      /\ rx' = [rx EXCEPT ![c] = SubSeq(rx[c], n + 1, Len(rx[c]))]
      /\ Rearm(fd, "send_cb", {"OUT"})
      /\ UNCHANGED <<fdtab, stage, peer, inflight, sending, copied, said, out>>
  BY <1>1, <1>2 DEF RecvData, Callee
<1>4. /\ s = Slot(fd) /\ c = fdtab[fd] /\ ev[s].callback = "recv_cb"
      /\ \A g \in Fd \ {fd} : Slot(g) \in Slots \ {s}
  BY <1>1 DEF Callee
<1>5. HttpTypes /\ CoreInv
  BY DEF HttpInv
<1>6. \A g \in Fd \ {fd} : fdtab[g] # c
  BY <1>4, <1>5, ConnAssumption DEF CoreInv, OneFdPerConn
<1>7. Answering(fd)' /\ \A g \in Fd \ {fd} : ev'[Slot(g)] = ev[Slot(g)]
  BY <1>3, RearmBlock DEF Answering
<1>8. \A t \in Slots \ {s} : method'[t] = method[t] /\ resource'[t] = resource[t]
  BY <1>3, <1>5 DEF parser_http_request, HttpTypes
<1>9. \A d \in Conn \ {c} : rx'[d] = rx[d]
  BY <1>3, <1>5 DEF HttpTypes
<1>10. Beside(fd, c)
  BY <1>3, <1>4, <1>7, <1>8, <1>9 DEF Beside
<1>11. ASSUME Patient(c), Turn(c) PROVE Turn(c)'
  <2>1. rx[c] # <<>>
    <3>1. ASSUME rx[c] = <<>> PROVE FALSE
      BY <1>2, <1>3, <3>1, SizeAssumption DEF Min2
    <3>. QED  BY <3>1
  <2>2. Awaits(c)
    BY <1>11, <2>1 DEF Turn, Rested, HalfAnswered, CutShort
  <2>3. PICK a \in Seq(Request), r \in Request :
          /\ said[c] = Append(a, r) /\ Served(size, out[c], a, TRUE)
          /\ Cardinality(Begins(out[c])) = Len(a) /\ inflight[c] = 0
          /\ rx[c] = <<r>>
    BY <2>1, <2>2 DEF Awaits
  <2>4. r.method = "GET"
    BY <1>11, <2>3, LastAsked DEF Unedited
  <2>5. n = 1 /\ rx[c][1] = r
    BY <1>2, <2>3, SizeAssumption DEF Min2
  <2>6. rx'[c] = <<>>
    BY <1>3, <1>5, <2>3, <2>5 DEF HttpTypes
  <2>7. method'[s] = "GET" /\ resource'[s] = r.path
    BY <1>3, <1>5, <2>4, <2>5 DEF parser_http_request, HttpTypes
  <2>8. ASSUME NEW g \in Fd, Busy(g, c)'
        PROVE  sending' # g /\ method'[Slot(g)] = "GET" /\ resource'[Slot(g)] = r.path
    <3>1. g = fd
      BY <1>3, <1>6, <2>8 DEF Busy
    <3>. QED  BY <1>3, <1>4, <2>7, <3>1, StdinAssumption
  <2>9. Awaits(c)'
    BY <1>3, <2>3, <2>6, <2>8 DEF Awaits, Begins
  <2>. QED  BY <2>9 DEF Turn
<1>. QED  BY <1>10, <1>11, TurnBeside

LEMMA RecvOverTurn ==
    ASSUME HttpInv, TurnInv, NEW b \in batch, sending = 0, RecvEnd(b) \/ RecvError(b), size' = size
    PROVE  TurnInv'
<1>1. PICK fd \in Fd, c \in Conn, s \in Slots : Callee(b, "recv_cb", fd, c, s)
  BY CallbackOf DEF RecvEnd, RecvError
<1>2. /\ s = Slot(fd) /\ c = fdtab[fd] /\ fd = ev[b.ptr].fd /\ ~Answering(fd)
      /\ \A g \in Fd \ {fd} : Slot(g) \in Slots \ {s}
  BY <1>1 DEF Callee, Answering
<1>3. /\ DelAndClose(fd) \/ DelOnly(fd)
      /\ UNCHANGED <<peer, rx, inflight, httpVars, said, out>>
  BY <1>2 DEF RecvEnd, RecvError
<1>4. /\ fdtab \in [Fd -> Conn \cup {NoConn}] /\ stage \in [Conn -> Stages]
      /\ inflight \in [Conn -> 0..SndBuf] /\ \A d \in Conn : inflight[d] \in Nat
      /\ ~Answering(fd)' /\ \A g \in Fd \ {fd} : ev'[Slot(g)] = ev[Slot(g)]
  BY <1>3, DelBlock DEF HttpInv, CoreInv, CoreTypeOK, Answering
<1>5. Beside(fd, c)
  BY <1>2, <1>3, <1>4 DEF Beside, DelAndClose, DelOnly, httpVars
<1>6. Undisturbed(c)
  <2>1. ~Busy(fd, c) /\ ~Busy(fd, c)'
    BY <1>2, <1>3, <1>4, StdinAssumption DEF Busy, httpVars
  <2>2. \A g \in Fd \ {fd} : Busy(g, c)' <=> Busy(g, c)
    BY <1>3, <1>4, <1>5 DEF Busy, Answering, httpVars, Beside
  <2>3. stage[c] = "closed" => stage'[c] = "closed"
    BY <1>2, <1>3, <1>4 DEF DelAndClose, DelOnly
  <2>. QED  BY <1>3, <1>4, <2>1, <2>2, <2>3 DEF Undisturbed, httpVars
<1>. QED  BY <1>5, <1>6, TurnKept, TurnBeside

\* A client whose request its control block holds is the one in Awaits.
LEMMA ItsTurn ==
    ASSUME HttpInv, sending = 0, NEW fd \in Fd, NEW c \in Conn, Answering(fd), fdtab[fd] = c,
           Patient(c), Turn(c)
    PROVE  \E a \in Seq(Request), r \in Request :
              /\ said[c] = Append(a, r) /\ Served(size, out[c], a, TRUE)
              /\ Cardinality(Begins(out[c])) = Len(a) /\ inflight[c] = 0
              /\ rx[c] = <<>> /\ method[Slot(fd)] = "GET" /\ resource[Slot(fd)] = r.path
<1>1. Busy(fd, c)
  BY DEF Busy
<1>2. Awaits(c)
  BY <1>1, StdinAssumption DEF Turn, Rested, HalfAnswered, CutShort
<1>. QED  BY <1>1, <1>2 DEF Awaits

LEMMA SendOverTurn ==
    ASSUME HttpInv, TurnInv, NEW b \in batch, sending = 0, NEW fd \in Fd,
           SendClose(b, fd) \/ SendKilled(b, fd), size' = size
    PROVE  TurnInv'
<1>1. Responding(b, fd)
  BY DEF SendClose, SendKilled
<1>2. PICK c \in Conn, s \in Slots : Callee(b, "send_cb", fd, c, s)
  BY <1>1, CallbackOf DEF Responding, Callee
<1>3. /\ s = Slot(fd) /\ c = fdtab[fd] /\ fd = ev[b.ptr].fd /\ Answering(fd)
      /\ \A g \in Fd \ {fd} : Slot(g) \in Slots \ {s}
  BY <1>2 DEF Callee, Answering
<1>4. /\ UNCHANGED <<inflight, sending, copied, out, peer, rx, method, resource, said>>
      /\ DelAndClose(fd) \/ UNCHANGED <<fdtab, stage, ev>>
  BY DEF SendClose, SendKilled, Responding
<1>5. HttpTypes /\ CoreInv /\ inflight \in [Conn -> 0..SndBuf] /\ \A d \in Conn : inflight[d] \in Nat
  BY DEF HttpInv, CoreInv, CoreTypeOK
<1>6. CASE UNCHANGED <<fdtab, stage, ev>>
  BY <1>4, <1>5, <1>6, QuietTurn
<1>7. CASE DelAndClose(fd)
  <2>1. /\ fdtab \in [Fd -> Conn \cup {NoConn}] /\ stage \in [Conn -> Stages]
        /\ \A g \in Fd \ {fd} : ev'[Slot(g)] = ev[Slot(g)]
    BY <1>5, <1>7, DelBlock DEF CoreInv, CoreTypeOK
  <2>2. /\ fdtab'[fd] = NoConn /\ \A g \in Fd \ {fd} : fdtab'[g] = fdtab[g]
        /\ stage'[c] = "closed" /\ \A d \in Conn \ {c} : stage'[d] = stage[d]
    BY <1>3, <1>7, <2>1 DEF DelAndClose
  <2>3. Beside(fd, c)
    BY <1>3, <1>4, <2>1, <2>2 DEF Beside
  <2>4. ASSUME Patient(c), Turn(c) PROVE Turn(c)'
    <3>0. fdtab[fd] = c
      BY <1>3
    <3>1. PICK a \in Seq(Request), r \in Request :
            /\ said[c] = Append(a, r) /\ Served(size, out[c], a, TRUE)
            /\ Cardinality(Begins(out[c])) = Len(a) /\ inflight[c] = 0
            /\ rx[c] = <<>> /\ method[Slot(fd)] = "GET" /\ resource[Slot(fd)] = r.path
      BY <1>3, <2>4, <3>0, ItsTurn
    <3>2. PICK z \in Seq(Part) : z = out[c]
      BY <1>5 DEF HttpTypes
    <3>3. r.method = "GET"
      BY <2>4, <3>1, LastAsked DEF Unedited
    <3>4. AnswerOf(size, r) \in Seq(Part)
      BY <1>5, <3>3, AnswerParts DEF HttpTypes
    <3>5. Served(size, z, Append(a, r), FALSE)
      <4>1. PICK p \in Seq(Part) : p = <<>>
        <5>1. <<>> \in Seq(Part)
          OBVIOUS
        <5>. QED  BY <5>1
      <4>2. Len(p) = 0 /\ z \o p = z
        BY <4>1
      <4>3. Len(p) <= Len(AnswerOf(size, r)) /\ \A i \in 1..Len(p) : p[i] = AnswerOf(size, r)[i]
        BY <3>4, <4>2
      <4>4. Served(size, z, a, TRUE)
        BY <3>1, <3>2
      <4>5. Served(size, z \o p, Append(a, r), FALSE)
        BY <3>4, <4>3, <4>4, ServedMore
      <4>. QED  BY <4>2, <4>5
    <3>6. \A g \in Fd : ~Busy(g, c)'
      <4>1. \A g \in Fd \ {fd} : fdtab[g] # c
        BY <1>3, <1>5, ConnAssumption DEF CoreInv, OneFdPerConn
      <4>. QED  BY <2>2, <4>1, ConnAssumption DEF Busy
    <3>7. CutShort(c)'
      BY <1>4, <2>2, <3>1, <3>2, <3>5, <3>6 DEF CutShort
    <3>. QED  BY <3>7 DEF Turn
  <2>. QED  BY <2>3, <2>4, TurnBeside
<1>. QED  BY <1>4, <1>6, <1>7

LEMMA SendHeadTurn ==
    ASSUME FilesFit, HttpInv, HttpInv', TurnInv, NEW b \in batch, sending = 0, NEW fd \in Fd,
           SendHead(b, fd), size' = size
    PROVE  TurnInv'
<1>1. Responding(b, fd)
  BY DEF SendHead
<1>2. PICK c \in Conn, s \in Slots : Callee(b, "send_cb", fd, c, s)
  BY <1>1, CallbackOf DEF Responding, Callee
<1>3. /\ s = Slot(fd) /\ c = fdtab[fd] /\ Answering(fd)
      /\ \A g \in Fd \ {fd} : Slot(g) \in Slots \ {s}
  BY <1>2 DEF Callee, Answering
<1>4. /\ http_response(s)
      /\ out' = [out EXCEPT ![c] = out[c] \o wbuffer'[s]]
      /\ inflight' = [inflight EXCEPT ![c] = inflight[c] + Len(wbuffer'[s])]
      /\ UNCHANGED <<peer, rx, method, resource, copied, said, fdtab, stage>>
      /\ \/ issend'[s] /\ sending' = fd /\ ev' = ev
         \/ ~issend'[s] /\ Rearm(fd, "recv_cb", {"IN"}) /\ sending' = sending
  <2>1. Sent(c, wbuffer'[s])
    BY <1>3 DEF SendHead
  <2>2. http_response(s) /\ UNCHANGED <<peer, rx, method, resource, copied, said, fdtab, stage>>
    BY <1>3 DEF SendHead, Responding
  <2>3. \/ issend'[s] /\ sending' = fd /\ ev' = ev
        \/ ~issend'[s] /\ Rearm(fd, "recv_cb", {"IN"}) /\ sending' = sending
    BY <1>3 DEF SendHead
  <2>. QED  BY <2>1, <2>2, <2>3 DEF Sent
<1>5. HttpTypes /\ HttpTypes' /\ CoreInv /\ inflight \in [Conn -> 0..SndBuf]
  BY DEF HttpInv, CoreInv, CoreTypeOK
<1>6. \A g \in Fd \ {fd} : ev'[Slot(g)] = ev[Slot(g)] /\ fdtab[g] # c
  <2>1. \A g \in Fd \ {fd} : fdtab[g] # c
    BY <1>3, <1>5, ConnAssumption DEF CoreInv, OneFdPerConn
  <2>2. CASE ev' = ev
    BY <2>1, <2>2
  <2>3. CASE Rearm(fd, "recv_cb", {"IN"})
    BY <2>1, <2>3, RearmBlock
  <2>. QED  BY <1>4, <2>2, <2>3
<1>7. Beside(fd, c)
  <2>1. \A d \in Conn \ {c} : out'[d] = out[d] /\ inflight'[d] = inflight[d]
    BY <1>4, <1>5 DEF HttpTypes
  <2>2. sending' = sending \/ {sending, sending'} = {0, fd}
    BY <1>4
  <2>. QED  BY <1>3, <1>4, <1>6, <2>1, <2>2 DEF Beside
<1>8. ASSUME Patient(c), Turn(c) PROVE Turn(c)'
  <2>0. fdtab[fd] = c
    BY <1>3
  <2>1. PICK a \in Seq(Request), r \in Request :
          /\ said[c] = Append(a, r) /\ Served(size, out[c], a, TRUE)
          /\ Cardinality(Begins(out[c])) = Len(a) /\ inflight[c] = 0
          /\ rx[c] = <<>> /\ method[Slot(fd)] = "GET" /\ resource[Slot(fd)] = r.path
    BY <1>3, <1>8, <2>0, ItsTurn
  <2>2. r.method = "GET" /\ r.path \in File
    BY <1>8, <2>1, LastAsked DEF Unedited
  <2>3. PICK o \in Seq(Part) : o = out[c]
    BY <1>5 DEF HttpTypes
  <2>4. http_get_response(s) /\ resource[s] = r.path /\ r.path # NoFile
    BY <1>3, <1>4, <2>1, <2>2, FileAssumption DEF http_response
  <2>5. PICK n \in Sizes : n = size[r.path]
    BY <1>5, <2>2 DEF HttpTypes
  <2>6. AnswerOf(size, r) \in Seq(Part)
    BY <1>5, <2>2, AnswerParts DEF HttpTypes
  <2>7. CASE n = Missing
    <3>1. wbuffer'[s] = <<NotFound>> /\ ~issend'[s]
      BY <1>5, <2>4, <2>5, <2>7 DEF http_get_response, HttpTypes
    <3>2. PICK p \in Seq(Part), q \in HeadPart : q = NotFound /\ p = <<q>>
      <4>1. NotFound \in HeadPart /\ NotFound \in Part
        BY PartsTyping DEF HeadPart
      <4>2. <<NotFound>> \in Seq(Part)
        BY <4>1
      <4>. QED  BY <4>1, <4>2
    <3>3. AnswerOf(size, r) = p
      BY <1>5, <2>2, <2>5, <2>7, <3>2, AnswerParts DEF HttpTypes
    <3>4. out'[c] = o \o p
      BY <1>4, <1>5, <2>3, <3>1, <3>2 DEF HttpTypes
    <3>5. Served(size, o \o p, Append(a, r), TRUE)
      <4>1. Len(p) <= Len(AnswerOf(size, r)) /\ Len(p) = Len(AnswerOf(size, r))
            /\ \A i \in 1..Len(p) : p[i] = AnswerOf(size, r)[i]
        BY <3>3
      <4>2. Served(size, o, a, TRUE)
        BY <2>1, <2>3
      <4>3. PICK sz \in [File -> Sizes] : sz = size
        BY <1>5 DEF HttpTypes
      <4>4. Served(sz, o \o p, Append(a, r), TRUE)
        BY <2>6, <4>1, <4>2, <4>3, ServedMore
      <4>. QED  BY <4>3, <4>4
    <3>6. Cardinality(Begins(o \o p)) = Len(Append(a, r))
      <4>1. Cardinality(Begins(o \o p)) = Len(a) + 1
        BY <2>1, <2>3, <3>2, BeginsMore
      <4>. QED  BY <4>1
    <3>7. Rearm(fd, "recv_cb", {"IN"}) /\ sending' = 0
      BY <1>4, <3>1
    <3>8. ~Answering(fd)'
      BY <3>7, RearmBlock DEF Answering
    <3>9. \A g \in Fd : ~Busy(g, c)'
      <4>1. \A g \in Fd : g # 0
        BY StdinAssumption
      <4>. QED  BY <1>4, <1>6, <3>7, <3>8, <4>1 DEF Busy
    <3>10. Rested(c)'
      BY <1>4, <2>1, <3>4, <3>5, <3>6, <3>9 DEF Rested, Begins
    <3>. QED  BY <3>10 DEF Turn
  <2>8. CASE n # Missing
    <3>1. wbuffer'[s] = <<Header(r.path, n)>> /\ issend'[s]
      BY <1>5, <2>4, <2>5, <2>8 DEF http_get_response, HttpTypes
    <3>2. PICK p \in Seq(Part) : p = <<Header(r.path, size[r.path])>> /\ Len(p) = 1
      <4>1. Header(r.path, n) \in Part
        BY <2>2, <2>5, <2>8, FileSizes, PartsTyping DEF HeadPart
      <4>2. <<Header(r.path, n)>> \in Seq(Part) /\ Len(<<Header(r.path, n)>>) = 1
        BY <4>1
      <4>. QED  BY <2>5, <4>2
    <3>3. out'[c] = o \o p /\ inflight'[c] = 1
      BY <1>4, <1>5, <2>1, <2>3, <2>5, <3>1, <3>2 DEF HttpTypes
    <3>4. sending' = fd /\ fdtab'[fd] = c /\ resource'[Slot(fd)] = r.path /\ rx'[c] = <<>>
      BY <1>3, <1>4, <2>1, <3>1
    <3>5. HalfAnswered(c)'
      <4>1. said'[c] = Append(a, r) /\ Served(size', o, a, TRUE)
            /\ Cardinality(Begins(o)) = Len(a)
        BY <1>4, <2>1, <2>3
      <4>2. size'[r.path] # Missing /\ PartWay(c, r, p)'
        <5>1. ~copied'
          BY <1>4 DEF HttpInv, SendingInv
        <5>. QED  BY <2>5, <2>8, <3>2, <5>1 DEF PartWay
      <4>3. rx'[c] = <<>> /\ inflight'[c] <= Len(p)
        BY <3>2, <3>3, <3>4
      <4>4. sending' \in Fd /\ fdtab'[sending'] = c /\ resource'[Slot(sending')] = r.path
        BY <3>4
      <4>. QED  BY <3>3, <4>1, <4>2, <4>3, <4>4, Zenon DEF HalfAnswered
    <3>. QED  BY <3>5 DEF Turn
  <2>. QED  BY <2>7, <2>8
<1>. QED  BY <1>7, <1>8, TurnBeside

\* The line end completes the answer that its header began.
LEMMA FileCompletes ==
    ASSUME NEW sz \in [File -> Sizes], NEW r \in Request, r.method = "GET", sz[r.path] # Missing,
           NEW o \in Seq(Part), NEW a \in Seq(Request), Served(sz, o, a, TRUE),
           Cardinality(Begins(o)) = Len(a)
    PROVE  LET all == (o \o Body(sz, r)) \o <<LineEnd>>
           IN  /\ Served(sz, all, Append(a, r), TRUE)
               /\ Cardinality(Begins(all)) = Len(Append(a, r))
<1>1. PICK h \in HeadPart, t \in Seq(Part) :
        Body(sz, r) = <<h>> \o t /\ h \in Part /\ \A i \in 1..Len(t) : t[i].what = "unit"
  BY BodyParts
<1>2. PICK e \in Part : e = LineEnd /\ e.what = "crlf"
  BY PartsTyping
<1>3. PICK x \in Seq(Part), z \in Seq(Part) : x = <<h>> /\ z = <<e>> /\ Len(z) = 1 /\ z[1] = e
  <2>1. <<h>> \in Seq(Part) /\ <<e>> \in Seq(Part)
    BY <1>1
  <2>. QED  BY <2>1
<1>4. PICK all : Grouped(o, x, t, z, all)
  BY PartsGrouped
<1>5. PICK w \in Seq(Part), ox \in Seq(Part), tz \in Seq(Part) :
        w = (x \o t) \o z /\ ox = o \o x /\ tz = t \o z
  <2>1. x \o t \in Seq(Part)
    OBVIOUS
  <2>2. (x \o t) \o z \in Seq(Part) /\ o \o x \in Seq(Part) /\ t \o z \in Seq(Part)
    BY <2>1
  <2>. QED  BY <2>2
<1>6. w = AnswerOf(sz, r)
  <2>1. AnswerOf(sz, r) = Body(sz, r) \o <<LineEnd>>
    BY AnswerParts
  <2>. QED  BY <1>1, <1>2, <1>3, <1>5, <2>1
<1>7. Served(sz, all, Append(a, r), TRUE)
  <2>1. AnswerOf(sz, r) \in Seq(Part) /\ Len(w) <= Len(AnswerOf(sz, r)) /\ Len(w) = Len(AnswerOf(sz, r))
        /\ \A i \in 1..Len(w) : w[i] = AnswerOf(sz, r)[i]
    BY <1>6
  <2>2. all = o \o w
    BY <1>4, <1>5 DEF Grouped
  <2>. QED  BY <2>1, <2>2, ServedMore
<1>8. all = ox \o tz /\ all = (o \o Body(sz, r)) \o <<LineEnd>>
  BY <1>1, <1>2, <1>3, <1>4, <1>5 DEF Grouped
<1>9. Cardinality(Begins(all)) = Len(Append(a, r))
  <2>1. ASSUME NEW i \in 1..Len(tz) PROVE tz[i].what \notin {"header", "404"}
    <3>1. CASE i \in 1..Len(t)
      BY <1>1, <1>5, <3>1
    <3>2. CASE i \notin 1..Len(t)
      <4>1. i = Len(t) + 1 /\ tz[Len(t) + 1] = e
        BY <1>3, <1>5, <2>1, <3>2
      <4>. QED  BY <1>2, <4>1
    <3>. QED  BY <3>1, <3>2
  <2>2. Begins(ox \o tz) = Begins(ox)
    BY <2>1, BeginsSame
  <2>3. Cardinality(Begins(ox)) = Len(a) + 1
    BY <1>3, <1>5, BeginsMore
  <2>4. Len(Append(a, r)) = Len(a) + 1
    OBVIOUS
  <2>. QED  BY <1>8, <2>2, <2>3, <2>4
<1>. QED  BY <1>7, <1>8, <1>9

\* The descriptor that send_cb sends a file on, and how far it is with its client.
LEMMA HalfOf ==
    ASSUME HttpInv, sending # 0
    PROVE  \E fd \in Fd, c \in Conn :
              /\ fd = sending /\ c = fdtab[fd] /\ \A g \in Fd \ {fd} : fdtab[g] # c
              /\ Patient(c) /\ Turn(c) =>
                    \E a \in Seq(Request), r \in Request, o \in Seq(Part), p \in Seq(Part) :
                        /\ said[c] = Append(a, r) /\ Served(size, o, a, TRUE)
                        /\ Cardinality(Begins(o)) = Len(a) /\ r.method = "GET" /\ r.path \in File
                        /\ size[r.path] # Missing /\ out[c] = o \o p /\ PartWay(c, r, p)
                        /\ rx[c] = <<>> /\ inflight[c] <= Len(p) /\ resource[Slot(fd)] = r.path
<1>1. PICK fd \in Fd, c \in Conn : fd = sending /\ c = fdtab[fd]
  BY DEF HttpInv, SendingInv
<1>2. \A g \in Fd \ {fd} : fdtab[g] # c
  BY <1>1, ConnAssumption DEF HttpInv, CoreInv, OneFdPerConn
<1>3. ASSUME Patient(c), Turn(c) PROVE HalfAnswered(c)
  <2>1. Busy(fd, c)
    BY <1>1 DEF Busy
  <2>. QED  BY <1>1, <1>3, <2>1 DEF Turn, Rested, Awaits, CutShort
<1>4. ASSUME Patient(c), Turn(c)
      PROVE  \E a \in Seq(Request), r \in Request, o \in Seq(Part), p \in Seq(Part) :
                /\ said[c] = Append(a, r) /\ Served(size, o, a, TRUE)
                /\ Cardinality(Begins(o)) = Len(a) /\ r.method = "GET" /\ r.path \in File
                /\ size[r.path] # Missing /\ out[c] = o \o p /\ PartWay(c, r, p)
                /\ rx[c] = <<>> /\ inflight[c] <= Len(p) /\ resource[Slot(fd)] = r.path
  <2>1. PICK a \in Seq(Request), r \in Request, o \in Seq(Part), p \in Seq(Part) :
          /\ said[c] = Append(a, r) /\ Served(size, o, a, TRUE)
          /\ Cardinality(Begins(o)) = Len(a)
          /\ size[r.path] # Missing /\ out[c] = o \o p /\ PartWay(c, r, p)
          /\ rx[c] = <<>> /\ inflight[c] <= Len(p) /\ resource[Slot(fd)] = r.path
    BY <1>1, <1>3, <1>4 DEF HalfAnswered
  <2>2. r.method = "GET" /\ r.path \in File
    BY <1>4, <2>1, LastAsked DEF Unedited
  <2>. QED  BY <2>1, <2>2
<1>. QED  BY <1>1, <1>2, <1>4

\* sendfile(), whether it sends the file or learns that the peer is gone.
LEMMA FileCopiedTurn ==
    ASSUME FilesFit, HttpInv, TurnInv, size' = size,
           SendFile \/ (SendFileLate /\ ~copied)
    PROVE  TurnInv'
<1>1. sending # 0 /\ ~copied
  BY DEF SendFile, SendFileLate
<1>2. PICK fd \in Fd, c \in Conn :
        /\ fd = sending /\ c = fdtab[fd] /\ \A g \in Fd \ {fd} : fdtab[g] # c
        /\ Patient(c) /\ Turn(c) =>
              \E a \in Seq(Request), r \in Request, o \in Seq(Part), p \in Seq(Part) :
                  /\ said[c] = Append(a, r) /\ Served(size, o, a, TRUE)
                  /\ Cardinality(Begins(o)) = Len(a) /\ r.method = "GET" /\ r.path \in File
                  /\ size[r.path] # Missing /\ out[c] = o \o p /\ PartWay(c, r, p)
                  /\ rx[c] = <<>> /\ inflight[c] <= Len(p) /\ resource[Slot(fd)] = r.path
  BY <1>1, HalfOf
<1>3. copied' /\ UNCHANGED <<fdtab, stage, rx, ev, method, resource, said, sending>>
  BY <1>1 DEF SendFile, SendFileLate, FileCopied, reactorVars
<1>4. /\ HttpTypes /\ inflight \in [Conn -> 0..SndBuf] /\ peer \in [Conn -> PeerStates]
      /\ inflight[c] \in Nat
  BY DEF HttpInv, CoreInv, CoreTypeOK
<1>5. \/ SendFile /\ Sent(c, [i \in 1..Min2(Contents(resource[Slot(fd)]), Room(c))
                                |-> Unit(resource[Slot(fd)])])
         /\ peer' = peer
      \/ peer' = [peer EXCEPT ![c] = "pipe"] /\ UNCHANGED <<out, inflight>>
  BY <1>1, <1>2 DEF SendFile, SendFileLate, ToSend
<1>6. \A d \in Conn \ {c} : out'[d] = out[d] /\ inflight'[d] = inflight[d] /\ peer'[d] = peer[d]
  BY <1>4, <1>5 DEF Sent, HttpTypes
<1>7. Beside(fd, c)
  BY <1>2, <1>3, <1>6 DEF Beside
<1>8. ASSUME Patient(c), Turn(c) PROVE Turn(c)'
  <2>1. PICK a \in Seq(Request), r \in Request, o \in Seq(Part), p \in Seq(Part) :
          /\ said[c] = Append(a, r) /\ Served(size, o, a, TRUE)
          /\ Cardinality(Begins(o)) = Len(a) /\ r.method = "GET" /\ r.path \in File
          /\ size[r.path] # Missing /\ out[c] = o \o p /\ PartWay(c, r, p)
          /\ rx[c] = <<>> /\ inflight[c] <= Len(p) /\ resource[Slot(fd)] = r.path
    BY <1>2, <1>8
  <2>2. p = <<Header(r.path, size[r.path])>> /\ Len(p) = 1
    BY <1>1, <2>1 DEF PartWay
  <2>3. ASSUME NEW q \in Seq(Part), out'[c] = o \o q, PartWay(c, r, q)', inflight'[c] <= Len(q)
        PROVE  Turn(c)'
    <3>1. said'[c] = Append(a, r) /\ Served(size', o, a, TRUE) /\ Cardinality(Begins(o)) = Len(a)
      BY <1>3, <2>1
    <3>2. size'[r.path] # Missing /\ rx'[c] = <<>>
      BY <1>3, <2>1
    <3>3. sending' \in Fd /\ fdtab'[sending'] = c /\ resource'[Slot(sending')] = r.path
      BY <1>2, <1>3, <2>1
    <3>4. HalfAnswered(c)'
      BY <2>3, <3>1, <3>2, <3>3, Zenon DEF HalfAnswered
    <3>. QED  BY <3>4 DEF Turn
  <2>4. CASE peer' = [peer EXCEPT ![c] = "pipe"] /\ UNCHANGED <<out, inflight>>
    <3>1. peer'[c] = "pipe" /\ out'[c] = o \o p /\ inflight'[c] <= Len(p)
      BY <1>4, <2>1, <2>4
    <3>2. PartWay(c, r, p)'
      BY <1>3, <2>2, <3>1 DEF PartWay
    <3>. QED  BY <2>3, <3>1, <3>2
  <2>5. CASE SendFile /\ Sent(c, [i \in 1..Min2(Contents(r.path), Room(c)) |-> Unit(r.path)])
    <3>1. PICK t \in Seq(Part), n \in 0..MaxSize :
            /\ t = [i \in 1..n |-> Unit(r.path)] /\ n = Contents(r.path) /\ Len(t) = n
            /\ Body(size, r) = p \o t
      <4>1. Contents(r.path) = SizeOf(size, r.path)
        BY DEF Contents, SizeOf
      <4>. QED  BY <1>4, <2>1, <2>2, <4>1, BodyParts DEF HttpTypes
    <3>2. n \in Nat /\ Min2(n, Room(c)) = n
      <4>1. n \in Nat /\ inflight[c] <= 1 /\ n <= MaxSize
        BY <2>1, <2>2, FileAssumption
      <4>2. n <= Room(c)
        BY <1>4, <4>1, FileAssumption, SocketAssumption DEF FilesFit, Room
      <4>. QED  BY <4>1, <4>2 DEF Min2
    <3>3. Sent(c, t)
      BY <2>5, <3>1, <3>2
    <3>4. out'[c] = (o \o p) \o t /\ inflight'[c] = inflight[c] + n
      BY <1>4, <2>1, <3>1, <3>3 DEF Sent, HttpTypes
    <3>5. PICK q \in Seq(Part) : q = p \o t /\ Len(q) = n + 1
      <4>1. p \o t \in Seq(Part) /\ Len(p \o t) = n + 1
        BY <2>2, <3>1, <3>2
      <4>. QED  BY <4>1
    <3>6. out'[c] = o \o q
      BY <3>4, <3>5, PartsAssociative, SMTT(30)
    <3>7. PartWay(c, r, q)'
      <4>1. Body(size', r) = q
        BY <3>1, <3>5
      <4>. QED  BY <1>3, <4>1 DEF PartWay
    <3>8. inflight'[c] <= Len(q)
      BY <1>4, <2>1, <2>2, <3>2, <3>4, <3>5
    <3>. QED  BY <2>3, <3>6, <3>7, <3>8
  <2>. QED  BY <1>5, <2>1, <2>4, <2>5
<1>. QED  BY <1>7, <1>8, TurnBeside

\* The send() of the line end, and the end of send_cb.
LEMMA FileDoneTurn ==
    ASSUME FilesFit, HttpInv, TurnInv, size' = size,
           SendLineEnd \/ (SendFileLate /\ copied)
    PROVE  TurnInv'
<1>1. sending # 0 /\ copied
  BY DEF SendLineEnd, SendFileLate
<1>2. PICK fd \in Fd, c \in Conn :
        /\ fd = sending /\ c = fdtab[fd] /\ \A g \in Fd \ {fd} : fdtab[g] # c
        /\ Patient(c) /\ Turn(c) =>
              \E a \in Seq(Request), r \in Request, o \in Seq(Part), p \in Seq(Part) :
                  /\ said[c] = Append(a, r) /\ Served(size, o, a, TRUE)
                  /\ Cardinality(Begins(o)) = Len(a) /\ r.method = "GET" /\ r.path \in File
                  /\ size[r.path] # Missing /\ out[c] = o \o p /\ PartWay(c, r, p)
                  /\ rx[c] = <<>> /\ inflight[c] <= Len(p) /\ resource[Slot(fd)] = r.path
  BY <1>1, HalfOf
<1>3. /\ UNCHANGED <<fdtab, stage, rx, method, resource, said>>
      /\ sending' = 0 /\ Rearm(fd, "recv_cb", {"IN"})
  BY <1>1, <1>2 DEF SendLineEnd, SendFileLate, FileDone
<1>4. /\ HttpTypes /\ inflight \in [Conn -> 0..SndBuf] /\ peer \in [Conn -> PeerStates]
      /\ inflight[c] \in Nat
  BY DEF HttpInv, CoreInv, CoreTypeOK
<1>5. \/ /\ ~Gone(c) /\ peer' = peer
         /\ Sent(c, IF Room(c) > 0 THEN <<LineEnd>> ELSE <<>>)
      \/ /\ peer[c] \in {"reset", "timeout"} /\ peer' = [peer EXCEPT ![c] = "pipe"]
         /\ UNCHANGED <<out, inflight>>
  BY <1>1, <1>2 DEF SendLineEnd, SendFileLate
<1>6. \A d \in Conn \ {c} : out'[d] = out[d] /\ inflight'[d] = inflight[d] /\ peer'[d] = peer[d]
  BY <1>4, <1>5 DEF Sent, HttpTypes
<1>7. ~Answering(fd)' /\ \A g \in Fd \ {fd} : ev'[Slot(g)] = ev[Slot(g)]
  BY <1>3, RearmBlock DEF Answering
<1>8. Beside(fd, c)
  <2>1. {sending, sending'} = {0, fd}
    BY <1>2, <1>3
  <2>. QED  BY <1>2, <1>3, <1>6, <1>7, <2>1 DEF Beside
<1>9. \A g \in Fd : ~Busy(g, c)'
  <2>1. \A g \in Fd : g # 0
    BY StdinAssumption
  <2>. QED  BY <1>2, <1>3, <1>7, <2>1 DEF Busy
<1>10. ASSUME Patient(c), Turn(c) PROVE Turn(c)'
  <2>1. PICK a \in Seq(Request), r \in Request, o \in Seq(Part), p \in Seq(Part) :
          /\ said[c] = Append(a, r) /\ Served(size, o, a, TRUE)
          /\ Cardinality(Begins(o)) = Len(a) /\ r.method = "GET" /\ r.path \in File
          /\ size[r.path] # Missing /\ out[c] = o \o p /\ PartWay(c, r, p)
          /\ rx[c] = <<>> /\ inflight[c] <= Len(p) /\ resource[Slot(fd)] = r.path
    BY <1>2, <1>10
  <2>2. p = Body(size, r)
    BY <1>1, <1>5, <2>1 DEF PartWay, Gone
  <2>3. PICK sz \in [File -> Sizes] : sz = size /\ sz = size'
    BY <1>4 DEF HttpTypes
  <2>4. CASE ~Gone(c) /\ Sent(c, IF Room(c) > 0 THEN <<LineEnd>> ELSE <<>>)
    <3>1. Room(c) > 0
      <4>1. PICK n \in 0..MaxSize : Len(p) = n + 1
        BY <2>1, <2>2, <2>3, AnswerParts
      <4>. QED  BY <1>4, <2>1, <4>1, FileAssumption, SocketAssumption DEF FilesFit, Room
    <3>2. out'[c] = (o \o p) \o <<LineEnd>>
      BY <1>4, <2>1, <2>4, <3>1 DEF Sent, HttpTypes
    <3>3. PICK all : all = out'[c]
      OBVIOUS
    <3>4. Served(sz, all, Append(a, r), TRUE) /\ Cardinality(Begins(all)) = Len(Append(a, r))
      <4>1. all = (o \o Body(sz, r)) \o <<LineEnd>> /\ sz[r.path] # Missing /\ Served(sz, o, a, TRUE)
        BY <2>1, <2>2, <2>3, <3>2, <3>3
      <4>. QED  BY <2>1, <4>1, FileCompletes, ZenonT(60)
    <3>5. Rested(c)'
      BY <1>3, <1>9, <2>1, <2>3, <3>3, <3>4 DEF Rested, Begins
    <3>. QED  BY <3>5 DEF Turn
  <2>5. CASE peer' = [peer EXCEPT ![c] = "pipe"] /\ UNCHANGED <<out, inflight>>
    <3>1. AnswerOf(sz, r) \in Seq(Part) /\ Len(p) <= Len(AnswerOf(sz, r))
          /\ \A i \in 1..Len(p) : p[i] = AnswerOf(sz, r)[i]
      BY <2>1, <2>2, <2>3, PartWayBegins
    <3>2. Served(sz, o \o p, Append(a, r), FALSE)
      BY <2>1, <2>3, <3>1, ServedMore
    <3>3. peer'[c] = "pipe"
      BY <1>4, <2>5
    <3>4. CutShort(c)'
      BY <1>3, <1>9, <2>1, <2>3, <2>5, <3>2, <3>3 DEF CutShort
    <3>. QED  BY <3>4 DEF Turn
  <2>. QED  BY <1>5, <2>4, <2>5
<1>. QED  BY <1>8, <1>10, TurnBeside

-----------------------------------------------------------------------------
LEMMA TurnInit == Init => TurnInv
<1>. SUFFICES ASSUME Init, NEW c \in Conn PROVE Rested(c)
  BY DEF TurnInv, Turn
<1>1. out[c] = <<>> /\ said[c] = <<>> /\ rx[c] = <<>>
  BY DEF Init, CoreInit
<1>2. \A fd \in Fd : ~Busy(fd, c)
  BY ConnAssumption DEF Init, CoreInit, Busy
<1>3. Served(size, <<>>, <<>>, TRUE)
  <2>. DEFINE cut == [k \in 0..0 |-> 0]
  <2>1. cut \in [0..Len(<<>>) -> 0..Len(<<>>)] /\ cut[0] = 0 /\ cut[Len(<<>>)] = Len(<<>>)
    OBVIOUS
  <2>2. \A k \in 1..Len(<<>>) : FALSE
    OBVIOUS
  <2>. QED  BY <2>1, <2>2 DEF Served
<1>4. Begins(<<>>) = {}
  BY DEF Begins
<1>5. Cardinality(Begins(<<>>)) = Len(<<>>)
  BY <1>4, FS_EmptySet
<1>. QED  BY <1>1, <1>2, <1>3, <1>5 DEF Rested

LEMMA TurnStep == ASSUME FilesFit PROVE HttpInv /\ TurnInv /\ [Next]_vars => TurnInv'
<1>. SUFFICES ASSUME HttpInv, TurnInv, [Next]_vars PROVE TurnInv'
  OBVIOUS
<1>1. HttpInv'
  BY HttpStep
<1>2. \A c \in Conn : inflight[c] \in Nat
  BY DEF HttpInv, CoreInv, CoreTypeOK
<1>3. CASE UNCHANGED vars \/ Idle
  <2>1. UNCHANGED coreVars /\ UNCHANGED <<httpVars, size, said, out>>
    BY <1>3 DEF vars, Idle, EpollTimeout
  <2>. QED  BY <1>2, <2>1, QuietTurn DEF coreVars, kernelVars, reactorVars, httpVars
<1>4. ASSUME NEW c \in Conn, Client(c) PROVE TurnInv'
  BY <1>4, ClientSayTurn, ClientMoveTurn DEF Client, ClientSay
<1>5. ASSUME NEW f \in File, NEW n \in Sizes, Edit(f, n) PROVE TurnInv'
  <2>1. UNCHANGED coreVars /\ UNCHANGED <<httpVars, said, out>>
    BY <1>5 DEF Edit
  <2>2. \A g \in File \ Edited : size'[g] = size[g]
    BY <1>5 DEF Edit, HttpInv, HttpTypes
  <2>. QED  BY <1>2, <2>1, <2>2, QuietTurn DEF coreVars, kernelVars, reactorVars, httpVars
<1>6. CASE Server
  <2>1. size' = size
    BY <1>6 DEF Server
  <2>2. CASE sending = 0 /\ EpollWait /\ UNCHANGED <<httpVars, said, out>>
    BY <1>2, <2>1, <2>2, QuietTurn DEF EpollWait, kernelVars, httpVars
  <2>3. ASSUME NEW b \in batch, sending = 0, accept_cb(b), UNCHANGED <<httpVars, said, out>>
        PROVE  TurnInv'
    BY <2>1, <2>3, AcceptTurn
  <2>4. ASSUME NEW b \in batch, sending = 0, recv_cb(b) PROVE TurnInv'
    BY <2>1, <2>4, RecvDataTurn, RecvOverTurn DEF recv_cb
  <2>5. ASSUME NEW b \in batch, sending = 0, send_cb(b) PROVE TurnInv'
    BY <1>1, <2>1, <2>5, SendHeadTurn, SendOverTurn DEF send_cb
  <2>6. CASE SendFile \/ SendLineEnd \/ SendFileLate
    BY <2>1, <2>6, FileCopiedTurn, FileDoneTurn
  <2>7. CASE SendFileKilled
    BY <1>2, <2>1, <2>7, QuietTurn DEF SendFileKilled, kernelVars, httpVars
  <2>. QED  BY <1>6, <2>2, <2>3, <2>4, <2>5, <2>6, <2>7 DEF Server
<1>. QED  BY <1>3, <1>4, <1>5, <1>6 DEF Next

\* A client that waits for its answers gets them whole, in order, each for the
\* file it asked for, however many requests it sends and whatever the others do
\* with its descriptor before, as long as a file fits into the send buffer.
THEOREM HttpAnswersInOrder == ASSUME FilesFit PROVE Spec => []AnswersInOrder
<1>1. HttpInv /\ TurnInv => AnswersInOrder
  <2>. SUFFICES ASSUME HttpInv, TurnInv, NEW c \in Conn \ Hasty,
                       \A i \in 1..Len(said[c]) : Unedited(said[c][i])
                PROVE  InTurn(out[c], said[c])
    BY DEF AnswersInOrder
  <2>1. Patient(c) /\ HttpTypes
    BY DEF Patient, HttpInv
  <2>2. Served(size, out[c], said[c], TRUE) \/ Served(size, out[c], said[c], FALSE)
        => InTurn(out[c], said[c])
    <3>1. \A q : AnswerOf(size, q) = Answer(q)
      BY DEF AnswerOf, Answer, Body, SizeOf, Contents
    <3>2. SUFFICES ASSUME NEW whole \in BOOLEAN, Served(size, out[c], said[c], whole)
                   PROVE  InTurn(out[c], said[c])
      OBVIOUS
    <3>3. PICK cut \in [0..Len(said[c]) -> 0..Len(out[c])] :
            /\ cut[0] = 0 /\ cut[Len(said[c])] = Len(out[c])
            /\ \A k \in 1..Len(said[c]) :
                  /\ cut[k] - cut[k - 1] \in 0..Len(AnswerOf(size, said[c][k]))
                  /\ cut[k] - cut[k - 1] = Len(AnswerOf(size, said[c][k]))
                     \/ (~whole /\ cut[k] = Len(out[c]))
                  /\ \A i \in 1..(cut[k] - cut[k - 1]) :
                        out[c][cut[k - 1] + i] = AnswerOf(size, said[c][k])[i]
      BY <3>2, Zenon DEF Served
    <3>4. ASSUME NEW k \in 1..Len(said[c])
          PROVE  /\ cut[k] - cut[k - 1] \in 0..Len(Answer(said[c][k]))
                 /\ cut[k] - cut[k - 1] = Len(Answer(said[c][k])) \/ cut[k] = Len(out[c])
                 /\ \A i \in 1..(cut[k] - cut[k - 1]) :
                       out[c][cut[k - 1] + i] = Answer(said[c][k])[i]
      <4>1. AnswerOf(size, said[c][k]) = Answer(said[c][k])
        BY <3>1
      <4>. QED  BY <3>3, <4>1, Zenon
    <3>. QED  BY <3>3, <3>4, Zenon DEF InTurn
  <2>3. CASE Rested(c) \/ CutShort(c)
    BY <2>2, <2>3 DEF Rested, CutShort
  <2>4. ASSUME NEW a \in Seq(Request), NEW r \in Request, NEW o \in Seq(Part), NEW p \in Seq(Part),
               said[c] = Append(a, r), Served(size, o, a, TRUE), out[c] = o \o p,
               p = <<>> \/ (size[r.path] # Missing /\ PartWay(c, r, p))
        PROVE  InTurn(out[c], said[c])
    <3>1. r.method = "GET"
      BY <2>1, <2>4, LastAsked DEF Unedited
    <3>2. size \in [File -> Sizes]
      BY <2>1 DEF HttpTypes
    <3>3. PICK w \in Seq(Part) : w = AnswerOf(size, r)
      BY <3>1, <3>2, AnswerParts
    <3>4. Len(p) <= Len(w) /\ \A i \in 1..Len(p) : p[i] = w[i]
      <4>1. CASE p = <<>>
        BY <4>1
      <4>2. CASE size[r.path] # Missing /\ PartWay(c, r, p)
        <5>1. p = <<Header(r.path, size[r.path])>> \/ p = Body(size, r)
          BY <4>2 DEF PartWay
        <5>2. PICK sz \in [File -> Sizes] : sz = size
          BY <3>2
        <5>3. Len(p) <= Len(AnswerOf(sz, r)) /\ \A i \in 1..Len(p) : p[i] = AnswerOf(sz, r)[i]
          BY <3>1, <4>2, <5>1, <5>2, PartWayBegins
        <5>. QED  BY <3>3, <5>2, <5>3
      <4>. QED  BY <2>4, <4>1, <4>2
    <3>5. Served(size, o \o p, Append(a, r), FALSE)
      BY <2>4, <3>3, <3>4, ServedMore
    <3>. QED  BY <2>2, <2>4, <3>5
  <2>5. CASE Awaits(c)
    <3>1. PICK a \in Seq(Request), r \in Request :
            said[c] = Append(a, r) /\ Served(size, out[c], a, TRUE)
      BY <2>5 DEF Awaits
    <3>2. PICK o \in Seq(Part) : o = out[c]
      BY <2>1 DEF HttpTypes
    <3>3. PICK p \in Seq(Part) : p = <<>>
      <4>1. <<>> \in Seq(Part)
        OBVIOUS
      <4>. QED  BY <4>1
    <3>4. o \o p = o
      BY <3>3
    <3>5. Served(size, o, a, TRUE) /\ out[c] = o \o p
      BY <3>1, <3>2, <3>4
    <3>. QED  BY <2>4, <3>1, <3>3, <3>5
  <2>6. CASE HalfAnswered(c)
    <3>1. PICK a \in Seq(Request), r \in Request, o \in Seq(Part), p \in Seq(Part) :
            /\ said[c] = Append(a, r) /\ Served(size, o, a, TRUE)
            /\ size[r.path] # Missing /\ out[c] = o \o p /\ PartWay(c, r, p)
      BY <2>6 DEF HalfAnswered
    <3>. QED  BY <2>4, <3>1
  <2>. QED  BY <2>1, <2>3, <2>5, <2>6 DEF TurnInv, Turn
<1>. QED  BY <1>1, HttpInit, HttpStep, TurnInit, TurnStep, PTL DEF Spec
=============================================================================
