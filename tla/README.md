# TLA+ models of the network practice servers

The repository is a collection of small C programs about network servers: echo
servers on threads, `select`, `poll` and `epoll`, a reactor and the HTTP and
WebSocket servers built on it, a UDP server, an echo responder on netmap, a
memory pool and two nginx modules.  This directory holds TLA+ modules of the
parts with a state of their own, the TLC configurations that check them, and
theorems, with proofs for TLAPS, about the reactor and its echo, HTTP and
WebSocket servers, the loops of `1 epoll` and the first reactor, the memory pool,
the page counter, the UDP server and the netmap responder.

Paths are relative to the repository.  `PROJECT.json` maps every definition to
the lines it models, and lists the runs, the findings, the hazards and the
theorems.

Contents: [1 The system](#1-the-system) · [2 Modules](#2-modules-and-code) ·
[3 Runs](#3-runs) · [4 Fairness](#4-fairness) · [5 Proofs](#5-proofs) ·
[6 Findings](#6-what-the-code-does-that-its-comments-deny) ·
[7 Not modelled](#7-what-is-not-modelled) · [8 Plan](#8-plan) ·
[9 How to run](#9-how-to-run)

## 1 The system

| component | source | state it keeps | operations | interacts with |
|---|---|---|---|---|
| reactor core | `2 react/reactor_server_my.c`, the same text in `3 http/reactor_server_my.c`, and again inside the HTTP and the WebSocket server | `ntyreactor` (epoll descriptor, list of blocks), an `ntyevent` per descriptor (fd, events, callback, status, buffer) | `ntyreactor_run`, `nty_event_set/add/del`, `ntyreactor_idx`, `accept_cb` | kernel through epoll and sockets; calls the callbacks |
| echo service | the same file | buffer and length of the block | `recv_cb`, `send_cb` | clients |
| HTTP server | `3 http/httpserver.c` | method, resource, wbuffer, wlength, issend of the block | `recv_cb`, request parser, `http_response`, `send_cb` | clients, file system |
| WebSocket server | `4 websocket/websocket_server_my.c`, page `websocket.html` | ws_stat, is_close, wbuffer, wlength of the block | `recv_cb`, `wshandle`, `handshark`, `transmission`, `send_cb` | browsers |
| memory pool | `7 mmpool/mmpool_my.c` | chain of blocks (last, end, failed), current, list of large cells | create, destroy, `mp_alloc`, `mp_nalloc`, `mp_calloc`, `mp_memalign`, `mp_free`, `mp_reset_pool` | malloc |
| select server | `1 epoll/server3.c` | read and write sets, maxfd, one buffer and count for all clients | one loop | clients |
| poll servers | `1 epoll/server4.c`, `server5.c` | array of pollfd, max_fd, one buffer | one loop | clients |
| page counter | `8 nginx module/ngx_pagecount_my` | red-black tree in shared memory, a mutex, local pointers of each worker | handler, lookup, insert, rendering | nginx workers in parallel |
| thread per client server | `1 epoll/server2.c` | `clientfd`, a variable of the accept loop that threads read | accept loop, `routine` | threads |
| epoll server | `1 epoll/server6.c` | epoll set, one buffer | one loop | clients |
| single client server | `1 epoll/server.c` | none | accept, then recv and send | one client |
| first reactor | `2 react/server2.c` | list of blocks of `sock_item` | `reactor_lookup`, `reactor_resize`, loop | clients |
| UDP server | `5 udp/udp_server_my.c`, `udp_client.c` | an epoll set, a connected socket for each datagram taken from the listening one | `main`, `udp_accept`, `read_data` | kernel's choice of a socket |
| netmap responder | `6 netstack/icmp_arp_udp_success.c` | none | `in_cksum`, `str2mac`, three replies | network card |
| prefix filter | `8 nginx module/nginx_filter_module_my` | the next filters of nginx's chain | header and body filter | the handlers whose responses pass it |

What is hard in them, and what makes each correct:

* **Reactor.**  One thread handles a batch of events while the callbacks it runs
  close, reuse and re-arm descriptors; the interest set in the kernel and the
  control block must agree, although they are changed by different calls and a
  block survives the connection it served.  Correct: what epoll watches is what
  the blocks say; an event reaches the connection it was reported for; every
  open connection is watched; bytes come back complete, once and in order; what a
  client sent before it shut down is echoed before the close; descriptors are
  given back.  It should be an echo service (`EchoService`) for its clients.
* **HTTP.**  One answer is spread over several calls of `send_cb`, and the parsed
  request stays in the block.  Correct: answers in the order of requests, the
  units of a file under their own header, the whole file, the right method.
* **WebSocket.**  A protocol with states, kept in a block that is not cleared.
  Correct: handshake first, replies in order, only frames, no state inherited
  from the last client, hang up only on those who leave.
* **Memory pool.**  Correct: ranges in use are disjoint and lie in their block,
  large ranges are owned by one cell, a search is short and skips only blocks
  that kept failing.
* **select, poll and epoll servers.**  Blocking sockets in one loop: one call that
  waits stops everybody.  Correct: `recv` and `accept` are never called where they
  would wait, also for a descriptor that was closed and reused since it was
  reported; exactly the open descriptors are watched; the count of ready entries is
  exact; every client is served; bytes of one client never go to another.
* **First reactor.**  A descriptor is registered for reading or for writing, and
  what it is owed is a length in an item found by arithmetic in a list of blocks
  that grows.  Correct: as above, and each client is owed its own length.
* **Thread servers.**  A thread takes its descriptor from a variable the accept
  loop writes again.  Correct: each client has a thread of its own, no byte is
  lost, descriptors are given back.
* **Page counter.**  Workers in parallel on one tree, the update under a mutex and
  the rendering outside it; the page lies on the stack of a handler that has
  returned when a slow client takes the rest.  Correct: counts are exact, the tree
  is linked both ways whenever the mutex is free, a page is complete, no worker
  crashes.
* **Prefix filter.**  The header filter adds to a length that may not be known,
  the body filter runs once for each call and not once for each response.
  Correct: one prefix, in front of the page, and never a longer length than body.
* **UDP server.**  The listening socket is edge-triggered and is drained while six
  system calls are made for each datagram; datagrams arrive between any two of
  them, and the kernel may put them into a socket that is not connected or watched
  yet.  Correct: none is left where nobody will look, no blocking socket is read
  when it is empty, each is read in the end.
* **Netmap responder.**  Byte arithmetic (16-bit sums with carries, hexadecimal
  digits) and a swap of addresses field by field between two frames.  Correct:
  the reply is for who asked, its checksum verifies, hosts learn the address
  that was configured.

## 2 Modules and code

```
ReactorCore  <- EchoReactor  (instance of EchoService)  <- MCEcho
             <- HttpServer                              <- MCHttp
             <- WebSocketServer                         <- MCWebSocket
             <- ReactorProofs <- EchoProofs (and EchoReactor), HttpProofs (and HttpServer),
                                 WsProofs (and WebSocketServer)
Sockets <- EchoLoop <- SelectServer, PollServer, EpollServer, FirstReactor, ThreadServer
                          <- EchoServers (all five)     <- MCEchoServers
                                                        <- ServerProofs
MemPool                   <- MCMemPool                  <- MemPoolProofs
PrefixFilter <- PageCount <- MCPageCount                <- PageProofs
UdpServer                 <- MCUdp                      <- NetProofs
NetStack                  <- MCNet                      <- NetProofs
```

**ReactorCore** is the part the three reactor servers share, with the kernel and
the clients as its environment.  A callback runs alone and is one step; only its
first system call reads state that a client may change at the same time, so
nothing is lost by that.  `fdtab`, `interest`, `backlog`, `rx`, `inflight` and
`peer` are the kernel's; `ev` are the control blocks (`Slot(fd)` is the place
`ntyreactor_idx` computes), `blkcnt` the number of blocks and `batch` what the
last `epoll_wait` returned and is not dispatched yet.  `EventSet`, `EventAdd`,
`EventDel` with `EpollAdd`, `EpollDel` are `nty_event_set/add/del`: a MOD of a
descriptor that is not registered, or an ADD of one that is, fails as in the
kernel and changes nothing.  The order within a batch is arbitrary.  `Faults`
names the rare things the environment may do: `fcntl` fails, readiness that is
gone (`eagain`), a peer that times out, a peer that closed and answers with RST
(`pipe`, which gives SIGPIPE).

**EchoReactor** adds `recv_cb` and `send_cb` of the echo server.  A byte is the
pair of its connection and its number, so that order, loss, repetition and mixing
are all visible.  **EchoService** is what clients are promised: bytes are
answered in order, a connection that ended in good order is answered
completely before it goes down.  `Refinement` is `Service!Spec` under the mapping
`sent`, `out`, `ServiceState`.

**HttpServer** has the parser, the answer in three parts (header, file by
`sendfile`, line end) and the blocks' fields that outlive a request.  The answer
is a sequence of parts, not text; a request arrives whole.  The three system calls of an
answer are three steps (`sending` is the descriptor between the first and the last,
`copied` says that `sendfile` returned), because a client can reset and a file can
change between them.  `size[f]` is what `fstat` says, or `Missing`; a
`Directory` can be opened and has a size, but `sendfile` gets nothing from it, and
such an answer is a header and the line end, as it is for an empty file.
`Edited` are the files somebody else changes, empties or removes while they are
served, `Start` the sizes files may begin with, `Hasty` the clients that send before
they were answered.  `Asks` and `MaxSaid`, what a client may ask for and how often, are
given for each client, so that one instance has a hasty one and a patient one.

**WebSocketServer** has the handshake and the frames, by the classes of length the
code tells apart (none, 1–115, 116–125, 126 and more) and by a key whose digest
has a zero byte or not.  A message arrives whole.  `Habits` says whether clients
leave without a close frame (`abrupt`), send before they were answered
(`pipelined`) or say anything at any time (`unruly`): a frame before the handshake, a
second handshake, more after a close frame.  `handshark` and `transmission` read a
message as text up to its first zero byte, so what was read behind it (`late`) can
change the reply: a key is found in the next message, a frame is echoed with bytes of
the next one.

**MemPool** keeps for each block its end, last and failed, the place of
`current`, the list of large cells and, as the history the properties need, the
ranges handed out (`live`) and the blocks of malloc in use (`heap`).  Addresses
are offsets from the start of a block.  After a range that leaves its block the
C program is undefined, and the model stops (`Ready`).

**Sockets** is the environment of the servers in `1 epoll` and of the first
reactor: blocking sockets, where a call that cannot go on has no step.
**EchoLoop** has what their loops share: the descriptors watched, those reported, `maxfd`, the place of the loop
(`i`, and `pc` for the next system call), accepting, and `send`, which takes what
there is room for and goes on later.  **SelectServer** adds the steps of
`server3.c` (each descriptor watched for reading or for writing, one buffer and one
count for everybody; `Garbage` is what its uninitialised sets may hold at the
start, and `ret` is any length then), **PollServer** those of `server4.c` and
`server5.c` (they differ in where `nready` is decremented), **EpollServer** those
of `server6.c` (the events of a batch in any order).  **FirstReactor** is
`2 react/server2.c`: the same loop, with an item for each descriptor (`Item` is
where `reactor_lookup` finds it, `blkcnt` the blocks made so far) and a descriptor
that is turned between reading (`fds`) and writing (`outs`).  Its `send` is given a
buffer that nothing fills, so the bytes are `Zero` and only their number means
something.  **ThreadServer** is `server2.c`, with `clientfd` of main and, for each
thread, its place, its descriptor and the bytes its `send` has still to take; and
`server.c`, which is main serving one client like such a thread.  When a thread
has read a `clientfd` that main wrote again (`OwnClient` fails), two threads use
one descriptor; what they do then is not followed.  **EchoServers** puts the seven
programs together: `program` is the one that runs, and the properties are stated
once, of all the programs that keep them.

**PageCount** models the handler for several workers.  Under the mutex the lookup
is one step, but the insertion is write by write, because a worker that renders
holds no lock; so is the rendering, pointer by pointer.  Which nodes a search meets
is the set `Way`, the least one that contains the root and that the search does not
leave; the node it looks for is found when it is in it.  Memory of a fresh node
reads as NULL, and a worker that follows NULL is `dead` until nginx replaces it.
The rotations of `ngx_rbtree_insert` are nginx's; any two of them or fewer, each a step
of its own, are allowed after an insertion, which includes what the colours would
choose.  `ngx_rbtree_next` reads the root once, before its way up: `top` is that value,
which another worker's rotation may make stale.
The response goes through **PrefixFilter**, which has the header filter on a
length (`Unknown` is the −1 the handler leaves) and the body filter on the parts
of one call.  A `Slow` client takes the page in two parts, and `Writer` is the call
nginx makes for the second one.  The response of a worker is followed until the
worker sends its next one.

**UdpServer** has main, `udp_accept` and `read_data` with each system call as a
step.  `queue` are the sockets' receive queues, `edge` is whether epoll still has
something to report of the edge-triggered listening socket, `watched` are the
connected sockets.  The kernel's lookup is the environment (`Receivers`): a
connected socket if there is one for the sender, else any bound one that is not
connected, which between `bind` and `connect` is also the new one.  A datagram may
be lost on its way.

**NetStack** has the two rings of netmap and the hosts on the segment.  A host asks
for any address by ARP, or announces its own, and sends datagrams and ICMP messages for
any IP address to the MAC address it has for the program or to all (`Reaching`):
main checks neither `h_dest` nor `daddr`.  `Known` are the hosts that have the
address of the card at the start.  `asked` is a history, the frames that reached the
ring; a host may send a frame again at any time (`SendAgain`), and `MaxAsked`
bounds the different ones.
`str2mac` is a fold over the characters of an address (each the value of its
digit, or the colon, 16), `in_cksum` the two foldings of a sum of words of which
the data words are given by their sum, `DataSum`.  The three replies are written
field by field in the order of the code, because the swap depends on it.

A definition named after another one with a suffix (`Slot_OneBlock`,
`ThreadEnd_NotClosed`) is that one with a plausible mistake; it is used nowhere, and is
there to show that the property named with it in `PROJECT.json` notices it.

## 3 Runs

`CHECK_DEADLOCK FALSE` appears where the program can be killed (SIGPIPE, NULL),
where a call of a blocking socket may wait for ever, or where bounded clients,
descriptors and memory are used up.  The reactor without such faults is checked for deadlock
(EchoPolite, WsPolite): its `epoll_wait` with a timeout can always go on.

| run | what it shows | bounds |
|---|---|---|
| EchoPolite | no rare faults: no connection is forgotten, every byte comes back once and before the close, descriptors are given back; the reactor implements `EchoService` | 2 connections on 2 descriptors, 3 bytes each, reads and batches of 2 |
| EchoFaults | every fault, short sends: blocks mirror epoll, no stale dispatch, own bytes in order | 2 connections, descriptors in two different blocks, send buffer of 2 with a low-water mark of 1, so that a writable socket may have less room than a read |
| WsPolite | browsers that wait and end with a close frame: fresh blocks, replies in order, all answered | 2 connections, 3 messages (handshakes, text, close) |
| WsRude | all kinds of messages in any order (a frame first, a second handshake, more after a close frame), leaving at any time, every fault: whoever opens with a request is answered that first, no leftover reply, nobody is hung up on before a close frame of its own was read | 2 connections on one descriptor, which is reused; 2 messages each, so that one is read with the other or after it |
| Http | a patient client gets whole answers to its own requests, in order, and all are answered; units only under a header of their file; only after something else than a GET is a client hung up on | 2 connections on 1 descriptor, used in turn: c1 does not wait (2 requests, POST or GET for a file that is changed, emptied and removed at any time), c2 does (1 request, GET for a file, a directory or a file that is not there, or a method the parser does not know); time-outs; a send buffer of 3: a header, a unit and its line end.  Order within one patient client is the theorem `HttpAnswersInOrder` |
| Pool | ranges in use are disjoint, each large block is in one cell, a search looks at seven blocks or fewer, only tired blocks are skipped | pool sizes that are and are not multiples of the alignment, requests of 40, 64 (large in the smaller pool) and 100 bytes, 2 large blocks at a time, 9 blocks in a chain: `failed` passes its limit of 4 and current moves |
| EchoServers | the seven programs: no loop waits in `accept` or `recv` (`send` may wait for the client to read), the open descriptors are watched, `nready` is exact, bytes are conserved while `send` waits, every client is served and reclaimed | 2 connections with 2 bytes and 1, reads of 2, send buffer of 1; an item block of the first reactor holds one item, so that each descriptor needs a block |
| PageCount | two workers: counts are exact and the tree is linked both ways when the mutex is free, a page of a worker alone is complete, in order and behind one prefix, every request is served or its worker dies | 3 clients, one of them slow, memory for 2 nodes, 3 requests, so that it is used up, counts of width 2 so that they wrap.  Larger trees, in which a second rotation does something, are left to the theorems |
| Udp | no datagram is left where main does not look, no read of a blocking socket waits, every datagram is read before the descriptors are used up | 2 peers with 3 datagrams each, 3 descriptors, so that `exit(1)` is reached and is not reached; the window between `bind` and `connect` for both peers |
| Net | hosts learn the configured address, each reply goes to who asked, from the addresses asked, with the fields of that one question, each checksum verifies | 2 hosts, one of which knows the card from the start, and addresses of the program, of the hosts and of nobody; 1 received and 2 sent frames in the rings, 2 different frames in a behaviour, each any number of times, header words 0 and 65535, data sums without a carry, with one and with the most there can be (16 · 65535) |
| ThreadRace | violated: no descriptor is left without a thread | 2 clients of server2 |
| PageRace | violated: no worker dies while it renders | 2 workers, 2 clients |

The bounds are small, but each is chosen to make its case occur: more connections
than descriptors (reuse while a batch is open), a message longer than a read and a
read longer than the send buffer, descriptors in two blocks.  A third connection on
a descriptor meets the same block state as a second, so more would add no new case.
In the `1 epoll` models there are as many descriptors as connections, because those
programs return from main when `accept` fails; a descriptor that was closed is
given out again.  In EchoServers the sets and the count of server3 start empty, as
they do in zeroed memory.  With `Garbage <- TwoFds` the same invariants hold from
any other start too (1.4 million states for server3 alone, too many for liveness
properties in the same run); for `NoBlockingCall` and `WatchesOpenOnly` that is
also proved.

## 4 Fairness

* `WF_vars(Server)` for the reactor and for each of the single-threaded servers:
  the loop is `while (1)`, and goes on whenever a call can return.  Nothing is
  assumed about which ready descriptor is handled first; the batch and the scan
  take care of that, which is what the liveness runs check.  It is the same for
  main of the UDP server.
* For the threads of server2 the one `WF_vars(Server)` is enough: a thread has
  finitely many steps here, because its client sends finitely many bytes, so no
  other thread can be passed over for ever.
* `WF_vars(ClientRead(c))`: clients read what they are sent.  The code depends on
  it (a client that never reads is owed nothing), and it says nothing about when
  a client sends or leaves.
* `WF_vars(Handler(w))` for each nginx worker: the scheduler runs every process,
  and the mutex is only waited for while another worker holds it.

No fairness is given to connects, sends, faults, edits, or to the clients nginx
waits for (`Writer`).

## 5 Proofs

`tlapm` checks the proofs of eight modules for all values of the constants.

**ReactorProofs** has the lemmas about the core and its inductive invariant

    CoreInv == CoreTypeOK /\ PollMirrorsBlocks /\ OneFdPerConn /\ BatchInv /\ BacklogInv

`PollMirrorsBlocks` is not inductive alone: that `accept_cb` may call
`nty_event_add` without `nty_event_del` is right only because a free descriptor is
not registered, hence its status is 0; and that an event of an open batch still
finds its connection needs `BatchInv` (one event per descriptor, each for the
registered events and connection), since callbacks of the same batch change
blocks.  `SlotInjective` is the arithmetic behind `ntyreactor_idx`: different
descriptors have different blocks.

**EchoProofs** proves for the echo reactor, from the assumptions of the modules:

* `TypeCorrect` — `[]TypeOK`;
* `ReactorSafe` — `[](PollMirrorsBlocks /\ OneFdPerConn)` — and `NothingStale` —
  `[]NoStaleDispatch` — with every fault allowed;
* under `NoShortSend == SndLowWat >= BUFFER_LENGTH`, that a socket epoll reports
  writable has room for a whole read: `EchoConserved` (`[]EchoConservation`),
  `Drained` (`[]DrainBeforeClose`) and `Implements` (`Spec => Refinement`).
  Without the assumption they are false, as `send_cb` forgets what `send` did not
  take; Linux reports a TCP socket writable from a third of its buffer on, far
  more than the 4096 bytes of the buffer here with default settings.
  The invariant adds to CoreInv that a block in `send_cb` holds between 1 and
  BUFFER_LENGTH bytes, and that a connection that was never accepted has got
  nothing;
* under `NoRareFaults` (no `fcntl` failure, no lost readiness, no time-out):
  `NoneForgotten` (`[]NoOrphan`).  `Readies` is why: an event of the batch for
  `recv_cb` finds something to read, hence RecvError is never taken;
* without either assumption: `OwnBytesOnly` (`[]OwnBytesInOrder`).  `OrderInv`
  numbers the bytes: what waits in `rx` are the last ones its client sent, in
  order; what lies in the block are the ones right before them; what the client got are
  its own, ascending, and before those.  `SendOk` may lose the end of the block, and
  nothing else.

**HttpProofs** proves on CoreInv, for files of any size, every edit, habit and fault,
`HttpUnitsUnderHeader` and `HttpHangsUpOnPostOnly`.  An answer takes several system
calls and may be given up between them, so the invariant says what the control
block holds then: a block with `issend` set has the header of its own `resource` in
`wbuffer`, or is armed for `send_cb` with a GET, which makes a new answer (`LeftAt`);
between the header and the line end no event of the batch is about the descriptor, and
until `sendfile` has returned the header is the last part sent (`SendingInv`); a block armed with POST belongs to a
client that sent something else than GET, as a method the parser does not know
leaves that of an earlier client (`PostAt`).  `HeadedByFile` is the lemma about the
parts: any number of units and the line end behind a header stay behind it.

`HttpAnswersInOrder` compares with whole conversations, of any length.  It is proved
under `FilesFit == MaxSize + 2 <= SndBuf`, that a file, its header and its line end go
into the send buffer; without it `sendfile` cuts a file short, and the property is
false.  A client that waits for its answers is always in one of four places of a
turn (`Turn`): all its requests were answered and nothing of it is anywhere
(`Rested`); the last one was received, or its block holds the method and the
resource of just that one (`Awaits`); the header is out and the file or the line end
is next, and what was sent is that far an answer (`HalfAnswered`, `PartWay`); or the connection ended on the way (`CutShort`), and then only
the last answer is not whole.  `Served` says what was sent by then, one answer for
each request, by the places where answers begin.  That a client which was lost in the
middle of an answer is not sent the rest of it later rests on `LeftAt` again.  A
descriptor is never 0 here (`StdinAssumption`), as 0 in `sending` means that no
file is due.

**WsProofs** proves on CoreInv, for every kind of message, habit and fault,
`WsNoLeftoverReply`, `WsHangsUpOnLeaversOnly` and `WsHandshakeFirst`.  The
invariant adds that `wlength` is not 0 only in a block whose `send_cb` is armed
(`LeftoverAt`); that what is to be sent first to a client that opened with a request
and got nothing yet is the answer to that request, and that until it is sent nothing
more is read of this client, though the block may have been left in the middle of a
session (`GreetsAt`); that a block with `is_close` set has left its session, so
that no data frame meets it (`CloseInv`); and that what is still to be read of a client
is the end of what it said (`Input`), so that what was read is the rest.  Nothing is
assumed about what clients say: they may be `unruly` (`RxInv` is about the others).

Two more are about conversations.  `WsRepliesInOrder` (`[]RepliesInOrder`) assumes
`Patient`, that no client sends before it was answered: the code reads several
messages at once and answers the first, so without it the property is false.  A
client then is `Quiet`, or has `Asked` and the message waits to be read, or it was
`Read` and its reply, if there is one, lies in the block (`ReplyTo`); whoever was
answered, or is about to be, has a block past the handshake (`SessionAt`), so that a
frame is never taken for a handshake.  `SendOk` may cut the reply short: what is
sent is then nothing, or begins with the part that answers (`ReplyCut`).  Clients may
still leave without a close frame, and every fault may happen.
`WsFreshBlock` (`[]FreshBlock`) assumes `Faithful`: patient clients that leave before
they said anything or with a close frame, and no time-out.  `accept_cb` does not reset
`ws_stat`, so the invariant shows that each block comes back reset: a client that
left said nothing, or its close frame is still to be read (`GoodBye`), and a block
that is free, or on which nothing of its client was read, waits for a handshake
(`FreshAt`).  Both run in WsPolite; section 6 has what happens among other clients.

**ServerProofs** proves for the loops of `server3.c` to `server6.c` and of the first
reactor `ServersCountExact`, `ServersNoBlockingCall` and `ServersWatchOpenOnly`, for
any number of clients and descriptors and whatever the uninitialised sets hold.
`ServerInv` is one invariant for all of them: a connection has one descriptor or is
once in the backlog (`SockInv`); what the loop has still to come to was reported
and is still good for what it was reported for, since clients only add to
readiness and the loop itself touches only the entry it is at (`PendingInv`);
what is watched is what is open (`WatchInv`); `nready` is what is left of the
report (`CountInv`).

`ServersEchoConservation` is about the bytes, for buffers of any size and a `send` that
takes them in any number of parts.  Along a connection that is not lost, what was
given to `send`, what the server holds and what is still in the socket make up the
bytes the client sent (`Carries`): what the server holds is what `send` has left in
the loops (`PollerBytes`) and the buffer of each thread (`ThreadInv`).  In the first
reactor only the numbers can agree (`Amounts`), and what it holds is the length in
the item of the descriptor (`ItemBytes`), which no other descriptor shares.

**MemPoolProofs** proves

* `PoolTypeCorrect`, `RangesDisjoint` from
  `PoolInv == TypeOK /\ Chain /\ (\A r \in Regions : Below(r)) /\ Disjoint`:
  disjointness needs that each range ends at or below `last` of its block, which
  holds across `mp_reset_pool` only because all ranges are taken back with it;
* `ScansBounded`, `SkipsAreTired` from `Counted`, which says what the counters are:
  from current on, a block has failed as often as there are blocks behind it but
  the last;
* `LargePaired` (`[]LargeExact`), which is inductive with the types: a new name is
  taken only from what `malloc` did not give out yet, hence no cell has it.

The assumption `CellsAreSmall` (a cell is a small request) is what the code needs
to terminate at all.

**PageProofs** proves `PageTypeCorrect`, `PageCountsExact`, `PageLinkedBothWays` and
`PagePageExact` for any number of workers, keys and requests and any count width.  The
first three are from

    IInv == TypeOK /\ Exclusive /\ AtWork /\ Tree /\ Counts

`Exclusive` is mutual exclusion: a worker is between the lock and the unlock exactly
when it holds the mutex.  `Tree` says that the counted nodes are a search tree,
linked both ways, in which each is on the path of its own key (`SearchTree`, `Path`).
While a worker has written some of the pointers of an insertion the memory is no
such tree, so `Tree` is about `Left`, `Right` and `Parent`: the pointers as they will
be when the worker has written the rest.  Each write of the insertion then leaves
them alone, and what changes the tree has lemmas of its own: the first node
(`Planted`), a node put where the search for it ends (`Grafted`), and a rotation
(`Rotated`), of which the right one is the mirror image of the left one, with the
order of the keys turned around (`Mirror`).  That every search still finds its node
after a rotation is `LeftFindable`.

`PagePageExact` needs to know where a worker is on its walk.  `Behind` names the keys it
has passed at each of the four places of the loop: at `min` the lesser ones outside
what is below the node (`Under`), at `line` all lesser ones, at `next` the node too, at
`up` also what is below it (`top`, the root that was read before the way up, is
still the root then, as the tree of a worker alone does not change).  The lemma `Walked` shows that a step to the left, to the
right or up leaves this set as it was, and that at the root it is the whole tree; it
rests on two facts about search trees, that what is below the left child is less
(`UnderOrder`) and that what lies between two nodes below n is below n as well
(`UnderConvex`).  The invariant `WalkInv` then says that the page so far has exactly one
line for each key behind, in order, as long as no other worker has served anybody.

**NetProofs** has the theorems of both packet programs.  `UdpNothingForgotten` and
`UdpNoBlockingRead` follow from an invariant that says where a datagram can be: in a
watched socket, in the listening one while an edge is kept or the drain goes on, or
in the one being made.

`NetRepliesReturn`, `NetChecksumRight` and `NetHostsLearnUs` are about the responder.
The lemma `CksumVerifies` is the arithmetic: for a sum of 20 words, two foldings
leave 16 bits, and a message with the complement in it sums to 65535; it covers
every payload, where the run has three.  `NetHostsLearnUs` is for every address: if
the text the program was given is that of some address (`print_mac`), a host that has
resolved it has learnt just that one.  `StrMacInverse` follows `str2mac` through the 17
characters, whatever was in the array before (the code lets it write over the
address the request came from); `Named` is what the answers in the ring carry.
The invariant of `NetRepliesReturn` is that each frame in the transmit ring answers one
of `asked` (`Replies`), whoever that one was sent to; that no handler reads a field it has
overwritten is what its three steps show.

Only model-checked: the liveness properties (`EventuallyEchoed`, `EventuallyAnswered`,
`EventuallyRead`, `EventuallyServed`, `Reclaimed`) and ENABLED, which are out of the
prover's reach.  Every other property of a passing run is stated by a theorem.

## 6 What the code does that its comments deny

Two of them are runs that TLC violates, with the quotation in `PROJECT.json`:

| run | behaviour | line |
|---|---|---|
| ThreadRace | two clients accepted in a row: both threads serve the second | `1 epoll/server2.c:64` |
| PageRace | rendering outside the mutex follows a NULL pointer | `8 nginx module/ngx_pagecount_my/…my.c:307` |

The models have the following behaviours too, and the properties are worded so
that they hold in spite of them:

| behaviour | line | where it is in the models |
|---|---|---|
| a `recv` that finds nothing leaves the connection unwatched | `2 react/reactor_server_my.c:327` | `RecvError`; `NoOrphan` fails with `"eagain"` in `Faults` |
| an error other than ECONNRESET keeps the descriptor for ever | `:331` | `RecvError`; `Reclaimed` fails with `"timeout"` in `Faults` |
| a client that closes while it is sent to ends the process | `:350` | `SendKilled` sets `alive` to FALSE, with `"pipe"` in `Faults` |
| the next client on a descriptor inherits the protocol state of one that left without a close frame | `4 websocket/websocket_server_my.c:614` | `FreshBlock` fails with `"abrupt"` in `Habits` and one descriptor |
| a client that opens with a frame on a block left in a session is echoed without a handshake; on a fresh block the frame is answered as if it were a handshake | `:501`, `:614` | `wshandle`, with `"unruly"` in `Habits`; `HandshakeFirst` is about clients that open with a request |
| a frame without payload is a write through NULL | `:471` | `Crashes`, `RecvCrash` |
| a reply that was not written keeps `send_cb` armed for ever | `:562` | `SendNothing`; `EventuallyAnswered` fails with the kind `"near"` |
| four stale bytes follow each frame | `:493` | the part `"junk"` |
| a digest with a zero byte gives a wrong accept key | `:435` | the part `"bad101"`, for `"upgrade0"` |
| a file larger than the room in the send buffer is cut short | `3 http/httpserver.c:460` | `SendFile` takes the least of size and room |
| a reset between header and file, or file and line end, is seen by the first call behind it, and the next one ends the process | `:460`, `:472` | `SendFileLate`, `SendFileKilled` |
| a directory (`GET /`) is answered with status 200, its size as the length, and no body | `:104` | `Directory`, `Contents` |
| the method of an earlier request answers a later one | `:98` | `parser_http_request` on `"other"` |
| a client is sent the bytes of another | `1 epoll/server3.c:93` | one `buffer` and `ret` in SelectServer; `EchoConservation` leaves server3 out |
| `send` is given a buffer that was never filled | `2 react/server2.c:284` | `Zero` in `ItemWrite`; `EchoConservation` counts the bytes |
| a `recv` that failed gives `send` the length −1 | `:259` | `ItemError` |
| an aligned range leaves its block | `7 mmpool/mmpool_my.c:109` | `Intact` fails and the model stops |
| `current` moves away from the head (the comment at 118 says it never does) | `:203` | `Settles` |
| server5 counts entries that are not ready, and may starve a client | `1 epoll/server5.c:97` | `Skip`; `EventuallyRead` without `Fair` fails |
| a datagram of another peer that comes between `bind` and `connect` is read as one of the connected peer | `5 udp/udp_server_my.c:55` | `Receivers` |
| no socket is closed, and the server ends when descriptors are used up | `:37` | `SocketFails` |
| a datagram or an echo request sent to all, or to another IP address, is answered, with the broadcast MAC address or that IP address as the source | `6 netstack/icmp_arp_udp_success.c:285` | `AnswerUdp`, `AnswerIcmp` look at no destination; `RepliesReturn` says so |
| any ARP operation for the address is answered as a request | `:326` | `AnswerArp` does not look at `oper` |
| the reply to a datagram carries no data (the comment says the same data) | `:195` | `echo_udp_pkt` |
| the answer to a longer ICMP message has 32 bytes of it | `:90` | `Data` stands for the first 32 bytes |
| the first location with `count` loses its shared memory to the second | `8 nginx module/ngx_pagecount_my/…my.c:120` | not modelled: one location |
| the page is read from the stack after the handler returned | `:321` | `Writer` may send `"junk"` |
| a length that is not known (−1) becomes 10, and the body is longer | `8 nginx module/nginx_filter_module_my/…my.c:27` | `ngx_http_mxl_header_filter(…, Unknown)` |
| the prefix comes again with each later call for a slow client, and before bodies of other statuses, which were announced without it | `:33` | `ngx_http_mxl_body_filter` in `Writer` |
| the directive `prefix` switches nothing | `:91` | no filter reads `enable` |
| the 256th request sets the count to 0 | `8 nginx module/ngx_pagecount_my/…my.c:224` | `Found`, modulo `CountMod` |

## 7 What is not modelled

* Allocation failures of the reactor (`ntyreactor_idx` loops for ever then), more
  than one listening port, and the one byte `recv_cb` writes behind a full buffer.
* The array bound of `server4.c` and `server5.c` (`fds[connfd]` with ten entries),
  `events[100]` for the 10000 events that the UDP server asks of `epoll_wait`
  (`5 udp/udp_server_my.c:96`, `:141`) and the byte it writes behind a
  buffer that `recvfrom` filled, a failing `accept`, and a failing `pthread_create`,
  whose result `server2.c` does not look at.
* Two threads of server2 on one descriptor, after ThreadRace has happened.
* Partial arrival of HTTP requests and WebSocket frames: the code reads once and
  takes what it got for a message.  The text of messages, SHA-1 and Base64.
* WebSocket frames of more than 255 bytes (the kind `"long"` ends there), whose length
  field begins with other bytes.
* The page of the counter as text: `html` is a sequence of lines without an end, where
  the code has 1024 bytes on the stack (about twenty lines); nginx's
  configuration, the balance of its tree, and the prefix filter on responses of
  other handlers.
* Frames for the MAC address of another host, which a card that is not promiscuous does
  not show the program; frames that are malformed or cut short; more than one queue of
  the network card.
* The display of `websocket.html`, and `index.html`.

## 8 Plan

Built first, because most of the repository rests on it: ReactorCore with its
three servers and the proofs; then MemPool with its proofs; the servers of
`1 epoll` on Sockets; PageCount; then ThreadServer, FirstReactor, UdpServer,
NetStack and PrefixFilter; then the proofs about the loops, the UDP server, the
responder, the WebSocket and the HTTP server, and last those about whole
conversations, the bytes of the loops, the tree of PageCount and the page made from
it.  `EventuallyAnswered` and its like stay with TLC.

## 9 How to run

    tlc -config EchoPolite.cfg MCEcho       # the module of each run is in PROJECT.json
    tlapm EchoProofs.tla                    # each proof module takes a few minutes from nothing
