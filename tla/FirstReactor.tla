------------------------------ MODULE FirstReactor ------------------------------
(***************************************************************************)
(* The loop of `2 react/server2.c`, program "reactor": epoll as in         *)
(* EpollServer, with an item for each descriptor that keeps what recv()    *)
(* returned until the descriptor was reported writable.  Items come in     *)
(* blocks of ITEM_LEGHTH that are made when a descriptor needs them and    *)
(* are never given back.  `fds` are the descriptors registered for EPOLLIN.*)
(*                                                                         *)
(* send() is given wbuffer, which nothing fills: the bytes are zero.       *)
(* r->first is not initialised; it is the first memory malloc() hands out  *)
(* after the block of stdout, and reads as NULL.                           *)
(***************************************************************************)
EXTENDS EchoLoop

CONSTANT ITEM_LEGHTH

ASSUME ItemAssumption == ITEM_LEGHTH \in Nat \ {0}

VARIABLES
    outs,       \* descriptors registered for EPOLLOUT
    blkcnt,     \* blocks in the list of r
    rlength     \* rlength[s]: the field of the item at <<block, row>> s

itemVars == <<outs, blkcnt, rlength>>

\* Mutant of Item: the descriptor is looked up in the first block.
Item_OneBlock(fd) == <<0, fd % ITEM_LEGHTH>>

\* Where reactor_lookup finds the item of a descriptor.
Item(fd) == <<fd \div ITEM_LEGHTH, fd % ITEM_LEGHTH>>

ItemInit ==
    /\ outs = {} /\ blkcnt = 0
    /\ rlength = [s \in {Item(fd) : fd \in Fd} |-> 0]

ItemWait ==
    /\ pc = "wait"
    /\ ready' = Reported \cup {fd \in outs : Writable(fdtab[fd])}
    /\ ready' # {}
    /\ pc' = "read"
    /\ UNCHANGED <<sockVars, itemVars, program, fds, maxfd, i, ret, left, alive>>

\* reactor_lookup makes the blocks up to that of the new descriptor.
ItemAccept ==
    /\ pc = "read" /\ ListenFd \in ready
    /\ \E fd \in Fd :
          /\ Watch(fd)
          /\ blkcnt' = Max2(blkcnt, Item(fd)[1] + 1)
          /\ rlength' = [rlength EXCEPT ![Item(fd)] = 0]
    /\ ready' = ready \ {ListenFd}
    /\ NextEvent
    /\ UNCHANGED <<program, outs, i, ret, left, alive>>

\* A block cannot be made: the result NULL is written through.
ItemKilled ==
    /\ pc = "read" /\ ListenFd \in ready
    /\ \E fd \in Fd : Watch(fd) /\ Item(fd)[1] + 1 > blkcnt
    /\ alive' = FALSE
    /\ UNCHANGED <<itemVars, program, ready, i, pc, ret, left>>

\* Something was received: the descriptor is for writing now.
ItemRecv(fd) ==
    /\ pc = "read" /\ fd \in ready \ outs
    /\ RecvOk(fd)
    /\ rlength' = [rlength EXCEPT ![Item(fd)] = Len(Data(fd))]
    /\ fds' = fds \ {fd} /\ outs' = outs \cup {fd}
    /\ ready' = ready \ {fd}
    /\ NextEvent
    /\ UNCHANGED <<program, blkcnt, maxfd, i, ret, left, alive>>

ItemClose(fd) ==
    /\ pc = "read" /\ fd \in ready \ outs
    /\ RecvEndClose(fd)
    /\ rlength' = [rlength EXCEPT ![Item(fd)] = 0]
    /\ fds' = fds \ {fd}
    /\ ready' = ready \ {fd}
    /\ NextEvent
    /\ UNCHANGED <<program, outs, blkcnt, maxfd, i, ret, left, alive>>

ItemError(fd) ==
    /\ pc = "read" /\ fd \in ready \ outs
    /\ RecvError(fd)
    /\ rlength' = [rlength EXCEPT ![Item(fd)] = -1]
    /\ ready' = ready \ {fd}
    /\ NextEvent
    /\ UNCHANGED <<program, fds, outs, blkcnt, maxfd, i, ret, left, alive>>

\* send() is called with as many bytes as the last recv() of the item returned.
ItemWrite(fd) ==
    /\ pc = "read" /\ fd \in ready \cap outs
    /\ ret' = rlength[Item(fd)]
    /\ left' = [k \in 1..rlength[Item(fd)] |-> Zero]
    /\ i' = fd /\ ready' = ready \ {fd}
    /\ pc' = "send"
    /\ UNCHANGED <<sockVars, itemVars, program, fds, maxfd, alive>>

\* The descriptor is for reading again, whatever send() returned.
ItemSent ==
    /\ fds' = fds \cup {i} /\ outs' = outs \ {i}
    /\ NextEvent
    /\ UNCHANGED <<blkcnt, rlength, i>>

ItemSend == Sending(ItemSent, UNCHANGED itemVars)

ItemStep ==
    \/ ItemWait \/ ItemAccept \/ ItemKilled
    \/ \E fd \in Fd : ItemRecv(fd) \/ ItemClose(fd) \/ ItemError(fd) \/ ItemWrite(fd)
    \/ ItemSend
    \/ SendKilled /\ UNCHANGED itemVars
=============================================================================
