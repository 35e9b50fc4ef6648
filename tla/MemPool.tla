------------------------------- MODULE MemPool -------------------------------
(***************************************************************************)
(* The memory pool of `7 mmpool/mmpool_my.c`: small requests are cut from  *)
(* a chain of equal blocks, large ones are taken from malloc() and kept in *)
(* a list whose cells are small requests themselves.                       *)
(*                                                                         *)
(* An address is an offset from the start of its block, which              *)
(* posix_memalign aligns.  Bytes outside every block belong to somebody    *)
(* else: once a request was given some of them (see Intact) the C program  *)
(* is undefined and the model stops.                                       *)
(***************************************************************************)
EXTENDS Integers, Sequences, FiniteSets

CONSTANTS
    PoolSizes,          \* arguments of mp_create_pool
    Requests,           \* arguments of mp_alloc, mp_nalloc and mp_calloc
    Ids,                \* the blocks malloc() and posix_memalign() hand out for large requests
    Null,               \* not one of them
    MP_ALIGNMENT,
    MP_MAX_ALLOC_FROM_POOL,
    PoolHdr, NodeHdr, LargeHdr,     \* sizes of mp_pool_s, mp_node_s and mp_large_s
    MaxNodes            \* bound: blocks in the chain

ASSUME IdAssumption     == Null \notin Ids
ASSUME HeaderAssumption == /\ MP_ALIGNMENT \in Nat \ {0} /\ MP_MAX_ALLOC_FROM_POOL \in Nat
                           /\ PoolHdr \in Nat /\ NodeHdr \in Nat /\ LargeHdr \in Nat \ {0}
ASSUME RequestAssumption == Requests \subseteq Nat \ {0} /\ MaxNodes \in Nat
\* mp_alloc_large asks mp_alloc for a list cell, which asks mp_alloc_large again,
\* without end, when a cell is itself too large for the pool.
ASSUME CellsAreSmall    == PoolSizes \subseteq {n \in Nat : n >= LargeHdr} /\ MP_MAX_ALLOC_FROM_POOL >= LargeHdr

VARIABLES
    max,        \* requests above it are large
    node,       \* the chain of blocks, head first; <<>> when there is no pool
    current,    \* the block the search starts from, as a place in the chain
    large,      \* the list of large requests, first cell first
    live,       \* ranges of blocks handed out and not taken back
    heap        \* large requests malloc() gave out and free() did not take back

vars == <<max, node, current, large, live, heap>>

mp_align(n) == n + ((-n) % MP_ALIGNMENT)

Region(i, lo, size) == [node |-> i, lo |-> lo, hi |-> lo + size]

\* Where the space a caller may get starts; mp_reset_pool goes back to it.
Base(i) == IF i = 1 THEN PoolHdr + NodeHdr ELSE NodeHdr

Cells   == {large[k].at : k \in 1..Len(large)}
Regions == live \cup Cells

\* Every range lies within its block (comment of mp_alloc at 108).
Intact == \A r \in Regions : r.hi <= node[r.node].end

Ready == node # <<>> /\ Intact

Init ==
    /\ max = 0 /\ node = <<>> /\ current = 0
    /\ large = <<>> /\ live = {} /\ heap = {}

mp_create_pool(size) ==
    /\ node = <<>>
    /\ max' = IF size < MP_MAX_ALLOC_FROM_POOL THEN size ELSE MP_MAX_ALLOC_FROM_POOL
    /\ node' = <<[last |-> Base(1), end |-> Base(1) + size, failed |-> 0]>>
    /\ current' = 1
    /\ UNCHANGED <<large, live, heap>>

-----------------------------------------------------------------------------
(* Small requests *)

\* The test both functions make looks at the space behind last, not behind m.
Candidates(size) == {i \in current..Len(node) : node[i].end - node[i].last >= size}

\* Mutant of Start: rounds the address down.
Start_Down(i, aligned) == IF aligned THEN node[i].last - (node[i].last % MP_ALIGNMENT) ELSE node[i].last
Start(i, aligned) == IF aligned THEN mp_align(node[i].last) ELSE node[i].last

\* The range a request is given: in the first block with room, or in a new one.
Spots(size, aligned) ==
    IF Candidates(size) = {}
    THEN {Region(Len(node) + 1, mp_align(NodeHdr), size)}
    ELSE {Region(i, Start(i, aligned), size) :
              i \in {j \in Candidates(size) : \A k \in Candidates(size) : j <= k}}

\* Where current ends up after the loop that looks for the end of the chain.
Tired == {i \in current..(Len(node) - 1) : node[i].failed > 4}
Settles_Never(c) == c = current                         \* mutant: current stays
Settles_AtEnd(c) == c = Len(node)                       \* mutant: skips them all
Settles(c) ==
    \/ Tired = {} /\ c = current
    \/ c - 1 \in Tired /\ \A i \in Tired : i <= c - 1

mp_alloc_block(r) ==
    /\ Len(node) < MaxNodes
    /\ \E c \in current..Len(node) : Settles(c) /\ current' = c
    /\ LET tried == [i \in 1..Len(node) |->
                        IF i \in current..(Len(node) - 1)
                        THEN [node[i] EXCEPT !.failed = @ + 1] ELSE node[i]]
       IN  node' = Append(tried, [last |-> r.hi, end |-> node[1].end - PoolHdr, failed |-> 0])

Claim(r) ==
    IF r.node <= Len(node)
    THEN node' = [node EXCEPT ![r.node].last = r.hi] /\ UNCHANGED current
    ELSE mp_alloc_block(r)

Small(size, aligned) ==
    /\ Ready /\ size <= max
    /\ \E r \in Spots(size, aligned) : Claim(r) /\ live' = live \cup {r}
    /\ UNCHANGED <<max, large, heap>>

-----------------------------------------------------------------------------
(* Large requests *)

\* mp_alloc_large looks at the first five cells for one whose block was freed.
FreeCells == {k \in 1..Len(large) : k <= 5 /\ large[k].alloc = Null}

ReuseCell(p) ==
    /\ \E k \in FreeCells : /\ \A j \in FreeCells : k <= j
                            /\ large' = [large EXCEPT ![k].alloc = p]
    /\ heap' = heap \cup {p}
    /\ UNCHANGED <<node, current, live>>

NewCell(p) ==
    /\ \E r \in Spots(LargeHdr, TRUE) :
          /\ Claim(r)
          /\ large' = <<[alloc |-> p, at |-> r]>> \o large
    /\ heap' = heap \cup {p}
    /\ UNCHANGED live

\* Mutant of NoCell: p is not freed.
NoCell_Leaks(p) ==
    /\ Candidates(LargeHdr) = {}
    /\ heap' = heap \cup {p}
    /\ UNCHANGED <<node, current, large, live>>

\* There is no memory for a block to hold the cell: p is freed again.
NoCell(p) ==
    /\ Candidates(LargeHdr) = {}
    /\ UNCHANGED <<node, current, large, live, heap>>

mp_alloc_large(p) ==
    /\ p \in Ids \ heap
    /\ IF FreeCells # {} THEN ReuseCell(p) ELSE NewCell(p) \/ NoCell(p)

\* mp_alloc, and mp_calloc, which clears what mp_alloc returned.
mp_alloc(size) ==
    \/ Small(size, TRUE)
    \/ Ready /\ size > max /\ UNCHANGED max /\ \E p \in Ids : mp_alloc_large(p)

mp_nalloc(size) ==
    \/ Small(size, FALSE)
    \/ Ready /\ size > max /\ UNCHANGED max /\ \E p \in Ids : mp_alloc_large(p)

mp_memalign(p) ==
    /\ Ready /\ p \in Ids \ heap
    /\ NewCell(p) \/ NoCell(p)
    /\ UNCHANGED max

-----------------------------------------------------------------------------
(* Giving back *)

\* The first cell that names p; nothing happens when there is none.
mp_free(p) ==
    /\ Ready
    /\ \E k \in 1..Len(large) :
          /\ large[k].alloc = p /\ \A j \in 1..(k - 1) : large[j].alloc # p
          /\ large' = [large EXCEPT ![k].alloc = Null]
    /\ heap' = heap \ {p}
    /\ UNCHANGED <<max, node, current, live>>

Named == {large[k].alloc : k \in 1..Len(large)}

\* failed and current keep their values: blocks before current stay unused.
mp_reset_pool ==
    /\ Ready
    /\ heap' = heap \ Named
    /\ large' = <<>>
    /\ node' = [i \in 1..Len(node) |-> [node[i] EXCEPT !.last = Base(i)]]
    /\ live' = {}
    /\ UNCHANGED <<max, current>>

mp_destory_pool ==
    /\ Ready
    /\ heap' = heap \ Named
    /\ max' = 0 /\ node' = <<>> /\ current' = 0 /\ large' = <<>> /\ live' = {}

-----------------------------------------------------------------------------
Next ==
    \/ \E size \in PoolSizes : mp_create_pool(size)
    \/ \E size \in Requests : mp_alloc(size) \/ mp_nalloc(size)
    \/ \E p \in Ids : mp_memalign(p) \/ mp_free(p)
    \/ mp_reset_pool
    \/ mp_destory_pool

Spec == Init /\ [][Next]_vars

-----------------------------------------------------------------------------
(* Properties *)

RegionType == [node : Nat, lo : Nat, hi : Nat]

TypeOK ==
    /\ max \in Nat
    /\ node \in Seq([last : Nat, end : Nat, failed : Nat])
    /\ current \in IF node = <<>> THEN {0} ELSE 1..Len(node)
    /\ large \in Seq([alloc : Ids \cup {Null}, at : RegionType])
    /\ live \subseteq RegionType
    /\ heap \subseteq Ids

\* Two ranges in use, of callers or of list cells, share no byte, and none
\* reaches into the header of its block: aligned and unaligned requests, list
\* cells, new blocks and resets may come in any order.
Disjoint ==
    /\ \A r \in Regions : r.node \in 1..Len(node) /\ Base(r.node) <= r.lo
    /\ \A r, s \in Regions : r # s /\ r.node = s.node => r.hi <= s.lo \/ s.hi <= r.lo
    /\ \A j, k \in 1..Len(large) : j # k => large[j].at # large[k].at
    /\ live \cap Cells = {}

\* Each large block that malloc() gave out is named by exactly one cell, and no
\* cell names one that was freed: nothing leaks and nothing is freed twice, on
\* the paths that fail, reuse a cell, reset or destroy included.
LargeExact ==
    /\ heap = Named \ {Null}
    /\ \A j, k \in 1..Len(large) : j # k /\ large[j].alloc = large[k].alloc => large[j].alloc = Null

\* A search looks at no more than seven blocks, however long the chain has
\* become: current moves on with the counters of failed searches.
ScanBounded == Len(node) - current <= 6

\* current leaves behind only blocks that a search failed on six times.
SkipsTiredOnly == \A i \in 1..(current - 1) : node[i].failed >= 6
=============================================================================
