---------------------------- MODULE MemPoolProofs ----------------------------
(***************************************************************************)
(* Proofs about MemPool for any block size, alignment, request sizes and   *)
(* chain length: ranges in use do not overlap, and a search looks at no    *)
(* more than seven blocks.                                                 *)
(***************************************************************************)
EXTENDS MemPool, SequenceTheorems, TLAPS

NodeType == [last : Nat, end : Nat, failed : Nat]
CellType == [alloc : Ids \cup {Null}, at : RegionType]

\* Below: what was handed out of a block lies between its header and last.
Below(r) ==
    /\ r.node \in 1..Len(node)
    /\ Base(r.node) <= r.lo /\ r.lo < r.hi /\ r.hi <= node[r.node].last

Chain ==
    /\ node = <<>> => live = {} /\ large = <<>>
    /\ node # <<>> => node[1].end >= PoolHdr
    /\ \A i \in 1..Len(node) : Base(i) <= node[i].last

PoolInv == TypeOK /\ Chain /\ (\A r \in Regions : Below(r)) /\ Disjoint

-----------------------------------------------------------------------------
(* Types *)

LEMMA Typing ==
    ASSUME TypeOK
    PROVE  /\ Len(node) \in Nat /\ node \in Seq(NodeType)
           /\ \A i \in 1..Len(node) : node[i] \in NodeType
           /\ Len(large) \in Nat /\ large \in Seq(CellType)
           /\ \A k \in 1..Len(large) : large[k] \in CellType
           /\ Regions \subseteq RegionType
<1>1. node \in Seq(NodeType) /\ large \in Seq(CellType) /\ live \subseteq RegionType
  BY DEF TypeOK, NodeType, CellType
<1>2. \A i \in 1..Len(node) : node[i] \in NodeType
  BY <1>1, ElementOfSeq
<1>3. \A k \in 1..Len(large) : large[k] \in CellType
  BY <1>1, ElementOfSeq
<1>4. \A k \in 1..Len(large) : large[k].at \in RegionType
  BY <1>3 DEF CellType
<1>. QED  BY <1>1, <1>2, <1>3, <1>4, LenProperties DEF Regions, Cells

LEMMA BaseNat == \A i \in Nat : Base(i) \in Nat
  BY HeaderAssumption DEF Base

LEMMA FunctionIsSeq ==
    ASSUME NEW S, NEW n \in Nat, NEW f \in [1..n -> S]
    PROVE  f \in Seq(S) /\ Len(f) = n
OBVIOUS

\* The chain of a pool that exists.
LEMMA ChainTyping ==
    ASSUME PoolInv, node # <<>>
    PROVE  /\ Len(node) \in Nat \ {0} /\ current \in 1..Len(node) /\ node \in Seq(NodeType)
           /\ \A i \in 1..Len(node) : node[i] \in NodeType /\ Base(i) <= node[i].last /\ Base(i) \in Nat
           /\ \A i \in 1..Len(node) : node[i].last \in Nat /\ node[i].end \in Nat
           /\ node[1].end >= PoolHdr /\ PoolHdr \in Nat
<1>1. node \in Seq(NodeType) /\ Len(node) \in Nat /\ \A i \in 1..Len(node) : node[i] \in NodeType
  BY Typing DEF PoolInv
<1>2. Len(node) # 0
  BY <1>1, EmptySeq
<1>3. current \in 1..Len(node)
  BY DEF PoolInv, TypeOK
<1>4. \A i \in 1..Len(node) : Base(i) <= node[i].last /\ Base(i) \in Nat
  BY <1>1, BaseNat DEF PoolInv, Chain
<1>5. \A i \in 1..Len(node) : node[i].last \in Nat /\ node[i].end \in Nat
  BY <1>1 DEF NodeType
<1>6. node[1].end >= PoolHdr /\ PoolHdr \in Nat
  BY HeaderAssumption DEF PoolInv, Chain
<1>. QED  BY <1>1, <1>2, <1>3, <1>4, <1>5, <1>6

LEMMA WithLast ==
    ASSUME NEW n \in NodeType, NEW v \in Nat
    PROVE  LET m == [n EXCEPT !.last = v] IN
           m \in NodeType /\ m.last = v /\ m.end = n.end /\ m.failed = n.failed
  BY DEF NodeType

LEMMA WithFailed ==
    ASSUME NEW n \in NodeType
    PROVE  LET m == [n EXCEPT !.failed = @ + 1] IN
           m \in NodeType /\ m.last = n.last /\ m.end = n.end /\ m.failed = n.failed + 1
  BY DEF NodeType

-----------------------------------------------------------------------------
(* Addresses *)

LEMMA AlignUp ==
    ASSUME NEW n \in Nat
    PROVE  mp_align(n) \in Nat /\ mp_align(n) >= n
<1>. DEFINE k == (-n) % MP_ALIGNMENT
<1>1. k \in 0..(MP_ALIGNMENT - 1)
  BY HeaderAssumption
<1>2. mp_align(n) = n + k
  BY DEF mp_align
<1>. QED  BY <1>1, <1>2, HeaderAssumption

\* A range that is about to be handed out lies behind everything in its block.
LEMMA SpotsFresh ==
    ASSUME PoolInv, node # <<>>, NEW size \in Nat \ {0}, NEW al \in BOOLEAN,
           NEW r \in Spots(size, al)
    PROVE  /\ r \in RegionType /\ r.lo < r.hi
           /\ r.node \in 1..(Len(node) + 1)
           /\ Base(r.node) <= r.lo
           /\ r.node <= Len(node) => node[r.node].last <= r.lo
<1>0. Len(node) \in Nat \ {0} /\ current \in 1..Len(node)
  BY ChainTyping
<1>1. CASE Candidates(size) = {}
  <2>1. r = Region(Len(node) + 1, mp_align(NodeHdr), size)
    BY <1>1 DEF Spots
  <2>2. mp_align(NodeHdr) \in Nat /\ mp_align(NodeHdr) >= NodeHdr
    BY AlignUp, HeaderAssumption
  <2>3. Base(Len(node) + 1) = NodeHdr
    BY <1>0 DEF Base
  <2>. QED  BY <1>0, <2>1, <2>2, <2>3 DEF Region, RegionType
<1>2. CASE Candidates(size) # {}
  <2>1. PICK i \in Candidates(size) : r = Region(i, Start(i, al), size)
    BY <1>2 DEF Spots
  <2>2. i \in 1..Len(node)
    BY <1>0, <2>1 DEF Candidates
  <2>3. node[i].last \in Nat /\ Base(i) <= node[i].last /\ Base(i) \in Nat
    BY <2>2, ChainTyping
  <2>4. Start(i, al) \in Nat /\ Start(i, al) >= node[i].last
    <3>1. mp_align(node[i].last) \in Nat /\ mp_align(node[i].last) >= node[i].last
      BY <2>3, AlignUp
    <3>. QED  BY <2>3, <3>1 DEF Start
  <2>5. r = [node |-> i, lo |-> Start(i, al), hi |-> Start(i, al) + size]
    BY <2>1 DEF Region
  <2>. QED  BY <1>0, <2>2, <2>3, <2>4, <2>5 DEF RegionType
<1>. QED  BY <1>1, <1>2

\* What Claim does to the chain: no block moves back, and the block of r ends
\* at the end of r.
LEMMA ClaimChain ==
    ASSUME PoolInv, node # <<>>, NEW r \in RegionType,
           r.node \in 1..(Len(node) + 1), Base(r.node) <= r.lo, r.lo < r.hi,
           r.node <= Len(node) => node[r.node].last <= r.lo,
           Claim(r)
    PROVE  /\ node' \in Seq(NodeType) /\ node' # <<>>
           /\ Len(node') >= Len(node) /\ r.node \in 1..Len(node')
           /\ current' \in 1..Len(node')
           /\ node'[1].end >= PoolHdr
           /\ \A i \in 1..Len(node') : Base(i) <= node'[i].last
           /\ \A i \in 1..Len(node) : node[i].last <= node'[i].last
           /\ node'[r.node].last = r.hi
<1>0. /\ Len(node) \in Nat \ {0} /\ current \in 1..Len(node) /\ node \in Seq(NodeType)
      /\ \A i \in 1..Len(node) : node[i] \in NodeType /\ Base(i) <= node[i].last /\ Base(i) \in Nat
      /\ \A i \in 1..Len(node) : node[i].last \in Nat /\ node[i].end \in Nat
      /\ node[1].end >= PoolHdr /\ PoolHdr \in Nat
  BY ChainTyping
<1>r. r.node \in Nat /\ r.lo \in Nat /\ r.hi \in Nat /\ Base(r.node) \in Nat
  BY BaseNat DEF RegionType
<1>1. CASE r.node <= Len(node)
  <2>. DEFINE n == [node[r.node] EXCEPT !.last = r.hi]
  <2>1. node' = [node EXCEPT ![r.node] = n] /\ current' = current
    BY <1>1 DEF Claim
  <2>2. r.node \in 1..Len(node)
    BY <1>0, <1>1
  <2>3. n \in NodeType /\ n.last = r.hi /\ n.end = node[r.node].end
    BY <1>0, <1>r, <2>2, WithLast
  <2>. HIDE DEF n
  <2>4. /\ node' \in Seq(NodeType) /\ Len(node') = Len(node)
        /\ \A i \in 1..Len(node) : node'[i] = IF i = r.node THEN n ELSE node[i]
    BY <1>0, <2>1, <2>2, <2>3, ExceptSeq
  <2>5. node'[r.node].last = r.hi
    BY <2>2, <2>3, <2>4
  <2>6. ASSUME NEW i \in 1..Len(node)
        PROVE  Base(i) <= node'[i].last /\ node[i].last <= node'[i].last /\ node'[i].end = node[i].end
    <3>1. CASE i = r.node
      <4>1. node'[i] = n
        BY <2>4, <3>1
      <4>2. node[i].last <= r.lo /\ Base(i) <= r.lo /\ node[i].last \in Nat /\ Base(i) \in Nat
        BY <1>0, <1>1, <3>1
      <4>. QED  BY <1>r, <2>3, <3>1, <4>1, <4>2
    <3>2. CASE i # r.node
      <4>1. node'[i] = node[i]
        BY <2>4, <3>2
      <4>. QED  BY <1>0, <4>1
    <3>. QED  BY <3>1, <3>2
  <2>7. node' # <<>>
    BY <1>0, <2>4
  <2>. QED  BY <1>0, <2>1, <2>2, <2>4, <2>5, <2>6, <2>7
<1>2. CASE ~(r.node <= Len(node))
  <2>. DEFINE tried == [i \in 1..Len(node) |->
                          IF i \in current..(Len(node) - 1)
                          THEN [node[i] EXCEPT !.failed = @ + 1] ELSE node[i]]
              new == [last |-> r.hi, end |-> node[1].end - PoolHdr, failed |-> 0]
  <2>1. /\ node' = Append(tried, new)
        /\ current' \in current..Len(node)
        /\ r.node = Len(node) + 1
    <3>1. mp_alloc_block(r)
      BY <1>2 DEF Claim
    <3>2. node' = Append(tried, new)
      BY <3>1 DEF mp_alloc_block
    <3>3. \E c \in current..Len(node) : current' = c
      BY <3>1 DEF mp_alloc_block
    <3>. QED  BY SMTT(30), <1>0, <1>2, <1>r, <3>2, <3>3
  <2>2. \A i \in 1..Len(node) : tried[i] \in NodeType /\ tried[i].last = node[i].last
                                /\ tried[i].end = node[i].end
    BY <1>0, WithFailed
  <2>3. tried \in Seq(NodeType) /\ Len(tried) = Len(node)
    BY <1>0, <2>2, FunctionIsSeq
  <2>4. new \in NodeType /\ new.last = r.hi
    <3>1. node[1].end \in Nat
      BY SMTT(30), <1>0
    <3>2. node[1].end - PoolHdr \in Nat
      BY <1>0, <3>1
    <3>. QED  BY <1>r, <3>2 DEF NodeType
  <2>. HIDE DEF tried, new
  <2>5. /\ node' \in Seq(NodeType) /\ Len(node') = Len(node) + 1
        /\ \A i \in 1..Len(node) : node'[i] = tried[i]
        /\ node'[Len(node) + 1] = new
    BY <2>1, <2>3, <2>4, AppendProperties
  <2>6. node'[r.node].last = r.hi /\ node' # <<>>
    BY <1>0, <2>1, <2>4, <2>5
  <2>7. \A i \in 1..Len(node) : node'[i].last = node[i].last /\ node'[i].end = node[i].end
    BY <2>2, <2>5
  <2>8. \A i \in 1..Len(node) : node[i].last <= node'[i].last
    BY <1>0, <2>7
  <2>9. ASSUME NEW i \in 1..Len(node')
        PROVE  Base(i) <= node'[i].last
    <3>1. CASE i \in 1..Len(node)
      BY <1>0, <2>7, <3>1
    <3>2. CASE i = r.node
      BY <1>r, <2>6, <3>2
    <3>3. Len(node) \in Nat /\ Len(node') = Len(node) + 1 /\ r.node = Len(node) + 1
      BY <1>0, <2>1, <2>5
    <3>4. i \in 1..Len(node) \/ i = r.node
      BY <2>9, <3>3
    <3>. QED  BY <3>1, <3>2, <3>4
  <2>10. node'[1].end >= PoolHdr /\ Len(node') >= Len(node) /\ r.node \in 1..Len(node')
    BY <1>0, <2>1, <2>5, <2>7
  <2>11. current' \in 1..Len(node')
    BY <1>0, <2>1, <2>5
  <2>. QED  BY <2>5, <2>6, <2>8, <2>9, <2>10, <2>11
<1>. QED  BY <1>1, <1>2

\* One more range behind all others keeps the ranges apart.
LEMMA ClaimRegions ==
    ASSUME PoolInv, node # <<>>, NEW r \in RegionType,
           r.node \in 1..(Len(node) + 1), Base(r.node) <= r.lo, r.lo < r.hi,
           r.node <= Len(node) => node[r.node].last <= r.lo,
           Claim(r)
    PROVE  /\ r \notin Regions
           /\ \A s \in Regions : Below(s)' /\ (r.node = s.node => s.hi <= r.lo)
           /\ Below(r)'
<1>1. /\ Len(node') >= Len(node) /\ r.node \in 1..Len(node')
      /\ node' \in Seq(NodeType)
      /\ \A i \in 1..Len(node) : node[i].last <= node'[i].last
      /\ node'[r.node].last = r.hi
  BY ClaimChain
<1>2. r.lo \in Nat /\ r.hi \in Nat /\ r.node \in Nat
  BY DEF RegionType
<1>3. ASSUME NEW s \in Regions
      PROVE  Below(s)' /\ (r.node = s.node => s.hi <= r.lo) /\ r # s
  <2>1. Below(s) /\ s \in RegionType
    BY Typing DEF PoolInv
  <2>2. /\ s.node \in 1..Len(node) /\ s.lo \in Nat /\ s.hi \in Nat /\ Base(s.node) \in Nat
        /\ node[s.node].last \in Nat /\ node'[s.node].last \in Nat
        /\ Len(node) \in Nat /\ Len(node') \in Nat
    <3>1. s.node \in 1..Len(node) /\ s.node \in Nat /\ s.lo \in Nat /\ s.hi \in Nat
      BY <2>1 DEF Below, RegionType
    <3>2. Len(node) \in Nat /\ Len(node') \in Nat /\ node[s.node] \in NodeType
      BY <1>1, <3>1, Typing, LenProperties DEF PoolInv
    <3>3. node'[s.node] \in NodeType
      BY <1>1, <3>1, <3>2, ElementOfSeq
    <3>. QED  BY <3>1, <3>2, <3>3, BaseNat DEF NodeType
  <2>3. s.node \in 1..Len(node') /\ s.hi <= node'[s.node].last
    BY SMTT(30), <1>1, <2>1, <2>2 DEF Below
  <2>4. Below(s)'
    BY <2>1, <2>3 DEF Below, Base
  <2>5. r.node = s.node => s.hi <= r.lo
    BY <1>2, <2>1, <2>2 DEF Below
  <2>. QED  BY <1>2, <2>1, <2>2, <2>4, <2>5 DEF Below
<1>4. Below(r)'
  BY <1>1, <1>2 DEF Below, Base
<1>. QED  BY <1>3, <1>4

Apart == \A r, s \in Regions : r # s /\ r.node = s.node => r.hi <= s.lo \/ s.hi <= r.lo

LEMMA OneMoreRegion ==
    ASSUME PoolInv, node # <<>>, NEW size \in Nat \ {0}, NEW al \in BOOLEAN,
           NEW r \in Spots(size, al), Claim(r), Regions' = Regions \cup {r}
    PROVE  /\ node' \in Seq(NodeType) /\ node' # <<>> /\ current' \in 1..Len(node')
           /\ Chain' /\ Apart' /\ r \in RegionType /\ r \notin Regions
           /\ \A s \in Regions' : Below(s)'
<1>1. /\ r \in RegionType /\ r.lo < r.hi
      /\ r.node \in 1..(Len(node) + 1)
      /\ Base(r.node) <= r.lo
      /\ r.node <= Len(node) => node[r.node].last <= r.lo
  BY SpotsFresh
<1>2. /\ node' \in Seq(NodeType) /\ node' # <<>> /\ current' \in 1..Len(node')
      /\ node'[1].end >= PoolHdr
      /\ \A i \in 1..Len(node') : Base(i) <= node'[i].last
  BY <1>1, ClaimChain
<1>3. /\ r \notin Regions
      /\ \A s \in Regions : Below(s)' /\ (r.node = s.node => s.hi <= r.lo)
      /\ Below(r)'
  BY <1>1, ClaimRegions
<1>4. Chain'
  BY <1>2 DEF Chain, Base
<1>5. Apart'
  BY <1>3 DEF PoolInv, Disjoint, Apart
<1>. QED  BY <1>1, <1>2, <1>3, <1>4, <1>5

-----------------------------------------------------------------------------
(* Every step keeps the invariant *)

LEMMA CreateStep ==
    ASSUME PoolInv, NEW size \in PoolSizes, mp_create_pool(size)
    PROVE  PoolInv'
<1>. DEFINE new == [last |-> Base(1), end |-> Base(1) + size, failed |-> 0]
<1>1. size \in Nat /\ Base(1) \in Nat /\ PoolHdr \in Nat /\ Base(1) >= PoolHdr
  BY CellsAreSmall, HeaderAssumption, BaseNat DEF Base
<1>2. node' = <<new>> /\ new \in NodeType
  BY <1>1 DEF mp_create_pool, NodeType
<1>3. node' \in Seq(NodeType) /\ Len(node') = 1 /\ node'[1] = new /\ node' # <<>>
  <2>. HIDE DEF new
  <2>. QED  BY <1>2
<1>4. live' = {} /\ large' = <<>> /\ Len(large') = 0 /\ current' = 1 /\ heap' = heap
      /\ max' \in Nat
  BY <1>1, HeaderAssumption DEF mp_create_pool, PoolInv, Chain
<1>5. Regions' = {} /\ Cells' = {}
  BY <1>4 DEF Regions, Cells
<1>6. TypeOK'
  BY <1>3, <1>4 DEF TypeOK, NodeType, PoolInv
<1>7. Chain'
  BY <1>1, <1>3, <1>4 DEF Chain, Base
<1>. QED  BY <1>4, <1>5, <1>6, <1>7 DEF PoolInv, Disjoint

LEMMA SmallStep ==
    ASSUME PoolInv, NEW size \in Nat \ {0}, NEW al \in BOOLEAN, Small(size, al)
    PROVE  PoolInv'
<1>1. node # <<>> /\ UNCHANGED <<max, large, heap>>
  BY DEF Small, Ready
<1>2. PICK r \in Spots(size, al) : Claim(r) /\ live' = live \cup {r}
  BY DEF Small
<1>3. Cells' = Cells /\ Regions' = Regions \cup {r}
  BY <1>1, <1>2 DEF Regions, Cells
<1>4. /\ node' \in Seq(NodeType) /\ node' # <<>> /\ current' \in 1..Len(node')
      /\ Chain' /\ Apart' /\ r \in RegionType /\ r \notin Regions
      /\ \A s \in Regions' : Below(s)'
  BY <1>1, <1>2, <1>3, OneMoreRegion
<1>5. TypeOK'
  BY <1>1, <1>2, <1>4 DEF TypeOK, NodeType, PoolInv
<1>6. live' \cap Cells' = {}
  BY <1>2, <1>3, <1>4 DEF PoolInv, Disjoint, Regions
<1>7. \A j, k \in 1..Len(large') : j # k => large'[j].at # large'[k].at
  BY <1>1 DEF PoolInv, Disjoint
<1>. QED  BY <1>4, <1>5, <1>6, <1>7 DEF PoolInv, Disjoint, Apart, Below

\* Cells keep their place when the block they name changes.
LEMMA RenameCell ==
    ASSUME PoolInv, NEW k \in 1..Len(large), NEW v \in Ids \cup {Null},
           large' = [large EXCEPT ![k].alloc = v], NEW h \in SUBSET Ids, heap' = h,
           UNCHANGED <<max, node, current, live>>
    PROVE  PoolInv' /\ Len(large') = Len(large)
           /\ \A j \in 1..Len(large) : large'[j].alloc = IF j = k THEN v ELSE large[j].alloc
<1>. DEFINE c == [large[k] EXCEPT !.alloc = v]
<1>1. large \in Seq(CellType) /\ large[k] \in CellType /\ Len(large) \in Nat
  BY Typing DEF PoolInv
<1>2. c \in CellType /\ c.alloc = v /\ c.at = large[k].at
  BY <1>1 DEF CellType
<1>3. large' = [large EXCEPT ![k] = c]
  OBVIOUS
<1>. HIDE DEF c
<1>4. /\ large' \in Seq(CellType) /\ Len(large') = Len(large)
      /\ \A j \in 1..Len(large) : large'[j] = IF j = k THEN c ELSE large[j]
  BY <1>1, <1>2, <1>3, ExceptSeq
<1>5. \A j \in 1..Len(large) : large'[j].at = large[j].at
  BY <1>2, <1>4
<1>6. Cells' = Cells /\ Regions' = Regions
  BY <1>4, <1>5 DEF Cells, Regions
<1>7. TypeOK'
  BY <1>4 DEF TypeOK, CellType, PoolInv
<1>8. Chain'
  <2>1. node = <<>> => large = <<>> /\ Len(large) = 0
    BY DEF PoolInv, Chain
  <2>2. node # <<>>
    BY <2>1
  <2>. QED  BY <2>2 DEF PoolInv, Chain, Base
<1>9. \A r \in Regions' : Below(r)'
  BY <1>6 DEF PoolInv, Below, Base
<1>10. Disjoint'
  BY <1>4, <1>5, <1>6 DEF PoolInv, Disjoint, Base
<1>11. \A j \in 1..Len(large) : large'[j].alloc = IF j = k THEN v ELSE large[j].alloc
  BY <1>2, <1>4
<1>. QED  BY <1>4, <1>7, <1>8, <1>9, <1>10, <1>11 DEF PoolInv

LEMMA NewCellStep ==
    ASSUME PoolInv, node # <<>>, NEW p \in Ids, NewCell(p), UNCHANGED max
    PROVE  PoolInv' /\ Len(large') = Len(large) + 1 /\ large'[1].alloc = p
           /\ \A k \in 1..Len(large) : large'[k + 1].alloc = large[k].alloc
<1>1. PICK r \in Spots(LargeHdr, TRUE) :
          Claim(r) /\ large' = <<[alloc |-> p, at |-> r]>> \o large
  BY DEF NewCell
<1>. DEFINE c == [alloc |-> p, at |-> r]
<1>2. r \in RegionType
  BY <1>1, SpotsFresh, HeaderAssumption
<1>3. c \in CellType /\ c.alloc = p /\ c.at = r
  BY <1>2 DEF CellType
<1>4. large' = <<c>> \o large /\ large \in Seq(CellType) /\ Len(large) \in Nat
  BY <1>1, Typing DEF PoolInv
<1>. HIDE DEF c
<1>5. <<c>> \in Seq(CellType) /\ Len(<<c>>) = 1 /\ <<c>>[1] = c
  BY <1>3
<1>6. /\ large' \in Seq(CellType) /\ Len(large') = Len(large) + 1
      /\ \A i \in 1..(Len(large) + 1) : large'[i] = IF i <= 1 THEN <<c>>[i] ELSE large[i - 1]
  <2>1. /\ <<c>> \o large \in Seq(CellType)
        /\ Len(<<c>> \o large) = Len(<<c>>) + Len(large)
        /\ \A i \in 1..(Len(<<c>>) + Len(large)) : (<<c>> \o large)[i] =
               IF i <= Len(<<c>>) THEN <<c>>[i] ELSE large[i - Len(<<c>>)]
    BY <1>4, <1>5, ConcatProperties
  <2>. QED  BY <1>4, <1>5, <2>1
<1>7. large'[1] = c /\ \A k \in 1..Len(large) : large'[k + 1] = large[k]
  BY <1>4, <1>5, <1>6
<1>8. Cells' = Cells \cup {r}
  <2>1. Cells' \subseteq Cells \cup {r}
    <3>1. ASSUME NEW k \in 1..Len(large')
          PROVE  large'[k].at \in Cells \cup {r}
      <4>1. CASE k = 1
        BY <1>3, <1>7, <4>1
      <4>2. CASE k # 1
        <5>1. k - 1 \in 1..Len(large) /\ large'[k] = large[k - 1]
          BY <1>4, <1>6, <4>2
        <5>. QED  BY <5>1 DEF Cells
      <4>. QED  BY <4>1, <4>2
    <3>. QED  BY <3>1 DEF Cells
  <2>2. r \in Cells'
    <3>1. 1 \in 1..Len(large') /\ large'[1].at = r
      BY <1>3, <1>4, <1>6, <1>7
    <3>. QED  BY <3>1 DEF Cells
  <2>3. Cells \subseteq Cells'
    <3>1. ASSUME NEW k \in 1..Len(large)
          PROVE  large[k].at \in Cells'
      <4>1. k + 1 \in 1..Len(large') /\ large'[k + 1] = large[k]
        BY <1>4, <1>6, <1>7
      <4>. QED  BY <4>1 DEF Cells
    <3>. QED  BY <3>1 DEF Cells
  <2>. QED  BY <2>1, <2>2, <2>3
<1>9. live' = live /\ Regions' = Regions \cup {r}
  BY <1>8 DEF NewCell, Regions
<1>10. /\ node' \in Seq(NodeType) /\ node' # <<>> /\ current' \in 1..Len(node')
       /\ Chain' /\ Apart' /\ r \notin Regions
       /\ \A s \in Regions' : Below(s)'
  BY <1>1, <1>9, OneMoreRegion, HeaderAssumption
<1>11. TypeOK'
  BY <1>6, <1>9, <1>10 DEF NewCell, TypeOK, NodeType, CellType, PoolInv
<1>12. live' \cap Cells' = {}
  BY <1>8, <1>9, <1>10 DEF PoolInv, Disjoint, Regions
<1>13. \A j, k \in 1..Len(large') : j # k => large'[j].at # large'[k].at
  <2>1. \A k \in 1..Len(large) : large[k].at # r
    BY <1>10 DEF Regions, Cells
  <2>2. ASSUME NEW j \in 1..Len(large'), NEW k \in 1..Len(large'), j # k
        PROVE  large'[j].at # large'[k].at
    <3>1. CASE j = 1
      <4>1. k - 1 \in 1..Len(large) /\ large'[k] = large[k - 1]
        BY <1>4, <1>6, <2>2, <3>1
      <4>. QED  BY <1>3, <1>7, <2>1, <3>1, <4>1
    <3>2. CASE k = 1
      <4>1. j - 1 \in 1..Len(large) /\ large'[j] = large[j - 1]
        BY <1>4, <1>6, <2>2, <3>2
      <4>. QED  BY <1>3, <1>7, <2>1, <3>2, <4>1
    <3>3. CASE j # 1 /\ k # 1
      <4>1. /\ j - 1 \in 1..Len(large) /\ large'[j] = large[j - 1]
            /\ k - 1 \in 1..Len(large) /\ large'[k] = large[k - 1]
            /\ j - 1 # k - 1
        BY <1>4, <1>6, <2>2, <3>3
      <4>. QED  BY <4>1 DEF PoolInv, Disjoint
    <3>. QED  BY <3>1, <3>2, <3>3
  <2>. QED  BY <2>2
<1>14. large'[1].alloc = p
  BY <1>3, <1>7
<1>. QED  BY <1>6, <1>7, <1>10, <1>11, <1>12, <1>13, <1>14 DEF PoolInv, Disjoint, Apart, Below

LEMMA ResetStep ==
    ASSUME PoolInv, mp_reset_pool
    PROVE  PoolInv'
<1>1. node # <<>> /\ node' = [i \in 1..Len(node) |-> [node[i] EXCEPT !.last = Base(i)]]
      /\ live' = {} /\ large' = <<>> /\ heap' \subseteq heap /\ max' = max /\ current' = current
  <2>1. node' = [i \in 1..Len(node) |-> [node[i] EXCEPT !.last = Base(i)]]
    BY DEF mp_reset_pool
  <2>2. heap' \subseteq heap
    BY DEF mp_reset_pool
  <2>. QED  BY <2>1, <2>2 DEF mp_reset_pool, Ready
<1>2. /\ Len(node) \in Nat \ {0} /\ current \in 1..Len(node)
      /\ \A i \in 1..Len(node) : node[i] \in NodeType /\ Base(i) \in Nat
      /\ node[1].end >= PoolHdr
  BY <1>1, ChainTyping
<1>3. \A i \in 1..Len(node) :
          LET m == [node[i] EXCEPT !.last = Base(i)]
          IN  m \in NodeType /\ m.last = Base(i) /\ m.end = node[i].end
  BY <1>2, WithLast
<1>4. /\ node' \in Seq(NodeType) /\ Len(node') = Len(node)
      /\ \A i \in 1..Len(node) : node'[i].last = Base(i) /\ node'[i].end = node[i].end
  <2>1. node' \in [1..Len(node) -> NodeType]
    BY <1>1, <1>3
  <2>2. node' \in Seq(NodeType) /\ Len(node') = Len(node)
    BY <1>2, <2>1, FunctionIsSeq
  <2>. QED  BY <1>1, <1>3, <2>2
<1>5. node' # <<>> /\ node'[1].end >= PoolHdr
  BY <1>2, <1>4
<1>6. Chain'
  BY <1>2, <1>4, <1>5 DEF Chain, Base
<1>7. Regions' = {} /\ Cells' = {} /\ Len(large') = 0
  BY <1>1 DEF Regions, Cells
<1>8. TypeOK'
  <2>1. large' \in Seq([alloc : Ids \cup {Null}, at : RegionType])
    BY <1>1
  <2>2. node' \in Seq([last : Nat, end : Nat, failed : Nat])
    BY <1>4 DEF NodeType
  <2>3. current' \in 1..Len(node')
    BY <1>1, <1>2, <1>4
  <2>4. max' \in Nat /\ heap' \subseteq Ids /\ live' \subseteq RegionType
    BY <1>1 DEF TypeOK, PoolInv
  <2>. QED  BY <1>5, <2>1, <2>2, <2>3, <2>4 DEF TypeOK
<1>. QED  BY <1>1, <1>6, <1>7, <1>8 DEF PoolInv, Disjoint

LEMMA DestroyStep ==
    ASSUME PoolInv, mp_destory_pool
    PROVE  PoolInv'
<1>1. /\ max' = 0 /\ node' = <<>> /\ current' = 0 /\ large' = <<>> /\ live' = {}
      /\ heap' \subseteq heap
  BY DEF mp_destory_pool
<1>2. Len(node') = 0 /\ Len(large') = 0 /\ Regions' = {} /\ Cells' = {}
  BY <1>1 DEF Regions, Cells
<1>3. TypeOK'
  BY <1>1, <1>2 DEF TypeOK, PoolInv
<1>. QED  BY <1>1, <1>2, <1>3 DEF PoolInv, Chain, Disjoint

LEMMA LargeStep ==
    ASSUME PoolInv, node # <<>>, NEW p \in Ids, UNCHANGED max,
           mp_alloc_large(p) \/ NewCell(p) \/ NoCell(p)
    PROVE  PoolInv'
<1>1. CASE NewCell(p)
  BY <1>1, NewCellStep
<1>2. CASE NoCell(p)
  <2>1. UNCHANGED vars
    BY <1>2 DEF NoCell, vars
  <2>. QED  BY <2>1 DEF vars, PoolInv, TypeOK, Chain, Disjoint, Below, Regions, Cells, Base
<1>3. CASE ReuseCell(p)
  <2>1. PICK k \in FreeCells : large' = [large EXCEPT ![k].alloc = p]
    BY <1>3 DEF ReuseCell
  <2>2. heap' = heap \cup {p} /\ heap \cup {p} \in SUBSET Ids /\ UNCHANGED <<max, node, current, live>>
    BY <1>3 DEF ReuseCell, PoolInv, TypeOK
  <2>3. k \in 1..Len(large)
    BY DEF FreeCells
  <2>. QED  BY <2>1, <2>2, <2>3, RenameCell
<1>. QED  BY <1>1, <1>2, <1>3 DEF mp_alloc_large

LEMMA FreeStep ==
    ASSUME PoolInv, NEW p \in Ids, mp_free(p)
    PROVE  PoolInv'
<1>1. PICK k \in 1..Len(large) : large' = [large EXCEPT ![k].alloc = Null]
  BY DEF mp_free
<1>2. heap' = heap \ {p} /\ heap \ {p} \in SUBSET Ids /\ UNCHANGED <<max, node, current, live>>
  BY DEF mp_free, PoolInv, TypeOK
<1>. QED  BY <1>1, <1>2, RenameCell

LEMMA PoolInit == Init => PoolInv
<1>. SUFFICES ASSUME Init PROVE PoolInv
  OBVIOUS
<1>1. /\ max = 0 /\ node = <<>> /\ current = 0 /\ large = <<>> /\ live = {} /\ heap = {}
      /\ Len(node) = 0 /\ Len(large) = 0
  BY DEF Init
<1>2. Regions = {} /\ Cells = {}
  BY <1>1 DEF Regions, Cells
<1>3. TypeOK
  BY <1>1 DEF TypeOK
<1>. QED  BY <1>1, <1>2, <1>3 DEF PoolInv, Chain, Disjoint

LEMMA PoolNext == PoolInv /\ [Next]_vars => PoolInv'
<1>. SUFFICES ASSUME PoolInv, [Next]_vars PROVE PoolInv'
  OBVIOUS
<1>1. CASE UNCHANGED vars
  BY <1>1 DEF vars, PoolInv, TypeOK, Chain, Disjoint, Below, Regions, Cells, Base
<1>2. ASSUME NEW size \in PoolSizes, mp_create_pool(size) PROVE PoolInv'
  BY <1>2, CreateStep
<1>3. ASSUME NEW size \in Requests, mp_alloc(size) \/ mp_nalloc(size) PROVE PoolInv'
  <2>1. size \in Nat \ {0}
    BY RequestAssumption
  <2>2. CASE Small(size, TRUE) \/ Small(size, FALSE)
    BY <2>1, <2>2, SmallStep
  <2>3. ASSUME Ready, UNCHANGED max, NEW p \in Ids, mp_alloc_large(p) PROVE PoolInv'
    BY <2>3, LargeStep DEF Ready
  <2>. QED  BY <1>3, <2>2, <2>3 DEF mp_alloc, mp_nalloc
<1>4. ASSUME NEW p \in Ids, mp_memalign(p) PROVE PoolInv'
  BY <1>4, LargeStep DEF mp_memalign, Ready
<1>5. ASSUME NEW p \in Ids, mp_free(p) PROVE PoolInv'
  BY <1>5, FreeStep
<1>6. CASE mp_reset_pool
  BY <1>6, ResetStep
<1>7. CASE mp_destory_pool
  BY <1>7, DestroyStep
<1>. QED  BY <1>1, <1>2, <1>3, <1>4, <1>5, <1>6, <1>7 DEF Next

\* The pool's variables keep their types.
THEOREM PoolTypeCorrect == Spec => []TypeOK
<1>1. PoolInv => TypeOK
  BY DEF PoolInv
<1>. QED  BY <1>1, PoolInit, PoolNext, PTL DEF Spec

\* Ranges in use share no byte, for every pool size, alignment and request.
THEOREM RangesDisjoint == Spec => []Disjoint
<1>1. PoolInv => Disjoint
  BY DEF PoolInv
<1>. QED  BY <1>1, PoolInit, PoolNext, PTL DEF Spec

-----------------------------------------------------------------------------
(* The chain and its counters *)

\* Behind current a block's counter says how many blocks were added after the
\* one that follows it; the blocks before current have all failed six times.
Counted ==
    node # <<>> =>
        /\ Len(node) - current <= 6
        /\ node[Len(node)].failed = 0
        /\ \A i \in current..(Len(node) - 1) : node[i].failed = Len(node) - 1 - i
        /\ \A i \in 1..(current - 1) : node[i].failed >= 6

LEMMA AppendCounted ==
    ASSUME PoolInv, node # <<>>, Counted, NEW r, mp_alloc_block(r),
           r.hi \in Nat
    PROVE  Counted'
<1>. DEFINE n == Len(node)
            tried == [i \in 1..n |->
                        IF i \in current..(n - 1)
                        THEN [node[i] EXCEPT !.failed = @ + 1] ELSE node[i]]
            new == [last |-> r.hi, end |-> node[1].end - PoolHdr, failed |-> 0]
<1>1. /\ n \in Nat \ {0} /\ current \in 1..n /\ \A i \in 1..n : node[i] \in NodeType
      /\ node[1].end \in Nat /\ node[1].end >= PoolHdr /\ PoolHdr \in Nat
  <2>1. /\ n \in Nat \ {0} /\ current \in 1..n /\ \A i \in 1..n : node[i] \in NodeType /\ node[i].end \in Nat
        /\ node[1].end >= PoolHdr /\ PoolHdr \in Nat
    BY ChainTyping
  <2>2. 1 \in 1..n
    BY <2>1
  <2>. QED  BY <2>1, <2>2
<1>2. node' = Append(tried, new)
  BY DEF mp_alloc_block
<1>3. PICK c \in current..n : Settles(c) /\ current' = c
  BY DEF mp_alloc_block
<1>4. \A i \in 1..n : tried[i] \in NodeType
                      /\ tried[i].failed = IF i \in current..(n - 1) THEN node[i].failed + 1 ELSE node[i].failed
  BY <1>1, WithFailed
<1>5. tried \in Seq(NodeType) /\ Len(tried) = n
  BY <1>1, <1>4, FunctionIsSeq
<1>6. new \in NodeType /\ new.failed = 0
  <2>1. node[1].end - PoolHdr \in Nat
    BY <1>1
  <2>. QED  BY <2>1 DEF NodeType
<1>7. /\ Len(node') = n + 1 /\ node'[n + 1].failed = 0
      /\ \A i \in 1..n : node'[i].failed = IF i \in current..(n - 1) THEN node[i].failed + 1 ELSE node[i].failed
  <2>. HIDE DEF tried, new, n
  <2>1. /\ Len(node') = n + 1 /\ node'[n + 1] = new
        /\ \A i \in 1..n : node'[i] = tried[i]
    BY <1>2, <1>5, <1>6, AppendProperties
  <2>. QED  BY <1>4, <1>6, <2>1
<1>8. /\ n - current <= 6 /\ node[n].failed = 0
      /\ \A i \in current..(n - 1) : node[i].failed = n - 1 - i
      /\ \A i \in 1..(current - 1) : node[i].failed >= 6
  BY DEF Counted
<1>t. \A i : i \in Tired <=> i \in current..(n - 1) /\ node[i].failed > 4
  BY DEF Tired
<1>c. (Tired = {} /\ c = current) \/ (c - 1 \in Tired /\ \A i \in Tired : i <= c - 1)
  BY <1>3 DEF Settles
<1>. HIDE DEF n, tried, new
<1>9. n + 1 - c <= 6
  <2>1. CASE Tired = {} /\ c = current
    <3>1. CASE current > n - 6
      BY <1>1, <2>1, <3>1
    <3>2. CASE ~(current > n - 6)
      <4>1. current \in current..(n - 1) /\ node[current].failed > 4
        BY <1>1, <1>8, <3>2
      <4>. QED  BY <1>t, <2>1, <4>1
    <3>. QED  BY <3>1, <3>2
  <2>2. CASE c - 1 \in Tired /\ \A i \in Tired : i <= c - 1
    <3>1. c - 1 \in current..(n - 1) /\ node[c - 1].failed > 4
      BY <1>t, <2>2
    <3>2. c - 1 <= n - 6
      BY <1>1, <1>8, <3>1
    <3>3. n - 6 \in current..(n - 1) /\ node[n - 6].failed > 4
      BY <1>1, <1>8, <3>1, <3>2
    <3>. QED  BY SMTT(30), <1>1, <1>3, <1>t, <2>2, <3>3
  <2>. QED  BY <1>c, <2>1, <2>2
<1>10. ASSUME NEW i \in c..n PROVE node'[i].failed = n - i
  <2>1. CASE i = n
    BY <1>1, <1>7, <1>8, <2>1
  <2>2. CASE i # n
    <3>1. i \in current..(n - 1) /\ i \in 1..n
      BY <1>1, <1>3, <2>2
    <3>. QED  BY SMTT(30), <1>1, <1>7, <1>8, <3>1
  <2>. QED  BY <2>1, <2>2
<1>11. ASSUME NEW i \in 1..(c - 1) PROVE node'[i].failed >= 6
  <2>1. CASE i < current
    <3>1. i \in 1..n /\ i \notin current..(n - 1) /\ i \in 1..(current - 1)
      BY <1>1, <1>3, <2>1
    <3>. QED  BY <1>7, <1>8, <3>1
  <2>2. CASE ~(i < current)
    <3>1. c # current
      BY <1>1, <1>3, <2>2
    <3>2. c - 1 \in current..(n - 1) /\ node[c - 1].failed > 4
      BY <1>c, <1>t, <3>1
    <3>3. i \in current..(n - 1) /\ i \in 1..n /\ node[i].failed >= 5
      BY <1>1, <1>3, <1>8, <2>2, <3>2
    <3>4. node[i].failed \in Nat
      BY <1>1, <3>3 DEF NodeType
    <3>. QED  BY <1>7, <3>3, <3>4
  <2>. QED  BY <1>1, <1>3, <2>1, <2>2
<1>. QED  BY <1>1, <1>3, <1>7, <1>9, <1>10, <1>11 DEF Counted

\* A block's counter changes only when a block is added.
SameCounters ==
    /\ Len(node') = Len(node) /\ current' = current
    /\ \A i \in 1..Len(node) : node'[i].failed = node[i].failed

LEMMA KeepCounted ==
    ASSUME PoolInv, node # <<>>, Counted, SameCounters
    PROVE  Counted'
<1>1. Len(node) \in Nat \ {0} /\ current \in 1..Len(node)
  BY ChainTyping
<1>. QED  BY <1>1 DEF Counted, SameCounters

LEMMA ClaimCounted ==
    ASSUME PoolInv, node # <<>>, Counted, NEW size \in Nat \ {0}, NEW al \in BOOLEAN,
           NEW r \in Spots(size, al), Claim(r)
    PROVE  Counted'
<1>1. r \in RegionType /\ r.node \in 1..(Len(node) + 1) /\ r.hi \in Nat
  BY SpotsFresh DEF RegionType
<1>2. Len(node) \in Nat \ {0} /\ node \in Seq(NodeType) /\ \A i \in 1..Len(node) : node[i] \in NodeType
  BY ChainTyping
<1>3. CASE r.node <= Len(node)
  <2>. DEFINE n == [node[r.node] EXCEPT !.last = r.hi]
  <2>1. node' = [node EXCEPT ![r.node] = n] /\ current' = current /\ r.node \in 1..Len(node)
    BY <1>1, <1>2, <1>3 DEF Claim
  <2>2. n \in NodeType /\ n.failed = node[r.node].failed
    BY <1>1, <1>2, <2>1, WithLast
  <2>. HIDE DEF n
  <2>3. /\ Len(node') = Len(node)
        /\ \A i \in 1..Len(node) : node'[i] = IF i = r.node THEN n ELSE node[i]
    BY <1>2, <2>1, <2>2, ExceptSeq
  <2>4. SameCounters
    BY <2>1, <2>2, <2>3 DEF SameCounters
  <2>. QED  BY <2>4, KeepCounted
<1>4. CASE ~(r.node <= Len(node))
  BY <1>1, <1>4, AppendCounted DEF Claim
<1>. QED  BY <1>3, <1>4

LEMMA CountedNext == PoolInv /\ Counted /\ [Next]_vars => Counted'
<1>. SUFFICES ASSUME PoolInv, Counted, [Next]_vars PROVE Counted'
  OBVIOUS
<1>1. CASE UNCHANGED <<node, current>>
  BY <1>1 DEF Counted
<1>2. ASSUME NEW size \in PoolSizes, mp_create_pool(size) PROVE Counted'
  <2>. DEFINE b == [last |-> Base(1), end |-> Base(1) + size, failed |-> 0]
  <2>1. node' = <<b>> /\ current' = 1 /\ b.failed = 0
    BY <1>2 DEF mp_create_pool
  <2>. HIDE DEF b
  <2>2. Len(node') = 1 /\ node'[1].failed = 0
    BY <2>1
  <2>. QED  BY <2>1, <2>2 DEF Counted
<1>3. ASSUME NEW size \in Nat \ {0}, NEW al \in BOOLEAN, Small(size, al) PROVE Counted'
  BY <1>3, ClaimCounted DEF Small, Ready
<1>4. ASSUME node # <<>>, NEW p \in Ids, NewCell(p) PROVE Counted'
  BY <1>4, ClaimCounted, HeaderAssumption DEF NewCell
<1>5. ASSUME NEW size \in Requests, mp_alloc(size) \/ mp_nalloc(size) PROVE Counted'
  <2>1. size \in Nat \ {0}
    BY RequestAssumption
  <2>2. CASE Small(size, TRUE) \/ Small(size, FALSE)
    BY <1>3, <2>1, <2>2
  <2>3. ASSUME Ready, NEW p \in Ids, mp_alloc_large(p) PROVE Counted'
    BY <1>1, <1>4, <2>3 DEF Ready, mp_alloc_large, ReuseCell, NoCell
  <2>. QED  BY <1>5, <2>2, <2>3 DEF mp_alloc, mp_nalloc
<1>6. ASSUME NEW p \in Ids, mp_memalign(p) PROVE Counted'
  BY <1>1, <1>4, <1>6 DEF mp_memalign, Ready, NoCell
<1>7. ASSUME NEW p \in Ids, mp_free(p) PROVE Counted'
  BY <1>1, <1>7 DEF mp_free
<1>8. CASE mp_reset_pool
  <2>1. node # <<>> /\ current' = current
    BY <1>8 DEF mp_reset_pool, Ready
  <2>2. node' = [i \in 1..Len(node) |-> [node[i] EXCEPT !.last = Base(i)]]
    BY <1>8 DEF mp_reset_pool
  <2>3. Len(node) \in Nat /\ \A i \in 1..Len(node) : node[i] \in NodeType /\ Base(i) \in Nat
    BY <2>1, ChainTyping
  <2>4. \A i \in 1..Len(node) : LET m == [node[i] EXCEPT !.last = Base(i)]
                                IN  m \in NodeType /\ m.failed = node[i].failed
    BY <2>3, WithLast
  <2>5. node' \in [1..Len(node) -> NodeType] /\ \A i \in 1..Len(node) : node'[i].failed = node[i].failed
    BY <2>2, <2>4
  <2>6. Len(node') = Len(node)
    BY <2>3, <2>5, FunctionIsSeq
  <2>. QED  BY <2>1, <2>5, <2>6, KeepCounted DEF SameCounters
<1>9. CASE mp_destory_pool
  BY <1>9 DEF mp_destory_pool, Counted
<1>10. CASE UNCHANGED vars
  BY <1>1, <1>10 DEF vars
<1>. QED  BY <1>2, <1>5, <1>6, <1>7, <1>8, <1>9, <1>10 DEF Next

LEMMA CountedInit == Init => Counted
  BY DEF Init, Counted

\* A search looks at seven blocks at most, however long the chain.
THEOREM ScansBounded == Spec => []ScanBounded
<1>1. ASSUME PoolInv, Counted PROVE ScanBounded
  <2>1. CASE node = <<>>
    <3>1. Len(node) = 0 /\ current = 0
      BY <1>1, <2>1 DEF PoolInv, TypeOK
    <3>. QED  BY <3>1 DEF ScanBounded
  <2>2. CASE node # <<>>
    BY <1>1, <2>2 DEF Counted, ScanBounded
  <2>. QED  BY <2>1, <2>2
<1>. QED  BY <1>1, PoolInit, PoolNext, CountedInit, CountedNext, PTL DEF Spec

\* Only blocks that failed six searches are left behind.
THEOREM SkipsAreTired == Spec => []SkipsTiredOnly
<1>1. ASSUME PoolInv, Counted PROVE SkipsTiredOnly
  <2>1. CASE node = <<>>
    <3>1. current = 0
      BY <1>1, <2>1 DEF PoolInv, TypeOK
    <3>. QED  BY <3>1 DEF SkipsTiredOnly
  <2>2. CASE node # <<>>
    BY <1>1, <2>2 DEF Counted, SkipsTiredOnly
  <2>. QED  BY <2>1, <2>2
<1>. QED  BY <1>1, PoolInit, PoolNext, CountedInit, CountedNext, PTL DEF Spec
-----------------------------------------------------------------------------
(* Large blocks and the cells that name them *)

LEMMA CellTypes ==
    ASSUME TypeOK
    PROVE  large \in Seq(CellType) /\ Len(large) \in Nat /\ heap \subseteq Ids
           /\ \A k \in 1..Len(large) : large[k] \in CellType /\ large[k].alloc \in Ids \cup {Null}
  BY Typing DEF TypeOK, CellType

\* One cell begins or ends to name p.
LEMMA RenamedCells ==
    ASSUME TypeOK, NEW k \in 1..Len(large), NEW v, large' = [large EXCEPT ![k].alloc = v]
    PROVE  /\ Len(large') = Len(large) /\ large'[k].alloc = v
           /\ \A j \in 1..Len(large) : j # k => large'[j].alloc = large[j].alloc
<1>1. /\ large \in Seq(CellType) /\ Len(large) \in Nat
      /\ \A j \in 1..Len(large) : large[j] \in CellType
  BY CellTypes
<1>2. large' = [large EXCEPT ![k] = [large[k] EXCEPT !.alloc = v]]
  OBVIOUS
<1>3. [large[k] EXCEPT !.alloc = v].alloc = v
  BY <1>1 DEF CellType
<1>. QED  BY <1>1, <1>2, <1>3

LEMMA ReusedExact ==
    ASSUME TypeOK, LargeExact, NEW p \in Ids \ heap, ReuseCell(p)
    PROVE  LargeExact'
<1>1. PICK k \in 1..Len(large) : large[k].alloc = Null /\ large' = [large EXCEPT ![k].alloc = p]
  BY DEF ReuseCell, FreeCells
<1>2. /\ Len(large') = Len(large) /\ large'[k].alloc = p
      /\ \A j \in 1..Len(large) : j # k => large'[j].alloc = large[j].alloc
  BY <1>1, RenamedCells
<1>3. p # Null /\ \A j \in 1..Len(large) : large[j].alloc # p
  BY IdAssumption DEF LargeExact, Named
<1>4. Named' \ {Null} = (Named \ {Null}) \cup {p}
  BY <1>1, <1>2, <1>3 DEF Named
<1>5. heap' = heap \cup {p}
  BY DEF ReuseCell
<1>. QED  BY <1>2, <1>3, <1>4, <1>5 DEF LargeExact

LEMMA AddedExact ==
    ASSUME TypeOK, LargeExact, NEW p \in Ids \ heap, NewCell(p)
    PROVE  LargeExact'
<1>1. PICK r : large' = <<[alloc |-> p, at |-> r]>> \o large
  BY DEF NewCell
<1>2. PICK x : x = [alloc |-> p, at |-> r]
  OBVIOUS
<1>3. large \in Seq(CellType) /\ Len(large) \in Nat
  BY CellTypes
<1>4. /\ Len(large') = Len(large) + 1 /\ large'[1] = x
      /\ \A j \in 1..Len(large) : large'[j + 1] = large[j]
  BY <1>1, <1>2, <1>3
<1>5. large'[1].alloc = p
  BY <1>2, <1>4
<1>6. p # Null /\ \A j \in 1..Len(large) : large[j].alloc # p
  BY IdAssumption DEF LargeExact, Named
<1>7. ASSUME NEW i \in 1..Len(large')
      PROVE  i = 1 \/ (i - 1 \in 1..Len(large) /\ large'[i] = large[i - 1])
  BY <1>3, <1>4
<1>8. \A j \in 1..Len(large) : j + 1 \in 1..Len(large')
  BY <1>3, <1>4
<1>9. 1 \in 1..Len(large')
  BY <1>3, <1>4
<1>10. Named' = Named \cup {p}
  <2>1. ASSUME NEW q \in Named PROVE q \in Named'
    <3>1. PICK j \in 1..Len(large) : q = large[j].alloc
      BY <2>1 DEF Named
    <3>. QED  BY <1>4, <1>8, <3>1 DEF Named
  <2>2. ASSUME NEW q \in Named' PROVE q \in Named \cup {p}
    <3>1. PICK i \in 1..Len(large') : q = large'[i].alloc
      BY <2>2 DEF Named
    <3>. QED  BY <1>5, <1>7, <3>1 DEF Named
  <2>3. p \in Named'
    BY <1>5, <1>9 DEF Named
  <2>. QED  BY <2>1, <2>2, <2>3
<1>11. ASSUME NEW i \in 1..Len(large'), NEW j \in 1..Len(large'), i # j,
              large'[i].alloc = large'[j].alloc
       PROVE  large'[i].alloc = Null
  <2>1. i # 1 /\ j # 1
    BY <1>5, <1>6, <1>7, <1>11
  <2>2. i - 1 \in 1..Len(large) /\ j - 1 \in 1..Len(large) /\ i - 1 # j - 1
        /\ large'[i] = large[i - 1] /\ large'[j] = large[j - 1]
    BY <1>3, <1>4, <1>7, <1>11, <2>1
  <2>. QED  BY <1>11, <2>2 DEF LargeExact
<1>12. heap' = heap \cup {p}
  BY DEF NewCell
<1>. QED  BY <1>6, <1>10, <1>11, <1>12 DEF LargeExact

LEMMA FreedExact ==
    ASSUME TypeOK, LargeExact, NEW p \in Ids, mp_free(p)
    PROVE  LargeExact'
<1>1. PICK k \in 1..Len(large) : large[k].alloc = p /\ large' = [large EXCEPT ![k].alloc = Null]
  BY DEF mp_free
<1>2. /\ Len(large') = Len(large) /\ large'[k].alloc = Null
      /\ \A j \in 1..Len(large) : j # k => large'[j].alloc = large[j].alloc
  BY <1>1, RenamedCells
<1>3. p # Null /\ \A j \in 1..Len(large) : j # k => large[j].alloc # p
  BY <1>1, IdAssumption DEF LargeExact
<1>4. Named' \ {Null} = (Named \ {Null}) \ {p}
  BY <1>1, <1>2, <1>3 DEF Named
<1>5. heap' = heap \ {p}
  BY DEF mp_free
<1>. QED  BY <1>2, <1>4, <1>5 DEF LargeExact

\* Without cells nothing is named: all blocks went back to malloc().
LEMMA EmptiedExact ==
    ASSUME LargeExact, heap' = heap \ Named, large' = <<>>
    PROVE  LargeExact'
<1>1. heap' = {} /\ Named' = {}
  BY DEF LargeExact, Named
<1>. QED  BY <1>1 DEF LargeExact

LEMMA LargeNext == TypeOK /\ LargeExact /\ [Next]_vars => LargeExact'
<1>. SUFFICES ASSUME TypeOK, LargeExact, [Next]_vars PROVE LargeExact'
  OBVIOUS
<1>1. ASSUME UNCHANGED <<large, heap>> PROVE LargeExact'
  BY <1>1 DEF LargeExact, Named
<1>2. ASSUME NEW p \in Ids, mp_alloc_large(p) PROVE LargeExact'
  BY <1>1, <1>2, ReusedExact, AddedExact DEF mp_alloc_large, NoCell
<1>3. ASSUME NEW size \in PoolSizes, mp_create_pool(size) PROVE LargeExact'
  BY <1>1, <1>3 DEF mp_create_pool
<1>4. ASSUME NEW size \in Requests, mp_alloc(size) \/ mp_nalloc(size) PROVE LargeExact'
  BY <1>1, <1>2, <1>4 DEF mp_alloc, mp_nalloc, Small
<1>5. ASSUME NEW p \in Ids, mp_memalign(p) PROVE LargeExact'
  BY <1>1, <1>5, AddedExact DEF mp_memalign, NoCell
<1>6. ASSUME NEW p \in Ids, mp_free(p) PROVE LargeExact'
  BY <1>6, FreedExact
<1>7. CASE mp_reset_pool \/ mp_destory_pool
  BY <1>7, EmptiedExact DEF mp_reset_pool, mp_destory_pool
<1>8. CASE UNCHANGED vars
  BY <1>1, <1>8 DEF vars
<1>. QED  BY <1>3, <1>4, <1>5, <1>6, <1>7, <1>8 DEF Next

\* malloc() and free() of large blocks are paired, also when a cell is reused,
\* when there is no room for a cell, and across reset and destroy.
THEOREM LargePaired == Spec => []LargeExact
<1>1. Init => LargeExact
  BY DEF Init, LargeExact, Named
<1>2. PoolInv => TypeOK
  BY DEF PoolInv
<1>. QED  BY <1>1, <1>2, PoolInit, PoolNext, LargeNext, PTL DEF Spec
=============================================================================
