------------------------------- MODULE PageProofs -------------------------------
(***************************************************************************)
(* Theorems about PageCount, for any workers, client addresses and         *)
(* requests.  The first part is about search trees in general: a tree is   *)
(* given by its nodes N, its root r, the functions l, u and p that lead to *)
(* the lower child, the upper child and the parent, and the ranks h of its *)
(* keys: with -k as the rank of k, the lower child is the right one, so    *)
(* that each lemma is also one about the mirror image of a tree.  The      *)
(* second is the invariant of the program, and the third the walk of a     *)
(* worker that renders the tree alone.                                     *)
(***************************************************************************)
EXTENDS PageCount, SequenceTheorems, FiniteSetTheorems, TLAPS

Ranks(h) == h \in [Key -> Int] /\ \A j, k \in Key : h[j] = h[k] => j = k

Side(h, k, t, l, u) == IF h[k] < h[t] THEN l[t] ELSE u[t]

Kept(h, S, k, r, l, u) ==
    /\ r \in Key => r \in S
    /\ \A t \in S \ {k} : Side(h, k, t, l, u) \in Key => Side(h, k, t, l, u) \in S

\* The nodes a search for k meets.
Path(h, k, r, l, u) == {t \in Key : \A S \in SUBSET Key : Kept(h, S, k, r, l, u) => t \in S}

Pointers(l, u, p) == l \in [Key -> Pointer] /\ u \in [Key -> Pointer] /\ p \in [Key -> Pointer]

\* The nodes are linked both ways, and each child is on its side.
Linked(h, N, r, l, u, p) ==
    /\ N \subseteq Key /\ r \in N \cup {Sentinel} /\ (r = Sentinel => N = {})
    /\ r \in N => p[r] \notin Key
    /\ \A k \in N :
          /\ l[k] \in N \cup {Sentinel} /\ u[k] \in N \cup {Sentinel}
          /\ l[k] \in N => h[l[k]] < h[k] /\ p[l[k]] = k
          /\ u[k] \in N => h[k] < h[u[k]] /\ p[u[k]] = k
          /\ k # r => p[k] \in N /\ k \in {l[p[k]], u[p[k]]}

\* The search for a node finds it.
Findable(h, N, r, l, u) == \A k \in N : k \in Path(h, k, r, l, u)

SearchTree(h, N, r, l, u, p) == Linked(h, N, r, l, u, p) /\ Findable(h, N, r, l, u)

-----------------------------------------------------------------------------
(* Paths *)

\* The path of k is such a set itself, and the least one.
LEMMA PathKept ==
    ASSUME NEW h, NEW k, NEW r, NEW l, NEW u
    PROVE  /\ Path(h, k, r, l, u) \subseteq Key
           /\ Kept(h, Path(h, k, r, l, u), k, r, l, u)
           /\ \A S \in SUBSET Key : Kept(h, S, k, r, l, u) => Path(h, k, r, l, u) \subseteq S
  BY Zenon DEF Path, Kept

\* A search comes to a node only through its parent.
LEMMA PathParent ==
    ASSUME NEW h, Ranks(h), NEW N, NEW r, NEW l, NEW u, NEW p, Linked(h, N, r, l, u, p), N # {},
           NEW k \in N, NEW c \in Path(h, k, r, l, u), c \in N, c # r
    PROVE  p[c] \in Path(h, k, r, l, u) /\ p[c] # k /\ Side(h, k, p[c], l, u) = c
<1> DEFINE P == Path(h, k, r, l, u)
<1>1. P \subseteq Key /\ r \in P /\ P \subseteq N
  <2>1. r \in N /\ N \in SUBSET Key
    BY DEF Linked
  <2>2. Kept(h, N, k, r, l, u)
    BY KeyAssumption DEF Linked, Kept, Side
  <2>3. QED
    BY <2>1, <2>2, PathKept DEF Kept
<1>2. \A t \in P \ {k} : Side(h, k, t, l, u) \in Key => Side(h, k, t, l, u) \in P
  BY PathKept DEF Kept
<1>3. \A t \in P : Side(h, k, t, l, u) = c => t = p[c]
  BY <1>1 DEF Linked, Side
<1>4. ASSUME ~(p[c] \in P /\ p[c] # k /\ Side(h, k, p[c], l, u) = c) PROVE FALSE
  <2>1. Kept(h, P \ {c}, k, r, l, u)
    BY <1>1, <1>2, <1>3, <1>4 DEF Kept
  <2>2. P \subseteq P \ {c}
    BY <1>1, <2>1, PathKept
  <2>3. QED
    BY <2>2
<1>5. QED
  BY <1>4

\* A path does not leave the tree and starts at its root.
LEMMA PathNodes ==
    ASSUME NEW h, Ranks(h), NEW N, NEW r, NEW l, NEW u, NEW p, Linked(h, N, r, l, u, p), N # {}, NEW k \in Key
    PROVE  r \in N /\ r \in Path(h, k, r, l, u) /\ Path(h, k, r, l, u) \subseteq N
<1>1. r \in N /\ N \in SUBSET Key
  BY DEF Linked
<1>2. Kept(h, N, k, r, l, u)
  BY <1>1, KeyAssumption DEF Linked, Kept, Side
<1>3. QED
  BY <1>1, <1>2, PathKept DEF Kept

\* What is below the upper child of x on the lower side is above x.
LEMMA Between ==
    ASSUME NEW h, Ranks(h), NEW N, NEW r, NEW l, NEW u, NEW p, SearchTree(h, N, r, l, u, p),
           NEW x \in N, NEW y \in N, NEW z \in N
    PROVE  /\ u[x] = y /\ l[y] = z => h[x] < h[z]
           /\ l[x] = y /\ u[y] = z => h[z] < h[x]
<1>1. Linked(h, N, r, l, u, p) /\ z \in Path(h, z, r, l, u) /\ N # {}
  BY DEF SearchTree, Findable
<1>2. ASSUME y \in {l[x], u[x]}, z \in {l[y], u[y]}
      PROVE  x # z /\ Side(h, z, x, l, u) = y
  <2>1. p[y] = x /\ p[z] = y /\ y # r /\ z # r
    BY <1>1, <1>2 DEF Linked
  <2>2. y \in Path(h, z, r, l, u)
    BY <1>1, <2>1, PathParent
  <2>3. QED
    BY <1>1, <2>1, <2>2, PathParent
<1>3. u[x] = y => l[x] # y
  BY <1>1 DEF Linked, Ranks
<1>4. h[x] \in Int /\ h[z] \in Int /\ (h[x] = h[z] => x = z)
  BY <1>1 DEF Linked, Ranks
<1>5. u[x] = y /\ l[y] = z => h[x] < h[z]
  BY <1>2, <1>3, <1>4 DEF Side
<1>6. l[x] = y /\ u[y] = z => h[z] < h[x]
  BY <1>2, <1>3, <1>4 DEF Side
<1>7. QED
  BY <1>5, <1>6

\* y takes the place of x and x becomes a child of y.
MoveUp(x, y, r, l, u, p, r2, l2, u2, p2) ==
    /\ r2 = IF r = x THEN y ELSE r
    /\ LET q == p[x]
           moved == IF y = u[x] THEN l[y] ELSE u[y]
       IN  /\ p2 = [k \in Key |-> IF k = y THEN q ELSE IF k = x THEN y
                                  ELSE IF k = moved THEN x ELSE p[k]]
           /\ l2 = [k \in Key |-> IF k = q /\ l[q] = x THEN y
                                  ELSE IF k = y /\ y = u[x] THEN x
                                  ELSE IF k = x /\ y = l[x] THEN moved ELSE l[k]]
           /\ u2 = [k \in Key |-> IF k = q /\ u[q] = x THEN y
                                  ELSE IF k = y /\ y = l[x] THEN x
                                  ELSE IF k = x /\ y = u[x] THEN moved ELSE u[k]]

\* What a rotation to the left makes of the nodes.
TurnedLeft(N, x, y, l, u, p, l2, u2, p2) ==
    /\ p[x] # x /\ p[x] # y /\ l[y] # x /\ x # y
    /\ \A t \in N : /\ l2[t] = IF t = p[x] /\ l[t] = x THEN y ELSE IF t = y THEN x ELSE l[t]
                    /\ u2[t] = IF t = p[x] /\ u[t] = x THEN y ELSE IF t = x THEN l[y] ELSE u[t]
                    /\ p2[t] = IF t = y THEN p[x] ELSE IF t = x THEN y
                               ELSE IF t = l[y] THEN x ELSE p[t]

\* A rotation to the left: the upper child of x goes up.
LEMMA LeftLinked ==
    ASSUME NEW h, Ranks(h), NEW N, NEW r, NEW l, NEW u, NEW p, NEW r2, NEW l2, NEW u2, NEW p2,
           SearchTree(h, N, r, l, u, p),
           NEW x \in N, NEW y \in N, y = u[x],
           MoveUp(x, y, r, l, u, p, r2, l2, u2, p2)
    PROVE  /\ Linked(h, N, r2, l2, u2, p2)
           /\ TurnedLeft(N, x, y, l, u, p, l2, u2, p2)
<1> DEFINE m == l[y]
<1>1. Linked(h, N, r, l, u, p) /\ N \subseteq Key /\ Sentinel \notin N /\ \A k \in N : h[k] \in Int
  BY KeyAssumption DEF SearchTree, Linked, Ranks
<1>2. /\ r \in N /\ p[r] \notin N
      /\ \A k \in N : l[k] \in N \cup {Sentinel} /\ u[k] \in N \cup {Sentinel}
      /\ \A k \in N : l[k] \in N => h[l[k]] < h[k] /\ p[l[k]] = k
      /\ \A k \in N : u[k] \in N => h[k] < h[u[k]] /\ p[u[k]] = k
      /\ \A k \in N : k # r => p[k] \in N /\ (k = l[p[k]] \/ k = u[p[k]])
  BY <1>1 DEF Linked
<1>3. h[x] < h[y] /\ p[y] = x /\ y # r
  BY <1>2
<1>4. m \in N \cup {Sentinel} /\ (m \in N => h[x] < h[m] /\ h[m] < h[y] /\ p[m] = y)
  BY <1>2, Between
<1>5. l[x] # y /\ p[x] # x
  BY <1>1, <1>2, <1>3
<1>6. p[x] # y
  <2>1. l[y] # x /\ u[y] # x
    BY <1>1, <1>2, <1>3, <1>4
  <2>2. QED
    BY <1>2, <2>1
<1>7. p[x] \in N /\ l[p[x]] = x => h[y] < h[p[x]]
  BY Between
<1>8. \A t \in N : /\ l2[t] = IF t = p[x] /\ l[t] = x THEN y ELSE IF t = y THEN x ELSE l[t]
                   /\ u2[t] = IF t = p[x] /\ u[t] = x THEN y ELSE IF t = x THEN m ELSE u[t]
                   /\ p2[t] = IF t = y THEN p[x] ELSE IF t = x THEN y
                              ELSE IF t = m THEN x ELSE p[t]
  BY <1>1, <1>5 DEF MoveUp
<1>9. r2 = IF r = x THEN y ELSE r
  BY DEF MoveUp
<1>10. r2 \in N /\ p2[r2] \notin Key
  <2>1. r \in N /\ p[r] \notin Key /\ (m \in N => m # r)
    BY <1>1, <1>2, <1>4 DEF Linked
  <2>2. QED
    BY <1>8, <1>9, <1>3, <2>1
<1>11. ASSUME NEW t \in N PROVE l2[t] \in N \cup {Sentinel} /\ u2[t] \in N \cup {Sentinel}
  BY <1>2, <1>4, <1>8
<1>12. ASSUME NEW t \in N, l2[t] \in N PROVE h[l2[t]] < h[t] /\ p2[l2[t]] = t
  <2>1. CASE t = p[x] /\ l[t] = x
    BY <1>7, <1>8, <2>1
  <2>2. CASE ~(t = p[x] /\ l[t] = x) /\ t = y
    BY <1>3, <1>8, <2>2
  <2>3. CASE ~(t = p[x] /\ l[t] = x) /\ t # y
    <3>1. l2[t] = l[t] /\ h[l[t]] < h[t] /\ p[l[t]] = t
      BY <1>2, <1>8, <1>12, <2>3
    <3>2. l[t] # x /\ l[t] # y /\ l[t] # m
      BY <1>2, <1>3, <1>4, <1>5, <1>12, <2>3, <3>1
    <3>3. QED
      BY <1>8, <1>12, <3>1, <3>2
  <2>4. QED
    BY <2>1, <2>2, <2>3
<1>13. ASSUME NEW t \in N, u2[t] \in N PROVE h[t] < h[u2[t]] /\ p2[u2[t]] = t
  <2>1. CASE t = p[x] /\ u[t] = x
    <3>1. h[t] < h[x]
      BY <1>2, <2>1
    <3>2. QED
      BY <1>1, <1>3, <1>8, <2>1, <3>1
  <2>2. CASE ~(t = p[x] /\ u[t] = x) /\ t = x
    <3>1. u2[t] = m /\ m \in N
      BY <1>8, <1>13, <2>2
    <3>2. m # y /\ m # x /\ h[x] < h[m]
      BY <1>1, <1>4, <3>1
    <3>3. p2[m] = x
      BY <1>8, <3>1, <3>2
    <3>4. QED
      BY <2>2, <3>1, <3>2, <3>3
  <2>3. CASE ~(t = p[x] /\ u[t] = x) /\ t # x
    <3>1. u2[t] = u[t] /\ h[t] < h[u[t]] /\ p[u[t]] = t
      BY <1>2, <1>8, <1>13, <2>3
    <3>2. u[t] # x /\ u[t] # y
      BY <1>3, <1>13, <2>3, <3>1
    <3>3. u[t] # m
      <4>1. u[t] = m => t = y
        BY <1>4, <1>13, <3>1
      <4>2. u[y] = m /\ m \in N => h[y] < h[m]
        BY <1>2
      <4>3. m \in N => h[m] < h[y]
        BY <1>4
      <4>4. ASSUME u[t] = m PROVE FALSE
        <5>1. m \in N /\ t = y
          BY <1>13, <3>1, <4>1, <4>4
        <5>2. h[y] < h[m] /\ h[m] < h[y] /\ h[y] \in Int /\ h[m] \in Int
          BY <1>1, <4>2, <4>3, <4>4, <5>1
        <5>3. QED
          BY <5>2
      <4>5. QED
        BY <4>4
    <3>4. QED
      BY <1>8, <1>13, <3>1, <3>2, <3>3
  <2>4. QED
    BY <2>1, <2>2, <2>3
<1>14. ASSUME NEW t \in N, t # r2 PROVE p2[t] \in N /\ (t = l2[p2[t]] \/ t = u2[p2[t]])
  <2>1. CASE t = y
    <3>1. p[x] \in N /\ (x = l[p[x]] \/ x = u[p[x]])
      BY <1>2, <1>9, <1>14, <2>1
    <3>2. p2[t] = p[x]
      BY <1>8, <2>1
    <3>3. QED
      BY <1>8, <2>1, <3>1, <3>2
  <2>2. CASE t = x
    BY <1>3, <1>6, <1>8, <2>2
  <2>3. CASE t = m
    <3>1. x # m /\ m # y
      BY <1>1, <1>4, <2>3
    <3>2. p2[t] = x
      BY <1>8, <2>3, <3>1
    <3>3. u2[x] = m
      BY <1>5, <1>8
    <3>4. QED
      BY <2>3, <3>2, <3>3
  <2>4. CASE t # x /\ t # y /\ t # m
    <3>1. t # r /\ p2[t] = p[t] /\ p[t] \in N /\ (t = l[p[t]] \/ t = u[p[t]])
      BY <1>2, <1>3, <1>8, <1>9, <1>14, <2>4
    <3>2. (t = l[p[t]] => p[t] # y) /\ (t = u[p[t]] => p[t] # x)
      BY <2>4
    <3>3. QED
      BY <1>8, <2>4, <3>1, <3>2
  <2>5. QED
    BY <2>1, <2>2, <2>3, <2>4
<1>15. Linked(h, N, r2, l2, u2, p2)
  BY <1>1, <1>10, <1>11, <1>12, <1>13, <1>14, KeyAssumption DEF Linked
<1>16. l[y] # x /\ x # y
  BY <1>1, <1>3, <1>4
<1>17. QED
  BY <1>5, <1>6, <1>8, <1>15, <1>16 DEF TurnedLeft

\* After it every search still finds its node: a set S2 that the search for k does
\* not leave has one that the search did not leave before, up to x and y.
LEMMA LeftFindable ==
    ASSUME NEW h, Ranks(h), NEW N, NEW r, NEW l, NEW u, NEW p, NEW r2, NEW l2, NEW u2, NEW p2,
           SearchTree(h, N, r, l, u, p),
           NEW x \in N, NEW y \in N, y = u[x],
           MoveUp(x, y, r, l, u, p, r2, l2, u2, p2)
    PROVE  Findable(h, N, r2, l2, u2)
<1> DEFINE m == l[y]
<1>1. /\ Linked(h, N, r, l, u, p) /\ N \subseteq Key /\ Sentinel \notin N
      /\ N # {} /\ \A k \in N : h[k] \in Int /\ k \in Path(h, k, r, l, u)
  BY KeyAssumption DEF SearchTree, Linked, Ranks, Findable
<1>2. /\ r \in N
      /\ \A k \in N : l[k] \in N \cup {Sentinel} /\ u[k] \in N \cup {Sentinel}
      /\ \A k \in N : l[k] \in N => p[l[k]] = k
      /\ \A k \in N : u[k] \in N => p[u[k]] = k
  BY <1>1 DEF Linked
<1>0. TurnedLeft(N, x, y, l, u, p, l2, u2, p2)
  BY LeftLinked
<1>3. h[x] < h[y] /\ p[y] = x /\ y # r /\ l[x] # y /\ p[x] # x /\ p[x] # y /\ x # y
  <2>1. h[x] < h[y] /\ p[y] = x /\ y # r
    BY <1>1 DEF Linked
  <2>2. l[x] # y
    BY <1>1, <2>1 DEF Linked
  <2>3. p[x] # x /\ p[x] # y /\ x # y
    BY <1>0 DEF TurnedLeft
  <2>4. QED
    BY <2>1, <2>2, <2>3
<1>4. /\ \A t \in N : l2[t] = IF t = p[x] /\ l[t] = x THEN y ELSE IF t = y THEN x ELSE l[t]
      /\ \A t \in N : u2[t] = IF t = p[x] /\ u[t] = x THEN y ELSE IF t = x THEN m ELSE u[t]
  BY <1>0 DEF TurnedLeft
<1>5. r2 = IF r = x THEN y ELSE r
  BY DEF MoveUp
<1> SUFFICES ASSUME NEW k \in N, NEW S2 \in SUBSET Key, Kept(h, S2, k, r2, l2, u2)
             PROVE  k \in S2
  BY <1>1 DEF Findable, Path
<1> DEFINE T == S2 \cap N
           Was(t) == Side(h, k, t, l, u)
           Is(t) == Side(h, k, t, l2, u2)
<1>6. /\ r2 \in T
      /\ \A t \in T \ {k} : Is(t) \in N => Is(t) \in T
  BY <1>1, <1>2, <1>5 DEF Kept
<1>7. ASSUME NEW S \in SUBSET N, r \in S, \A t \in S \ {k} : Was(t) \in N => Was(t) \in S
      PROVE  k \in S
  <2>1. Kept(h, S, k, r, l, u)
    <3>1. \A t \in S : Was(t) \in N \cup {Sentinel}
      BY <1>2 DEF Side
    <3>2. QED
      BY <1>1, <1>7, <3>1, KeyAssumption DEF Kept
  <2>2. QED
    BY <1>1, <2>1, PathKept
\* What the search for k does at a node, before and after.
<1>8. /\ \A t \in N : Was(t) = x => t = p[x]
      /\ \A t \in N : Was(t) = y => t = x
  BY <1>1, <1>2, <1>3 DEF Side
<1>9. \A t \in N : Was(t) = x => Is(t) = y
  <2> SUFFICES ASSUME NEW t \in N, Was(t) = x PROVE Is(t) = y
    OBVIOUS
  <2>1. t = p[x]
    BY <1>8
  <2>2. CASE h[k] < h[t]
    BY <1>4, <2>1, <2>2 DEF Side
  <2>3. CASE ~(h[k] < h[t])
    BY <1>4, <2>1, <2>3 DEF Side
  <2>4. QED
    BY <2>2, <2>3
<1>10. \A t \in N : t # x /\ t # y /\ Was(t) # x => Is(t) = Was(t)
  BY <1>4 DEF Side
<1>11. /\ h[k] < h[y] => Is(y) = x /\ Was(y) = m
       /\ ~(h[k] < h[y]) => Is(y) = Was(y)
       /\ h[k] < h[x] => Is(x) = Was(x) /\ Was(x) # y
       /\ ~(h[k] < h[x]) => Is(x) = m /\ Was(x) = y
  BY <1>3, <1>4 DEF Side
<1>12. CASE ~(h[x] < h[k])
  <2>1. h[k] < h[y] /\ k # y
    BY <1>1, <1>3, <1>12
  <2>2. k # x => h[k] < h[x]
    BY <1>1, <1>12 DEF Ranks
  <2>3. k \in T \ {y}
    <3>1. r \in T \ {y}
      BY <1>3, <1>5, <1>6, <1>11, <2>1
    <3>2. ASSUME NEW t \in (T \ {y}) \ {k}, Was(t) \in N PROVE Was(t) \in T \ {y}
      <4>1. CASE t = x
        BY <1>6, <1>11, <2>2, <3>2, <4>1
      <4>2. CASE Was(t) = x
        BY <1>3, <1>6, <1>9, <1>11, <2>1, <3>2, <4>2
      <4>3. CASE t # x /\ Was(t) # x
        BY <1>6, <1>8, <1>10, <3>2, <4>3
      <4>4. QED
        BY <4>1, <4>2, <4>3
    <3>3. QED
      BY <1>7, <3>1, <3>2
  <2>4. QED
    BY <2>3
<1>13. CASE h[x] < h[k] /\ h[k] < h[y]
  <2>1. k # x /\ k # y
    BY <1>1, <1>13
  <2>2. (y \in T => x \in T) /\ (x \in T /\ m \in N => m \in T)
    <3>1. Is(y) = x /\ Is(x) = m
      BY <1>1, <1>11, <1>13
    <3>2. QED
      BY <1>6, <2>1, <3>1
  <2>3. r \in T
    BY <1>5, <1>6, <2>2
  <2>4. \A t \in T \ {k} : Was(t) = x => x \in T
    BY <1>6, <1>9, <2>2
  <2>5. CASE x \in T
    <3>1. ASSUME NEW t \in (T \cup {y}) \ {k}, Was(t) \in N PROVE Was(t) \in T \cup {y}
      <4>1. CASE t = x \/ t = y
        BY <1>1, <1>11, <1>13, <2>2, <2>5, <3>1, <4>1
      <4>2. CASE t # x /\ t # y
        BY <1>6, <1>10, <2>4, <3>1, <4>2
      <4>3. QED
        BY <4>1, <4>2
    <3>2. k \in T \cup {y}
      BY <1>7, <2>3, <3>1, T \cup {y} \in SUBSET N
    <3>3. QED
      BY <2>1, <3>2
  <2>6. CASE x \notin T
    <3>1. ASSUME NEW t \in T \ {k}, Was(t) \in N PROVE Was(t) \in T
      BY <1>6, <1>10, <2>2, <2>4, <2>6, <3>1
    <3>2. QED
      BY <1>7, <2>3, <3>1
  <2>7. QED
    BY <2>5, <2>6
<1>14. CASE ~(h[k] < h[y])
  <2>1. k # x /\ h[x] < h[k]
    BY <1>1, <1>3, <1>14
  <2>2. CASE y \in T
    <3>1. r \in T \cup {x}
      BY <1>5, <1>6
    <3>2. ASSUME NEW t \in (T \cup {x}) \ {k}, Was(t) \in N PROVE Was(t) \in T \cup {x}
      <4>1. CASE t = x
        BY <1>1, <1>11, <2>1, <2>2, <4>1
      <4>2. CASE t = y
        BY <1>6, <1>11, <1>14, <2>2, <3>2, <4>2
      <4>3. CASE t # x /\ t # y
        BY <1>6, <1>10, <3>2, <4>3
      <4>4. QED
        BY <4>1, <4>2, <4>3
    <3>3. QED
      BY <1>7, <2>1, <3>1, <3>2
  <2>3. CASE y \notin T
    <3>1. r \in T \ {x}
      BY <1>5, <1>6, <2>3
    <3>2. ASSUME NEW t \in (T \ {x}) \ {k}, Was(t) \in N PROVE Was(t) \in T \ {x}
      <4>1. Was(t) # x
        BY <1>1, <1>6, <1>9, <2>3, <3>2
      <4>2. QED
        BY <1>6, <1>10, <2>3, <3>2, <4>1
    <3>3. QED
      BY <1>7, <3>1, <3>2
  <2>4. QED
    BY <2>2, <2>3
<1>15. QED
  BY <1>1, <1>3, <1>12, <1>13, <1>14

\* The mirror image of a tree is a tree.
LEMMA Mirror ==
    ASSUME NEW g, Ranks(g), NEW h, h = [k \in Key |-> -g[k]],
           NEW N, NEW r, NEW l, NEW u, NEW p, SearchTree(g, N, r, l, u, p)
    PROVE  Ranks(h) /\ SearchTree(h, N, r, u, l, p)
<1>1. Linked(g, N, r, l, u, p) /\ N \subseteq Key /\ \A k \in N : k \in Path(g, k, r, l, u)
  BY DEF SearchTree, Linked, Findable
<1>2. \A k \in Key : g[k] \in Int /\ h[k] = -g[k]
  BY DEF Ranks
<1>3. Ranks(h)
  <2>1. h \in [Key -> Int]
    BY <1>2
  <2>2. \A j, k \in Key : h[j] = h[k] => g[j] = g[k]
    BY <1>2
  <2>3. QED
    BY <2>1, <2>2 DEF Ranks
<1>4. \A j, k \in Key : h[j] < h[k] <=> g[k] < g[j]
  BY <1>2
<1>5. Linked(h, N, r, u, l, p)
  BY <1>1, <1>4 DEF Linked
<1>6. ASSUME NEW k \in N PROVE k \in Path(h, k, r, u, l)
  <2>1. \A t \in Key \ {k} : Side(h, k, t, u, l) = Side(g, k, t, l, u)
    <3> SUFFICES ASSUME NEW t \in Key \ {k} PROVE Side(h, k, t, u, l) = Side(g, k, t, l, u)
      OBVIOUS
    <3>1. h[k] < h[t] <=> ~(g[k] < g[t])
      BY <1>1, <1>2 DEF Ranks
    <3>2. QED
      BY <3>1 DEF Side
  <2>2. \A S \in SUBSET Key : Kept(h, S, k, r, u, l) => Kept(g, S, k, r, l, u)
    BY <2>1 DEF Kept
  <2>3. QED
    BY <1>1, <2>2 DEF Path
<1>7. QED
  BY <1>3, <1>5, <1>6 DEF SearchTree, Findable

\* A rotation, to either side, leaves a search tree with the same nodes.
LEMMA Rotated ==
    ASSUME NEW h, Ranks(h), NEW N, NEW r, NEW l, NEW u, NEW p, NEW r2, NEW l2, NEW u2, NEW p2,
           SearchTree(h, N, r, l, u, p),
           NEW x \in N, NEW y \in N, y \in {l[x], u[x]},
           MoveUp(x, y, r, l, u, p, r2, l2, u2, p2)
    PROVE  SearchTree(h, N, r2, l2, u2, p2)
<1>1. CASE y = u[x]
  BY <1>1, LeftLinked, LeftFindable DEF SearchTree
<1>2. CASE y = l[x]
  <2> DEFINE g == [k \in Key |-> -h[k]]
  <2>1. Ranks(g) /\ SearchTree(g, N, r, u, l, p)
    BY Mirror
  <2>2. y # u[x]
    BY <1>2 DEF SearchTree, Linked, Ranks
  <2>3. MoveUp(x, y, r, u, l, p, r2, u2, l2, p2)
    BY <1>2, <2>2 DEF MoveUp
  <2>4. SearchTree(g, N, r2, u2, l2, p2)
    <3> HIDE DEF g
    <3>1. Linked(g, N, r2, u2, l2, p2)
      BY <1>2, <2>1, <2>3, LeftLinked
    <3>2. Findable(g, N, r2, u2, l2)
      BY <1>2, <2>1, <2>3, LeftFindable
    <3>3. QED
      BY <3>1, <3>2 DEF SearchTree
  <2>5. h = [k \in Key |-> -g[k]]
    BY DEF Ranks
  <2>6. QED
    <3> HIDE DEF g
    <3>1. QED
      BY <2>1, <2>4, <2>5, Mirror
<1>3. QED
  BY <1>1, <1>2

\* A new node where the search for it ends.
LEMMA Grafted ==
    ASSUME NEW h, Ranks(h), NEW N, NEW r, NEW l, NEW u, NEW p, NEW l2, NEW u2, NEW p2,
           SearchTree(h, N, r, l, u, p), N # {}, Pointers(l, u, p),
           NEW c \in Key \ N, NEW t \in Path(h, c, r, l, u), Side(h, c, t, l, u) \notin Key,
           l2 = [k \in Key |-> IF k = c THEN Sentinel
                               ELSE IF k = t /\ h[c] < h[t] THEN c ELSE l[k]],
           u2 = [k \in Key |-> IF k = c THEN Sentinel
                               ELSE IF k = t /\ ~(h[c] < h[t]) THEN c ELSE u[k]],
           p2 = [k \in Key |-> IF k = c THEN t ELSE p[k]]
    PROVE  SearchTree(h, N \cup {c}, r, l2, u2, p2)
<1>1. /\ Linked(h, N, r, l, u, p) /\ N \subseteq Key /\ Sentinel \notin Key /\ r \in N
      /\ \A k \in Key : h[k] \in Int
      /\ t \in N /\ t # c
  <2>1. Linked(h, N, r, l, u, p)
    BY DEF SearchTree
  <2>2. r \in N /\ Path(h, c, r, l, u) \subseteq N
    BY <2>1, PathNodes
  <2>3. N \subseteq Key /\ Sentinel \notin Key /\ \A k \in Key : h[k] \in Int
    BY <2>1, KeyAssumption DEF Linked, Ranks
  <2>4. QED
    BY <2>1, <2>2, <2>3
<1>2. /\ \A k \in N : /\ l2[k] = IF k = t /\ h[c] < h[t] THEN c ELSE l[k]
                      /\ u2[k] = IF k = t /\ ~(h[c] < h[t]) THEN c ELSE u[k]
                      /\ p2[k] = p[k]
      /\ l2[c] = Sentinel /\ u2[c] = Sentinel /\ p2[c] = t
  BY <1>1
<1>3. IF h[c] < h[t] THEN l[t] \notin Key ELSE u[t] \notin Key /\ h[t] < h[c]
  BY <1>1 DEF Side, Ranks
<1>4. Linked(h, N \cup {c}, r, l2, u2, p2)
  <2>1. \A k \in N : k # r => p[k] \in N /\ (k = l[p[k]] \/ k = u[p[k]])
    BY <1>1 DEF Linked
  <2>2. \A k \in N : k # r => k = l2[p[k]] \/ k = u2[p[k]]
    BY <1>1, <1>2, <1>3, <2>1
  <2>3. c = l2[t] \/ c = u2[t]
    BY <1>1, <1>2
  <2>4. ASSUME NEW k \in N
        PROVE  /\ l2[k] \in N \cup {c, Sentinel} /\ u2[k] \in N \cup {c, Sentinel}
               /\ l2[k] \in N \cup {c} => h[l2[k]] < h[k] /\ p2[l2[k]] = k
               /\ u2[k] \in N \cup {c} => h[k] < h[u2[k]] /\ p2[u2[k]] = k
    <3>1. /\ l[k] \in N \cup {Sentinel} /\ u[k] \in N \cup {Sentinel}
          /\ l[k] \in N => h[l[k]] < h[k] /\ p[l[k]] = k
          /\ u[k] \in N => h[k] < h[u[k]] /\ p[u[k]] = k
      BY <1>1 DEF Linked
    <3>2. QED
      BY <1>1, <1>2, <1>3, <3>1
  <2>5. r \in N /\ p2[r] \notin Key /\ N \cup {c} \subseteq Key
    BY <1>1, <1>2 DEF Linked
  <2>6. ASSUME NEW k \in N \cup {c}, k # r
        PROVE  p2[k] \in N /\ (k = l2[p2[k]] \/ k = u2[p2[k]])
    BY <1>1, <1>2, <2>1, <2>2, <2>3, <2>6
  <2>7. ASSUME NEW k \in N \cup {c}
        PROVE  /\ l2[k] \in N \cup {c} \cup {Sentinel} /\ u2[k] \in N \cup {c} \cup {Sentinel}
               /\ l2[k] \in N \cup {c} => h[l2[k]] < h[k] /\ p2[l2[k]] = k
               /\ u2[k] \in N \cup {c} => h[k] < h[u2[k]] /\ p2[u2[k]] = k
    <3>1. CASE k \in N
      BY <2>4, <3>1
    <3>2. CASE k = c
      BY <1>1, <1>2, <3>2
    <3>3. QED
      BY <3>1, <3>2
  <2>8. QED
    BY <1>1, <2>5, <2>6, <2>7 DEF Linked
<1>5. ASSUME NEW k \in N \cup {c} PROVE k \in Path(h, k, r, l2, u2)
  <2> SUFFICES ASSUME NEW S \in SUBSET Key, Kept(h, S, k, r, l2, u2) PROVE k \in S
    BY <1>1 DEF Path
  <2>1. Kept(h, S \cap N, k, r, l, u)
    <3>1. \A s \in N : Side(h, k, s, l, u) \in Key => Side(h, k, s, l2, u2) = Side(h, k, s, l, u)
      BY <1>2, <1>3 DEF Side
    <3>2. \A s \in N : Side(h, k, s, l, u) \in N \cup {Sentinel}
      BY <1>1 DEF Linked, Side
    <3>3. QED
      BY <1>1, <3>1, <3>2 DEF Kept
  <2>2. Path(h, k, r, l, u) \subseteq S
    BY <2>1, PathKept
  <2>3. CASE k \in N
    BY <2>2, <2>3 DEF SearchTree, Findable
  <2>4. CASE k = c
    <3>1. t \in S \ {k} /\ Side(h, k, t, l2, u2) = c
      BY <1>1, <1>2, <2>2, <2>4 DEF Side
    <3>2. QED
      BY <2>4, <3>1 DEF Kept
  <2>5. QED
    BY <2>3, <2>4
<1>6. QED
  BY <1>4, <1>5 DEF SearchTree, Findable

\* The first node.
LEMMA Planted ==
    ASSUME NEW h, NEW l, NEW u, NEW p, NEW c \in Key,
           l[c] = Sentinel, u[c] = Sentinel, p[c] \notin Key
    PROVE  SearchTree(h, {c}, c, l, u, p)
<1>1. Sentinel \notin Key
  BY KeyAssumption
<1>2. Linked(h, {c}, c, l, u, p)
  BY <1>1 DEF Linked
<1>3. c \in Path(h, c, c, l, u)
  BY DEF Path, Kept
<1>4. QED
  BY <1>2, <1>3 DEF SearchTree, Findable

-----------------------------------------------------------------------------
(* The invariant of PageCount *)

\* The holder of the mutex has put the node k into the tree and has still to write
\* its pointers, in one of the steps S.
Writing(k, S) == mutex \in Worker /\ key[mutex] = k /\ pc[mutex] \in S

\* The pointers as they will be then.
Left   == [k \in Key |-> IF Writing(k, {"parent", "left"}) THEN Sentinel ELSE left[k]]
Right  == [k \in Key |-> IF Writing(k, {"parent", "left", "right"}) THEN Sentinel ELSE right[k]]
Parent == [k \in Key |-> IF Writing(k, {"parent"}) THEN node[mutex] ELSE parent[k]]

ByKey == [k \in Key |-> k]

\* The mutex is held by the worker that updates, and by no other.
Exclusive ==
    /\ \A w \in Worker : pc[w] \in Updating => mutex = w
    /\ mutex \in Worker => pc[mutex] \in Updating

\* A worker that serves a client has its key; one that renders is at a node.
AtWork ==
    /\ \A w \in Worker : pc[w] # "idle" => key[w] \in Key
    /\ \A w \in Worker : pc[w] \in Rendering => node[w] \in Key

Tree == SearchTree(ByKey, Counted, root, Left, Right, Parent)

Counts == \A k \in Counted : data[k] = counted[k] % CountMod

IInv == TypeOK /\ Exclusive /\ AtWork /\ Tree /\ Counts

LEMMA ByKeyRanks == Ranks(ByKey)
  BY KeyAssumption DEF ByKey, Ranks

\* While nobody has pointers to write, the searches of the program are the paths of
\* the tree.
LEMMA Settled ==
    ASSUME IInv, mutex = NoWorker \/ (mutex \in Worker /\ pc[mutex] \in {"lookup", "balance", "again", "unlock"})
    PROVE  /\ Left = left /\ Right = right /\ Parent = parent
           /\ \A k, t \in Key : Toward(k, t) = Side(ByKey, k, t, left, right)
           /\ \A k \in Key : Way(k) = Path(ByKey, k, root, left, right)
<1>1. \A k \in Key : ~Writing(k, {"parent", "left"}) /\ ~Writing(k, {"parent", "left", "right"})
                     /\ ~Writing(k, {"parent"})
  BY WorkerAssumption DEF Writing
<1>2. Left = left /\ Right = right /\ Parent = parent
  <2>1. left \in [Key -> Pointer] /\ right \in [Key -> Pointer] /\ parent \in [Key -> Pointer]
    BY DEF IInv, TypeOK
  <2>2. QED
    BY <1>1, <2>1 DEF Left, Right, Parent
<1>3. \A k, t \in Key : Toward(k, t) = Side(ByKey, k, t, left, right)
  BY DEF Toward, Side, ByKey
<1>4. \A k \in Key : Way(k) = Path(ByKey, k, root, left, right)
  <2> SUFFICES ASSUME NEW k \in Key PROVE Way(k) = Path(ByKey, k, root, left, right)
    OBVIOUS
  <2>1. \A S \in SUBSET Key : Closed(S, k) <=> Kept(ByKey, S, k, root, left, right)
    BY <1>3 DEF Closed, Kept
  <2>2. QED
    BY <2>1 DEF Way, Path
<1>5. QED
  BY <1>2, <1>3, <1>4

LEMMA InitInv == Init => IInv
<1> SUFFICES ASSUME Init PROVE IInv
  OBVIOUS
<1>1. TypeOK
  <2>1. <<>> \in Seq(Key \X (0..(CountMod - 1))) /\ <<>> \in Seq({"prefix", "page", "part", "rest", "junk"})
    OBVIOUS
  <2>2. QED
    BY <2>1, CountAssumption DEF Init, TypeOK, Pointer, Null, Unknown
<1>2. Exclusive /\ AtWork
  BY WorkerAssumption DEF Init, Exclusive, AtWork, Updating, Rendering
<1>3. Counted = {} /\ root = Sentinel
  BY DEF Init, Counted
<1>4. Tree /\ Counts
  BY <1>3 DEF Tree, Counts, SearchTree, Linked, Findable
<1>5. QED
  BY <1>1, <1>2, <1>4 DEF IInv

-----------------------------------------------------------------------------
(* The steps *)

\* What a step does that leaves the tree and the counts alone.
LEMMA Untouched ==
    ASSUME IInv, UNCHANGED <<root, data, counted>>,
           Left' = Left, Right' = Right, Parent' = Parent
    PROVE  Tree' /\ Counts'
  BY DEF IInv, Tree, Counts, Counted

\* A step of a worker without the mutex changes nothing in the tree.
LEMMA Outside ==
    ASSUME IInv, NEW w \in Worker, pc[w] \notin Updating,
           UNCHANGED <<tree, data, mutex, counted>>,
           \A v \in Worker \ {w} : pc'[v] = pc[v] /\ key'[v] = key[v] /\ node'[v] = node[v],
           pc'[w] \notin Updating
    PROVE  Exclusive' /\ Tree' /\ Counts'
<1>1. mutex # w
  BY DEF IInv, Exclusive
<1>2. Exclusive'
  BY <1>1 DEF IInv, Exclusive
<1>3. mutex \in Worker => /\ pc'[mutex'] = pc[mutex] /\ key'[mutex'] = key[mutex]
                          /\ node'[mutex'] = node[mutex]
  BY <1>1
<1>4. Left' = Left /\ Right' = Right /\ Parent' = Parent
  BY <1>3 DEF Left, Right, Parent, Writing, tree
<1>5. QED
  BY <1>2, <1>4, Untouched DEF tree

LEMMA RequestInv ==
    ASSUME IInv, NEW w \in Worker, NEW k \in Key, Request(w, k)
    PROVE  IInv'
<1>1. TypeOK'
  <2>1. <<>> \in Seq(Key \X (0..(CountMod - 1))) /\ <<>> \in Seq({"prefix", "page", "part", "rest", "junk"})
    OBVIOUS
  <2>2. /\ html' \in [Worker -> Seq(Key \X (0..(CountMod - 1)))]
        /\ body' \in [Worker -> Seq({"prefix", "page", "part", "rest", "junk"})]
    BY <2>1 DEF Request, IInv, TypeOK
  <2>3. key' \in [Worker -> Key \cup {Null}] /\ asked' \in 0..MaxRequests
    BY CountAssumption DEF Request, IInv, TypeOK
  <2>4. announced' \in [Worker -> Int]
    BY DEF Request, IInv, TypeOK, Unknown
  <2>5. pc' \in [Worker -> {"idle", "lock", "root", "send", "dead"} \cup Updating \cup Rendering]
    BY DEF Request, Goto, IInv, TypeOK
  <2>6. UNCHANGED <<root, left, right, parent, data, mutex, node, top, counted>>
    BY DEF Request, tree
  <2>7. QED
    BY <2>2, <2>3, <2>4, <2>5, <2>6 DEF IInv, TypeOK
<1>2. AtWork'
  BY DEF Request, Goto, IInv, TypeOK, AtWork, Rendering
<1>3. Exclusive' /\ Tree' /\ Counts'
  <2>1. pc[w] \notin Updating /\ pc'[w] \notin Updating
    BY DEF Request, Goto, IInv, TypeOK, Updating
  <2>2. \A v \in Worker \ {w} : pc'[v] = pc[v] /\ key'[v] = key[v] /\ node'[v] = node[v]
    BY DEF Request, Goto, IInv, TypeOK
  <2>3. UNCHANGED <<tree, data, mutex, counted>>
    BY DEF Request
  <2>4. QED
    BY <2>1, <2>2, <2>3, Outside
<1>4. QED
  BY <1>1, <1>2, <1>3 DEF IInv

LEMMA LockInv ==
    ASSUME IInv, NEW w \in Worker, Lock(w)
    PROVE  IInv'
<1>1. TypeOK'
  BY DEF Lock, Goto, IInv, TypeOK, tree, response, Updating
<1>2. AtWork' /\ Exclusive'
  BY WorkerAssumption DEF Lock, Goto, IInv, TypeOK, AtWork, Exclusive, Rendering, Updating
<1>3. Left' = Left /\ Right' = Right /\ Parent' = Parent
  <2>1. mutex = NoWorker /\ mutex' = w /\ pc'[w] = "lookup" /\ UNCHANGED tree
    BY DEF Lock, Goto, IInv, TypeOK
  <2>2. QED
    BY <2>1, WorkerAssumption DEF Left, Right, Parent, Writing, tree
<1>4. QED
  BY <1>1, <1>2, <1>3, Untouched DEF IInv, Lock, tree

LEMMA UnlockInv ==
    ASSUME IInv, NEW w \in Worker, Unlock(w)
    PROVE  IInv'
<1>1. TypeOK'
  BY DEF Unlock, Goto, IInv, TypeOK, tree, response
<1>2. AtWork' /\ Exclusive'
  BY WorkerAssumption DEF Unlock, Goto, IInv, TypeOK, AtWork, Exclusive, Rendering, Updating
<1>3. Left' = Left /\ Right' = Right /\ Parent' = Parent
  <2>1. mutex = w /\ pc[w] = "unlock" /\ mutex' = NoWorker /\ UNCHANGED tree
    BY DEF Unlock, Goto, IInv, TypeOK, Exclusive, Updating
  <2>2. QED
    BY <2>1, WorkerAssumption DEF Left, Right, Parent, Writing, tree
<1>4. QED
  BY <1>1, <1>2, <1>3, Untouched DEF IInv, Unlock, tree

\* Quotient and remainder are determined.
LEMMA Remainder ==
    ASSUME NEW m \in Nat, m > 0, NEW n \in Nat, NEW q \in Nat, NEW r \in Nat, r < m, n = m * q + r
    PROVE  n % m = r
  OBVIOUS

\* Counting one more request, in one byte.
LEMMA OneMore ==
    ASSUME NEW n \in Nat
    PROVE  ((n % CountMod) + 1) % CountMod = (n + 1) % CountMod
<1>1. CountMod \in Nat /\ CountMod > 0
  BY CountAssumption
<1> DEFINE q == n \div CountMod
           r == n % CountMod
<1>2. q \in Nat /\ r \in Nat /\ r < CountMod /\ n = CountMod * q + r
  BY <1>1
<1> HIDE DEF q, r
<1>3. CASE r + 1 < CountMod
  <2>1. n + 1 = CountMod * q + (r + 1) /\ r + 1 = CountMod * 0 + (r + 1)
    BY <1>1, <1>2
  <2>2. (n + 1) % CountMod = r + 1
    BY <1>1, <1>2, <1>3, <2>1, Remainder
  <2>3. (r + 1) % CountMod = r + 1
    BY <1>1, <1>2, <1>3, <2>1, Remainder
  <2>4. QED
    BY <2>2, <2>3 DEF r
<1>4. CASE r + 1 = CountMod
  <2>1. n + 1 = CountMod * (q + 1) + 0 /\ r + 1 = CountMod * 1 + 0
    BY <1>1, <1>2, <1>4
  <2>2. (n + 1) % CountMod = 0
    BY <1>1, <1>2, <2>1, Remainder
  <2>3. (r + 1) % CountMod = 0
    BY <1>1, <1>2, <2>1, Remainder
  <2>4. QED
    BY <2>2, <2>3 DEF r
<1>5. QED
  BY <1>1, <1>2, <1>3, <1>4

LEMMA FoundInv ==
    ASSUME IInv, NEW w \in Worker, Found(w)
    PROVE  IInv'
<1>1. /\ pc[w] = "lookup" /\ pc' = [pc EXCEPT ![w] = "unlock"] /\ mutex = w
      /\ key[w] \in Key /\ key[w] \in Way(key[w])
      /\ UNCHANGED <<tree, mutex, key, node, top, response, asked>>
  BY DEF Found, Goto, IInv, TypeOK, Exclusive, AtWork, Updating
<1>2. key[w] \in Counted
  <2>1. root # Sentinel \/ Path(ByKey, key[w], root, Left, Right) = {}
    <3>1. root = Sentinel => Kept(ByKey, {}, key[w], root, Left, Right)
      BY KeyAssumption DEF Kept
    <3>2. QED
      BY <3>1 DEF Path
  <2>2. Way(key[w]) = Path(ByKey, key[w], root, Left, Right)
    BY <1>1, Settled
  <2>3. Linked(ByKey, Counted, root, Left, Right, Parent) /\ Counted # {}
    BY <1>1, <2>1, <2>2 DEF IInv, Tree, SearchTree, Linked
  <2>4. QED
    BY <1>1, <2>2, <2>3, PathNodes, ByKeyRanks
<1>3. /\ data' = [data EXCEPT ![key[w]] = (data[key[w]] + 1) % CountMod]
      /\ counted' = [counted EXCEPT ![key[w]] = counted[key[w]] + 1]
  BY DEF Found
<1>4. (data[key[w]] + 1) % CountMod = (counted[key[w]] + 1) % CountMod
  <2>1. data[key[w]] = counted[key[w]] % CountMod /\ counted[key[w]] \in Nat
    BY <1>2 DEF IInv, Counts, TypeOK, Counted
  <2>2. QED
    BY <2>1, OneMore
<1>5. TypeOK'
  <2>1. (data[key[w]] + 1) % CountMod \in 0..(CountMod - 1)
    BY <1>1, CountAssumption DEF IInv, TypeOK
  <2>2. data' \in [Key -> 0..(CountMod - 1)] /\ counted' \in [Key -> Nat]
    <3>1. data \in [Key -> 0..(CountMod - 1)] /\ counted \in [Key -> Nat]
      BY DEF IInv, TypeOK
    <3>2. counted[key[w]] + 1 \in Nat
      BY <1>1, <3>1
    <3>3. QED
      BY <1>1, <1>3, <2>1, <3>1, <3>2
  <2>3. UNCHANGED <<root, left, right, parent, mutex, key, node, top, html, announced, body, asked>>
    BY <1>1 DEF tree, response
  <2>4. pc' \in [Worker -> {"idle", "lock", "root", "send", "dead"} \cup Updating \cup Rendering]
    BY <1>1 DEF IInv, TypeOK, Updating
  <2>5. QED
    BY <2>2, <2>3, <2>4 DEF IInv, TypeOK
<1>6. Counted' = Counted
  BY <1>1, <1>2, <1>3 DEF IInv, TypeOK, Counted
<1>7. Counts'
  BY <1>1, <1>3, <1>4, <1>6 DEF IInv, TypeOK, Counted, Counts
<1>8. AtWork' /\ Exclusive'
  BY <1>1, WorkerAssumption DEF IInv, TypeOK, AtWork, Exclusive, Rendering, Updating
<1>9. Left' = Left /\ Right' = Right /\ Parent' = Parent
  BY <1>1, WorkerAssumption DEF Left, Right, Parent, Writing, tree, IInv, TypeOK
<1>10. Tree'
  BY <1>1, <1>6, <1>9 DEF IInv, Tree, tree
<1>11. QED
  BY <1>5, <1>7, <1>8, <1>10 DEF IInv

\* A step of the holder of the mutex that neither writes to the tree nor counts.
LEMMA NoChangeInv ==
    ASSUME IInv, NEW w \in Worker, NoMemory(w) \/ NoRotation(w)
    PROVE  IInv'
<1>1. /\ pc[w] \in {"lookup", "balance", "again"} /\ pc' = [pc EXCEPT ![w] = "unlock"] /\ mutex = w
      /\ UNCHANGED <<tree, data, mutex, key, node, top, response, asked, counted>>
  BY DEF NoMemory, NoRotation, Goto, IInv, Exclusive, Updating
<1>2. TypeOK'
  BY <1>1 DEF IInv, TypeOK, tree, response, Updating
<1>3. AtWork' /\ Exclusive'
  BY <1>1, WorkerAssumption DEF IInv, TypeOK, AtWork, Exclusive, Rendering, Updating
<1>4. Left' = Left /\ Right' = Right /\ Parent' = Parent
  BY <1>1, WorkerAssumption DEF Left, Right, Parent, Writing, tree, IInv, TypeOK
<1>5. QED
  BY <1>1, <1>2, <1>3, <1>4, Untouched DEF IInv, tree

LEMMA InsertRootInv ==
    ASSUME IInv, NEW w \in Worker, InsertRoot(w)
    PROVE  IInv'
<1> DEFINE c == key[w]
<1>1. /\ pc[w] = "lookup" /\ pc' = [pc EXCEPT ![w] = "unlock"] /\ mutex = w /\ c \in Key
      /\ root = Sentinel /\ root' = c
      /\ left' = [left EXCEPT ![c] = Sentinel] /\ right' = [right EXCEPT ![c] = Sentinel]
      /\ parent' = [parent EXCEPT ![c] = Null]
      /\ data' = [data EXCEPT ![c] = 1]
      /\ counted' = [counted EXCEPT ![c] = counted[c] + 1]
      /\ UNCHANGED <<mutex, key, node, top, response, asked>>
  BY DEF InsertRoot, Goto, IInv, TypeOK, Exclusive, AtWork, Updating
<1>2. Counted = {}
  BY <1>1 DEF IInv, Tree, SearchTree, Linked
<1>3. counted[c] = 0 /\ Counted' = {c}
  BY <1>1, <1>2 DEF IInv, TypeOK, Counted
<1>4. TypeOK'
  BY <1>1, <1>3, CountAssumption DEF IInv, TypeOK, response, Updating, Pointer
<1>5. AtWork' /\ Exclusive'
  BY <1>1, WorkerAssumption DEF IInv, TypeOK, AtWork, Exclusive, Rendering, Updating
<1>6. Counts'
  <2>1. 1 % CountMod = 1
    BY CountAssumption, Remainder
  <2>2. QED
    BY <1>1, <1>3, <2>1 DEF IInv, TypeOK, Counts
<1>7. Tree'
  <2>1. Left'[c] = Sentinel /\ Right'[c] = Sentinel /\ Parent'[c] \notin Key
    <3>1. ~Writing(c, {"parent", "left"})' /\ ~Writing(c, {"parent", "left", "right"})'
          /\ ~Writing(c, {"parent"})'
      BY <1>1 DEF Writing, IInv, TypeOK
    <3>2. QED
      BY <1>1, <3>1, KeyAssumption DEF Left, Right, Parent, IInv, TypeOK, Null
  <2>2. SearchTree(ByKey, {c}, c, Left', Right', Parent')
    BY <1>1, <2>1, Planted
  <2>3. QED
    BY <1>1, <1>3, <2>2 DEF Tree
<1>8. QED
  BY <1>4, <1>5, <1>6, <1>7 DEF IInv

LEMMA InsertInv ==
    ASSUME IInv, NEW w \in Worker, Insert(w)
    PROVE  IInv'
<1> DEFINE c == key[w]
<1>1. /\ pc[w] = "lookup" /\ pc' = [pc EXCEPT ![w] = "parent"] /\ mutex = w /\ c \in Key
      /\ c \notin Way(c)
      /\ data' = [data EXCEPT ![c] = 1]
      /\ counted' = [counted EXCEPT ![c] = counted[c] + 1]
      /\ UNCHANGED <<root, parent, mutex, key, top, response, asked>>
  BY DEF Insert, Goto, IInv, TypeOK, Exclusive, AtWork, Updating
<1>2. PICK t \in Way(c) :
          /\ Toward(c, t) \notin Key
          /\ node' = [node EXCEPT ![w] = t]
          /\ left' = IF c < t THEN [left EXCEPT ![t] = c] ELSE left
          /\ right' = IF c < t THEN right ELSE [right EXCEPT ![t] = c]
  BY DEF Insert
<1>3. /\ Left = left /\ Right = right /\ Parent = parent
      /\ Way(c) = Path(ByKey, c, root, Left, Right)
      /\ Toward(c, t) = Side(ByKey, c, t, Left, Right)
      /\ t \in Key /\ t # c
  BY <1>1, <1>2, Settled DEF Way
<1>4. c \notin Counted /\ Counted # {}
  <2>1. SearchTree(ByKey, Counted, root, Left, Right, Parent)
    BY DEF IInv, Tree
  <2>2. c \notin Counted
    BY <1>1, <1>3, <2>1 DEF SearchTree, Findable
  <2>3. root = Sentinel => Kept(ByKey, {}, c, root, Left, Right)
    BY KeyAssumption DEF Kept
  <2>4. root # Sentinel
    BY <1>2, <1>3, <2>3 DEF Path
  <2>5. Counted # {}
    BY <2>1, <2>4 DEF SearchTree, Linked
  <2>6. QED
    BY <2>2, <2>5
<1>5. counted[c] = 0 /\ Counted' = Counted \cup {c}
  BY <1>1, <1>4 DEF IInv, TypeOK, Counted
<1>6. TypeOK'
  <2>1. left' \in [Key -> Pointer] /\ right' \in [Key -> Pointer] /\ node' \in [Worker -> Pointer]
    BY <1>1, <1>2, <1>3 DEF IInv, TypeOK, Pointer
  <2>2. data' \in [Key -> 0..(CountMod - 1)] /\ counted' \in [Key -> Nat]
    BY <1>1, CountAssumption DEF IInv, TypeOK
  <2>3. QED
    BY <1>1, <2>1, <2>2 DEF IInv, TypeOK, response, Updating
<1>7. AtWork' /\ Exclusive'
  BY <1>1, <1>2, WorkerAssumption DEF IInv, TypeOK, AtWork, Exclusive, Rendering, Updating
<1>8. Counts'
  <2>1. 1 % CountMod = 1
    BY CountAssumption, Remainder
  <2>2. QED
    BY <1>1, <1>4, <1>5, <2>1 DEF IInv, TypeOK, Counts
<1>9. Tree'
  <2>1. \A k \in Key : /\ Writing(k, {"parent", "left"})' <=> k = c
                       /\ Writing(k, {"parent", "left", "right"})' <=> k = c
                       /\ Writing(k, {"parent"})' <=> k = c
    BY <1>1 DEF Writing, IInv, TypeOK
  <2>2. left \in [Key -> Pointer] /\ right \in [Key -> Pointer] /\ parent \in [Key -> Pointer]
    BY DEF IInv, TypeOK
  <2>3. \A k \in Key : ByKey[k] = k
    BY DEF ByKey
  <2>4. Left' = [k \in Key |-> IF k = c THEN Sentinel
                               ELSE IF k = t /\ ByKey[c] < ByKey[t] THEN c ELSE Left[k]]
    BY <1>1, <1>2, <1>3, <2>1, <2>2, <2>3 DEF Left
  <2>5. Right' = [k \in Key |-> IF k = c THEN Sentinel
                                ELSE IF k = t /\ ~(ByKey[c] < ByKey[t]) THEN c ELSE Right[k]]
    BY <1>1, <1>2, <1>3, <2>1, <2>2, <2>3 DEF Right
  <2>6. node'[mutex'] = t
    BY <1>1, <1>2 DEF IInv, TypeOK
  <2>7. Parent' = [k \in Key |-> IF k = c THEN t ELSE Parent[k]]
    BY <1>1, <1>3, <2>1, <2>6 DEF Parent
  <2>8. SearchTree(ByKey, Counted, root, Left, Right, Parent) /\ Pointers(Left, Right, Parent)
    BY <1>3, <2>2 DEF IInv, Tree, Pointers
  <2>9. t \in Path(ByKey, c, root, Left, Right) /\ Side(ByKey, c, t, Left, Right) \notin Key
    BY <1>2, <1>3
  <2>10. PICK l2, u2, p2 : l2 = Left' /\ u2 = Right' /\ p2 = Parent'
    OBVIOUS
  <2>11. SearchTree(ByKey, Counted \cup {c}, root, l2, u2, p2)
    <3>1. l2 = [k \in Key |-> IF k = c THEN Sentinel
                              ELSE IF k = t /\ ByKey[c] < ByKey[t] THEN c ELSE Left[k]]
      BY <2>4, <2>10
    <3>2. u2 = [k \in Key |-> IF k = c THEN Sentinel
                              ELSE IF k = t /\ ~(ByKey[c] < ByKey[t]) THEN c ELSE Right[k]]
      BY <2>5, <2>10
    <3>3. p2 = [k \in Key |-> IF k = c THEN t ELSE Parent[k]]
      BY <2>7, <2>10
    <3>4. c \in Key \ Counted
      BY <1>1, <1>4
    <3> HIDE DEF c
    <3>5. QED
      BY <1>4, <2>8, <2>9, <3>1, <3>2, <3>3, <3>4, ByKeyRanks, Grafted
  <2>12. QED
    BY <1>1, <1>5, <2>10, <2>11 DEF Tree
<1>10. QED
  BY <1>6, <1>7, <1>8, <1>9 DEF IInv

\* The three writes to the new node, of which the invariant already knows.
LEMMA WriteInv ==
    ASSUME IInv, NEW w \in Worker, InsertParent(w) \/ InsertLeft(w) \/ InsertRight(w)
    PROVE  IInv'
<1> DEFINE c == key[w]
<1>1. /\ pc[w] \in {"parent", "left", "right"} /\ mutex = w /\ c \in Key
      /\ pc' = [pc EXCEPT ![w] = IF pc[w] = "parent" THEN "left"
                                 ELSE IF pc[w] = "left" THEN "right" ELSE "balance"]
      /\ parent' = IF pc[w] = "parent" THEN [parent EXCEPT ![c] = node[w]] ELSE parent
      /\ left' = IF pc[w] = "left" THEN [left EXCEPT ![c] = Sentinel] ELSE left
      /\ right' = IF pc[w] = "right" THEN [right EXCEPT ![c] = Sentinel] ELSE right
      /\ UNCHANGED <<root, data, mutex, key, node, top, response, asked, counted>>
  <2>1. pc[w] \in {"parent", "left", "right"}
    BY DEF InsertParent, InsertLeft, InsertRight, Goto
  <2>2. mutex = w /\ c \in Key
    BY <2>1 DEF IInv, Exclusive, AtWork, Updating
  <2>3. CASE InsertParent(w)
    BY <2>2, <2>3 DEF InsertParent, Goto
  <2>4. CASE InsertLeft(w)
    BY <2>2, <2>4 DEF InsertLeft, Goto
  <2>5. CASE InsertRight(w)
    BY <2>2, <2>5 DEF InsertRight, Goto
  <2>6. QED
    BY <2>3, <2>4, <2>5
<1>2. TypeOK'
  BY <1>1 DEF IInv, TypeOK, response, Updating, Pointer
<1>3. AtWork' /\ Exclusive'
  BY <1>1, WorkerAssumption DEF IInv, TypeOK, AtWork, Exclusive, Rendering, Updating
<1>4. left \in [Key -> Pointer] /\ right \in [Key -> Pointer] /\ parent \in [Key -> Pointer]
  BY DEF IInv, TypeOK
<1>5. /\ pc'[w] = IF pc[w] = "parent" THEN "left"
                  ELSE IF pc[w] = "left" THEN "right" ELSE "balance"
  BY <1>1 DEF IInv, TypeOK
<1>6. Left' = Left
  <2>1. \A k \in Key : /\ Writing(k, {"parent", "left"}) <=> k = c /\ pc[w] # "right"
                       /\ Writing(k, {"parent", "left"})' <=> k = c /\ pc[w] = "parent"
    BY <1>1, <1>5 DEF Writing
  <2>2. QED
    BY <1>1, <1>4, <2>1 DEF Left
<1>7. Right' = Right
  <2>1. \A k \in Key : /\ Writing(k, {"parent", "left", "right"}) <=> k = c
                       /\ Writing(k, {"parent", "left", "right"})' <=> k = c /\ pc[w] # "right"
    BY <1>1, <1>5 DEF Writing
  <2>2. QED
    BY <1>1, <1>4, <2>1 DEF Right
<1>8. Parent' = Parent
  <2>1. \A k \in Key : /\ Writing(k, {"parent"}) <=> k = c /\ pc[w] = "parent"
                       /\ ~Writing(k, {"parent"})'
    BY <1>1, <1>5 DEF Writing
  <2>2. QED
    BY <1>1, <1>4, <2>1 DEF Parent
<1>9. QED
  BY <1>1, <1>2, <1>3, <1>6, <1>7, <1>8, Untouched DEF IInv

LEMMA RotationInv ==
    ASSUME IInv, NEW w \in Worker, Rotation(w)
    PROVE  IInv'
<1>1. /\ pc[w] \in {"balance", "again"} /\ mutex = w
      /\ pc' = [pc EXCEPT ![w] = IF pc[w] = "balance" THEN "again" ELSE "unlock"]
      /\ UNCHANGED <<data, mutex, key, node, top, response, asked, counted>>
  BY DEF Rotation, Goto, IInv, Exclusive, Updating
<1>2. PICK x \in Key, y \in Key : counted[x] > 0 /\ y \in {left[x], right[x]} /\ Replace(x, y)
  BY DEF Rotation
<1>3. Left = left /\ Right = right /\ Parent = parent
  BY <1>1, Settled
<1>4. Left' = left' /\ Right' = right' /\ Parent' = parent'
  <2>1. \A k \in Key : /\ ~Writing(k, {"parent", "left"})' /\ ~Writing(k, {"parent"})'
                       /\ ~Writing(k, {"parent", "left", "right"})'
    BY <1>1 DEF Writing, IInv, TypeOK
  <2>2. /\ left' = [k \in Key |-> left'[k]] /\ right' = [k \in Key |-> right'[k]]
        /\ parent' = [k \in Key |-> parent'[k]]
    BY <1>2 DEF Replace
  <2>3. QED
    BY <2>1, <2>2 DEF Left, Right, Parent
<1>5. x \in Counted /\ y \in Counted
  <2>1. x \in Counted
    BY <1>2 DEF Counted
  <2>2. left[x] \in Counted \cup {Sentinel} /\ right[x] \in Counted \cup {Sentinel}
    BY <1>3, <2>1 DEF IInv, Tree, SearchTree, Linked
  <2>3. QED
    BY <1>2, <2>1, <2>2, KeyAssumption
<1>6. PICK r2, l2, u2, p2 : r2 = root' /\ l2 = left' /\ u2 = right' /\ p2 = parent'
  OBVIOUS
<1>7. MoveUp(x, y, root, left, right, parent, r2, l2, u2, p2)
  BY <1>2, <1>6 DEF Replace, MoveUp
<1>8. SearchTree(ByKey, Counted, r2, l2, u2, p2)
  <2>1. SearchTree(ByKey, Counted, root, left, right, parent)
    BY <1>3 DEF IInv, Tree
  <2>2. QED
    BY <1>2, <1>5, <1>7, <2>1, ByKeyRanks, Rotated
<1>9. Tree' /\ Counts'
  <2>1. Counted' = Counted
    BY <1>1 DEF Counted
  <2>2. QED
    BY <1>1, <1>4, <1>6, <1>8, <2>1 DEF IInv, Tree, Counts
<1>10. TypeOK'
  <2>1. root' \in Key \cup {Sentinel}
    BY <1>2 DEF Replace, IInv, TypeOK
  <2>2. \A k \in Key : left[k] \in Pointer /\ right[k] \in Pointer /\ parent[k] \in Pointer
    BY DEF IInv, TypeOK
  <2>3. left' \in [Key -> Pointer] /\ right' \in [Key -> Pointer] /\ parent' \in [Key -> Pointer]
    BY <1>2, <2>2 DEF Replace, Pointer
  <2>4. QED
    BY <1>1, <2>1, <2>3 DEF IInv, TypeOK, response, Updating
<1>11. AtWork' /\ Exclusive'
  BY <1>1, WorkerAssumption DEF IInv, TypeOK, AtWork, Exclusive, Rendering, Updating
<1>12. QED
  BY <1>9, <1>10, <1>11 DEF IInv

\* A step that renders, or follows the page on its way.
LEMMA RenderInv ==
    ASSUME IInv, NEW w \in Worker, Render(w)
    PROVE  IInv'
<1>1. /\ pc[w] \in {"root"} \cup Rendering
      /\ pc' = [pc EXCEPT ![w] = pc'[w]] /\ pc'[w] \in {"dead", "send"} \cup Rendering
      /\ node' = [node EXCEPT ![w] = node'[w]] /\ node'[w] \in Pointer
      /\ pc'[w] \in Rendering => node'[w] \in Key
      /\ top' \in [Worker -> Pointer]
      /\ UNCHANGED <<tree, data, mutex, key, announced, body, asked, counted>>
  <2>1. node[w] \in Pointer /\ (pc[w] \in Rendering => node[w] \in Key)
    BY DEF IInv, TypeOK, AtWork
  <2>2. root \in Pointer /\ (node[w] \in Key => /\ left[node[w]] \in Pointer
                                             /\ right[node[w]] \in Pointer
                                             /\ parent[node[w]] \in Pointer)
      /\ Null \in Pointer
    BY DEF IInv, TypeOK, Pointer
  <2> USE DEF IInv, TypeOK, Rendering, Goto, Follow, Stay, response
  <2>3. CASE ReadRoot(w)
    BY <2>2, <2>3 DEF ReadRoot
  <2>4. CASE GoLeft(w)
    BY <2>1, <2>2, <2>4 DEF GoLeft
  <2>5. CASE Least(w)
    BY <2>1, <2>5 DEF Least
  <2>6. CASE Line(w)
    BY <2>1, <2>6 DEF Line
  <2>7. CASE NextRight(w)
    BY <2>1, <2>2, <2>7 DEF NextRight
  <2>8. CASE NextUp(w)
    BY <2>1, <2>2, <2>8 DEF NextUp
  <2>9. CASE UpEnd(w)
    BY <2>1, <2>2, <2>9 DEF UpEnd
  <2>10. CASE Up(w)
    BY <2>1, <2>2, <2>10 DEF Up
  <2>11. QED
    BY <2>3, <2>4, <2>5, <2>6, <2>7, <2>8, <2>9, <2>10 DEF Render
<1>2. html' \in [Worker -> Seq(Key \X (0..(CountMod - 1)))]
  <2>1. CASE Line(w)
    <3>1. <<node[w], data[node[w]]>> \in Key \X (0..(CountMod - 1))
      BY <2>1 DEF Line, Goto, IInv, TypeOK, AtWork, Rendering
    <3>2. html[w] \in Seq(Key \X (0..(CountMod - 1)))
      BY DEF IInv, TypeOK
    <3>3. Append(html[w], <<node[w], data[node[w]]>>) \in Seq(Key \X (0..(CountMod - 1)))
      BY <3>1, <3>2
    <3>4. QED
      BY <2>1, <3>3 DEF Line, IInv, TypeOK
  <2>2. CASE ~Line(w)
    BY <2>2 DEF Render, ReadRoot, GoLeft, Least, NextRight, NextUp, UpEnd, Up, Follow, Stay,
                IInv, TypeOK, response
  <2>3. QED
    BY <2>1, <2>2
<1>3. TypeOK'
  BY <1>1, <1>2 DEF IInv, TypeOK, tree
<1>4. AtWork'
  BY <1>1 DEF IInv, TypeOK, AtWork, Rendering
<1>5. Exclusive' /\ Tree' /\ Counts'
  BY <1>1, Outside DEF IInv, TypeOK, Updating, Rendering
<1>6. QED
  BY <1>3, <1>4, <1>5 DEF IInv

\* Header and page go out, and nginx goes on with what a slow client left.
LEMMA PageInv ==
    ASSUME IInv, NEW w \in Worker, Send(w) \/ Writer(w) \/ Respawn(w)
    PROVE  IInv'
<1> DEFINE Part == {"prefix", "page", "part", "rest", "junk"}
<1>1. /\ pc[w] \in {"send", "idle", "dead"} /\ pc' = [pc EXCEPT ![w] = "idle"]
      /\ UNCHANGED <<tree, data, mutex, key, node, top, html, asked, counted>>
  BY DEF Send, Writer, Respawn, Stay, Goto, IInv, TypeOK, response
<1>2. body' \in [Worker -> Seq(Part)] /\ announced' \in [Worker -> Int]
  <2>1. <<"prefix">> \in Seq(Part) /\ body \in [Worker -> Seq(Part)] /\ announced \in [Worker -> Int]
    BY DEF IInv, TypeOK
  <2>2. CASE Send(w)
    <3>1. PICK page \in {"page", "part"} : body' = [body EXCEPT ![w] = <<"prefix">> \o <<page>>]
      BY <2>2 DEF Send, ngx_http_mxl_body_filter
    <3>2. <<"prefix">> \o <<page>> \in Seq(Part)
      <4>1. <<page>> \in Seq(Part)
        BY <3>1
      <4>2. QED
        BY <2>1, <4>1
    <3>3. ngx_http_mxl_header_filter(NGX_HTTP_OK, Unknown) \in Int
      BY DEF ngx_http_mxl_header_filter, Unknown, PrefixLen
    <3>4. announced' \in [Worker -> Int]
      BY <2>1, <2>2, <3>3 DEF Send
    <3>5. QED
      BY <2>1, <3>1, <3>2, <3>4
  <2>3. CASE Writer(w)
    <3>1. PICK rest \in {"rest", "junk"} :
              body' = [body EXCEPT ![w] = (body[w] \o <<rest>>) \o (<<"prefix">> \o <<>>)]
      BY <2>3 DEF Writer, ngx_http_mxl_body_filter
    <3>2. <<rest>> \in Seq(Part) /\ <<"prefix">> \o <<>> \in Seq(Part)
      <4>1. <<rest>> \in Seq(Part) /\ <<>> \in Seq(Part)
        BY <3>1
      <4>2. QED
        BY <2>1, <4>1
    <3>3. (body[w] \o <<rest>>) \o (<<"prefix">> \o <<>>) \in Seq(Part)
      BY <2>1, <3>2
    <3>4. QED
      BY <2>1, <2>3, <3>1, <3>3 DEF Writer
  <2>4. CASE Respawn(w)
    BY <2>1, <2>4 DEF Respawn, Stay, response
  <2>5. QED
    BY <2>2, <2>3, <2>4
<1>3. TypeOK'
  BY <1>1, <1>2 DEF IInv, TypeOK, tree
<1>4. AtWork'
  BY <1>1 DEF IInv, TypeOK, AtWork, Rendering
<1>5. Exclusive' /\ Tree' /\ Counts'
  BY <1>1, Outside DEF IInv, TypeOK, Updating
<1>6. QED
  BY <1>3, <1>4, <1>5 DEF IInv

LEMMA StepInv == IInv /\ [Next]_vars => IInv'
<1> SUFFICES ASSUME IInv, [Next]_vars PROVE IInv'
  OBVIOUS
<1>1. CASE UNCHANGED vars
  BY <1>1 DEF vars, tree, response, IInv, TypeOK, Exclusive, AtWork, Tree, Counts,
              Counted, Left, Right, Parent, Writing
<1>2. ASSUME NEW w \in Worker, Handler(w) PROVE IInv'
  BY <1>2, LockInv, FoundInv, NoChangeInv, InsertRootInv, InsertInv, WriteInv, RotationInv,
     UnlockInv, RenderInv, PageInv DEF Handler, Update
<1>3. ASSUME NEW w \in Worker, Writer(w) \/ Respawn(w) \/ \E k \in Key : Request(w, k) PROVE IInv'
  BY <1>3, PageInv, RequestInv
<1>4. QED
  BY <1>1, <1>2, <1>3 DEF Next

-----------------------------------------------------------------------------
(* The walk through a tree *)

Branch(S, n, l, u) == n \in S /\ \A t \in S : {l[t], u[t]} \cap Key \subseteq S

\* The nodes from n downwards.
Under(n, l, u) == {k \in Key : \A S \in SUBSET Key : Branch(S, n, l, u) => k \in S}

\* The set below n is such a set itself, and the least one.
LEMMA UnderBranch ==
    ASSUME NEW n, NEW l, NEW u
    PROVE  /\ Under(n, l, u) \subseteq Key
           /\ n \in Key => Branch(Under(n, l, u), n, l, u)
           /\ \A S \in SUBSET Key : Branch(S, n, l, u) => Under(n, l, u) \subseteq S
  BY Zenon DEF Under, Branch

\* The search tree, by the order of its keys.
LEMMA Shape ==
    ASSUME NEW N, NEW r, NEW l, NEW u, NEW p, SearchTree(ByKey, N, r, l, u, p), N # {}
    PROVE  /\ r \in N /\ p[r] \notin N /\ N \subseteq Key /\ N \subseteq Nat /\ Sentinel \notin Key
           /\ \A k \in N : l[k] \in N \cup {Sentinel} /\ u[k] \in N \cup {Sentinel}
           /\ \A k \in N : l[k] \in N => l[k] < k /\ p[l[k]] = k
           /\ \A k \in N : u[k] \in N => k < u[k] /\ p[u[k]] = k
           /\ \A k \in N : k # r => p[k] \in N /\ k \in {l[p[k]], u[p[k]]}
<1>1. Linked(ByKey, N, r, l, u, p)
  BY DEF SearchTree
<1>2. N \subseteq Key /\ N \subseteq Nat /\ Sentinel \notin Key /\ \A k \in N : ByKey[k] = k
  BY <1>1, KeyAssumption DEF Linked, ByKey
<1>3. /\ r \in N /\ p[r] \notin N
      /\ \A k \in N : l[k] \in N \cup {Sentinel} /\ u[k] \in N \cup {Sentinel}
      /\ \A k \in N : k # r => p[k] \in N /\ k \in {l[p[k]], u[p[k]]}
  BY <1>1, <1>2 DEF Linked
<1>4. \A k \in N : /\ l[k] \in N => ByKey[l[k]] < ByKey[k] /\ p[l[k]] = k
                   /\ u[k] \in N => ByKey[k] < ByKey[u[k]] /\ p[u[k]] = k
  BY <1>1 DEF Linked
<1>5. \A k \in N : l[k] \in N => l[k] < k /\ p[l[k]] = k
  BY <1>2, <1>4
<1>6. \A k \in N : u[k] \in N => k < u[k] /\ p[u[k]] = k
  BY <1>2, <1>4
<1>7. QED
  BY <1>2, <1>3, <1>5, <1>6

\* Below n are n and what is below its children, and below the root is everything.
LEMMA UnderSplit ==
    ASSUME NEW N, NEW r, NEW l, NEW u, NEW p, SearchTree(ByKey, N, r, l, u, p), N # {},
           NEW n \in N
    PROVE  /\ n \in Under(n, l, u) /\ Under(n, l, u) \subseteq N
           /\ \A x \in Under(n, l, u) :
                 /\ l[x] \in N => l[x] \in Under(n, l, u)
                 /\ u[x] \in N => u[x] \in Under(n, l, u)
                 /\ x # n => x # r /\ p[x] \in Under(n, l, u)
           /\ \A x \in Under(n, l, u) :
                 \/ x = n
                 \/ l[n] \in N /\ x \in Under(l[n], l, u)
                 \/ u[n] \in N /\ x \in Under(u[n], l, u)
<1> DEFINE U == Under(n, l, u)
<1>1. /\ r \in N /\ p[r] \notin N /\ N \subseteq Key /\ Sentinel \notin Key
      /\ \A k \in N : l[k] \in N \cup {Sentinel} /\ u[k] \in N \cup {Sentinel}
      /\ \A k \in N : l[k] \in N => p[l[k]] = k
      /\ \A k \in N : u[k] \in N => p[u[k]] = k
  BY Shape
<1>2. n \in U /\ \A x \in U : {l[x], u[x]} \cap Key \subseteq U
  BY <1>1, UnderBranch DEF Branch
<1>3. U \subseteq N
  <2>1. Branch(N, n, l, u)
    BY <1>1 DEF Branch
  <2>2. QED
    BY <1>1, <2>1, UnderBranch
<1>4. ASSUME NEW x \in U, x # n, x = r \/ p[x] \notin U PROVE FALSE
  <2>1. \A t \in U : l[t] # x /\ u[t] # x
    BY <1>1, <1>3, <1>4
  <2>2. Branch(U \ {x}, n, l, u)
    BY <1>2, <1>4, <2>1 DEF Branch
  <2>3. U \subseteq U \ {x}
    BY <1>1, <1>3, <2>2, UnderBranch
  <2>4. QED
    BY <1>4, <2>3
<1>5. \A x \in U : \/ x = n
                   \/ l[n] \in N /\ x \in Under(l[n], l, u)
                   \/ u[n] \in N /\ x \in Under(u[n], l, u)
  <2> DEFINE L == IF l[n] \in N THEN Under(l[n], l, u) ELSE {}
             R == IF u[n] \in N THEN Under(u[n], l, u) ELSE {}
  <2>1. /\ L \subseteq Key /\ \A x \in L : {l[x], u[x]} \cap Key \subseteq L
        /\ l[n] \in Key => l[n] \in L
    BY <1>1, UnderBranch DEF Branch
  <2>2. /\ R \subseteq Key /\ \A x \in R : {l[x], u[x]} \cap Key \subseteq R
        /\ u[n] \in Key => u[n] \in R
    BY <1>1, UnderBranch DEF Branch
  <2> HIDE DEF L, R
  <2>3. Branch({n} \cup L \cup R, n, l, u)
    BY <2>1, <2>2 DEF Branch
  <2>4. U \subseteq {n} \cup L \cup R
    BY <1>1, <2>1, <2>2, <2>3, UnderBranch
  <2>5. QED
    BY <2>4 DEF L, R
<1>6. QED
  BY <1>1, <1>2, <1>3, <1>4, <1>5

\* What is below the left child is less than its parent, and what is below the
\* right child greater: the search for it passes by the child.
LEMMA UnderOrder ==
    ASSUME NEW N, NEW r, NEW l, NEW u, NEW p, SearchTree(ByKey, N, r, l, u, p), N # {},
           NEW t \in N
    PROVE  /\ l[t] \in N => \A x \in Under(l[t], l, u) : x < t
           /\ u[t] \in N => \A x \in Under(u[t], l, u) : t < x
<1>1. /\ r \in N /\ p[r] \notin N /\ N \subseteq Key /\ N \subseteq Nat /\ Sentinel \notin Key
      /\ \A k \in N : l[k] \in N \cup {Sentinel} /\ u[k] \in N \cup {Sentinel}
      /\ \A k \in N : l[k] \in N => l[k] < k /\ p[l[k]] = k
      /\ \A k \in N : u[k] \in N => k < u[k] /\ p[u[k]] = k
  BY Shape
<1>2. \A j, k \in N : Side(ByKey, j, k, l, u) = IF j < k THEN l[k] ELSE u[k]
  BY <1>1 DEF Side, ByKey
<1>3. ASSUME NEW c \in N, c \in {l[t], u[t]}, NEW x \in Under(c, l, u)
      PROVE  x # t /\ Side(ByKey, x, t, l, u) = c
  <2> DEFINE U == Under(c, l, u)
             P == Path(ByKey, x, r, l, u)
             To(s) == Side(ByKey, x, s, l, u)
  <2>1. /\ U \subseteq N /\ x \in N /\ p[c] = t /\ c # r
        /\ \A y \in U : y # c => y # r /\ p[y] \in U
    BY <1>1, <1>3, UnderSplit
  <2>2. x \in P
    BY <2>1 DEF SearchTree, Findable
  <2>3. P \subseteq N /\ r \in P /\ \A s \in P \ {x} : To(s) \in Key => To(s) \in P
    BY <2>1, PathNodes, PathKept, ByKeyRanks, <1>1 DEF SearchTree, Kept
  <2>4. \A s \in N : To(s) \in N => p[To(s)] = s
    BY <1>1, <1>2, <2>1
  <2> HIDE DEF To, P, U
  <2>5. ASSUME x = t \/ To(t) # c PROVE FALSE
    <3>1. r \in P \ U
      BY <2>1, <2>3
    <3>2. ASSUME NEW s \in (P \ U) \ {x}, To(s) \in Key PROVE To(s) \in P \ U
      <4>1. To(s) \in P /\ p[To(s)] = s
        BY <2>3, <2>4, <3>2
      <4>2. QED
        BY <2>1, <2>5, <3>2, <4>1
    <3>3. Kept(ByKey, P \ U, x, r, l, u)
      BY <3>1, <3>2 DEF Kept, To
    <3>4. P \subseteq P \ U
      BY <1>1, <2>3, <3>3, PathKept DEF P
    <3>5. QED
      BY <1>3, <2>2, <3>4 DEF U
  <2>6. QED
    BY <2>5 DEF To
<1>4. l[t] \in N \/ u[t] \in N => u[t] # l[t]
  <2> SUFFICES ASSUME l[t] \in N, u[t] \in N, u[t] = l[t] PROVE FALSE
    OBVIOUS
  <2>1. l[t] < t /\ t < u[t]
    BY <1>1
  <2>2. l[t] \in Nat /\ u[t] \in Nat /\ t \in Nat
    BY <1>1
  <2>3. QED
    BY <2>1, <2>2
<1>5. ASSUME l[t] \in N, NEW x \in Under(l[t], l, u) PROVE x < t
  <2>1. x \in N
    BY <1>5, UnderSplit
  <2>2. x # t /\ (IF x < t THEN l[t] ELSE u[t]) = l[t]
    BY <1>2, <1>3, <1>5, <2>1
  <2>3. u[t] # l[t]
    BY <1>5, <1>4
  <2>4. QED
    BY <2>2, <2>3
<1>6. ASSUME u[t] \in N, NEW x \in Under(u[t], l, u) PROVE t < x
  <2>1. x \in N
    BY <1>6, UnderSplit
  <2>2. x # t /\ (IF x < t THEN l[t] ELSE u[t]) = u[t]
    BY <1>2, <1>3, <1>6, <2>1
  <2>3. u[t] # l[t]
    BY <1>6, <1>4
  <2>4. x \in Nat /\ t \in Nat
    BY <1>1, <2>1
  <2>5. QED
    BY <2>2, <2>3, <2>4
<1>7. QED
  BY <1>5, <1>6

\* Below the root is the whole tree.
LEMMA UnderRoot ==
    ASSUME NEW N, NEW r, NEW l, NEW u, NEW p, SearchTree(ByKey, N, r, l, u, p), N # {}
    PROVE  Under(r, l, u) = N
<1> DEFINE U == Under(r, l, u)
<1>1. r \in N /\ U \subseteq N /\ r \in U /\ U \subseteq Key
  BY Shape, UnderSplit, UnderBranch
<1>2. \A x \in U : {l[x], u[x]} \cap Key \subseteq U
  BY <1>1, UnderBranch, Shape DEF Branch
<1>3. ASSUME NEW k \in N PROVE k \in U
  <2>1. Kept(ByKey, U, k, r, l, u)
    BY <1>1, <1>2 DEF Kept, Side
  <2>2. k \in Path(ByKey, k, r, l, u)
    BY DEF SearchTree, Findable
  <2>3. QED
    BY <1>1, <2>1, <2>2, PathKept
<1>4. QED
  BY <1>1, <1>3

\* What lies between two nodes below n is below n as well.
LEMMA UnderConvex ==
    ASSUME NEW N, NEW r, NEW l, NEW u, NEW p, SearchTree(ByKey, N, r, l, u, p), N # {},
           NEW n \in N, NEW a \in Under(n, l, u), NEW b \in Under(n, l, u),
           NEW k \in N, a < k, k < b
    PROVE  k \in Under(n, l, u)
<1> DEFINE U == Under(n, l, u)
           T == {t \in N : n \in Under(t, l, u) \/ t \in U}
           To(s) == Side(ByKey, k, s, l, u)
<1>1. /\ r \in N /\ N \subseteq Key /\ N \subseteq Nat /\ Sentinel \notin Key
      /\ \A j \in N : l[j] \in N \cup {Sentinel} /\ u[j] \in N \cup {Sentinel}
  BY Shape
<1>2. U \subseteq N /\ a \in N /\ b \in N /\ \A s \in N : To(s) = IF k < s THEN l[s] ELSE u[s]
  BY <1>1, UnderSplit DEF Side, ByKey
\* Below a node on the other side of n: not where k is.
<1>3. ASSUME NEW t \in N, n \in Under(t, l, u), n # t
      PROVE  k # t /\ To(t) \in N /\ n \in Under(To(t), l, u)
  <2>1. \/ l[t] \in N /\ n \in Under(l[t], l, u)
        \/ u[t] \in N /\ n \in Under(u[t], l, u)
    BY <1>3, UnderSplit
  <2>2. ASSUME NEW c \in N, n \in Under(c, l, u) PROVE U \subseteq Under(c, l, u)
    <3>1. /\ Under(c, l, u) \in SUBSET Key
          /\ \A x \in Under(c, l, u) : {l[x], u[x]} \cap Key \subseteq Under(c, l, u)
      BY <1>1, UnderBranch DEF Branch
    <3>2. Branch(Under(c, l, u), n, l, u)
      BY <2>2, <3>1 DEF Branch
    <3>3. QED
      BY <3>1, <3>2, UnderBranch
  <2>3. CASE l[t] \in N /\ n \in Under(l[t], l, u)
    <3>1. b < t
      BY <2>2, <2>3, UnderOrder
    <3>2. k < t /\ k # t
      BY <1>1, <1>2, <3>1
    <3>3. QED
      BY <1>2, <2>3, <3>2
  <2>4. CASE u[t] \in N /\ n \in Under(u[t], l, u)
    <3>1. t < a
      BY <2>2, <2>4, UnderOrder
    <3>2. ~(k < t) /\ k # t
      BY <1>1, <1>2, <3>1
    <3>3. QED
      BY <1>2, <2>4, <3>2
  <2>5. QED
    BY <2>1, <2>3, <2>4
<1>4. Kept(ByKey, T, k, r, l, u)
  <2>1. r \in T
    BY <1>1, UnderRoot
  <2>2. ASSUME NEW s \in T \ {k}, To(s) \in Key PROVE To(s) \in T
    <3>1. To(s) \in N
      BY <1>1, <1>2, <2>2
    <3>2. CASE s \in U
      <4>1. To(s) \in U
        BY <1>2, <3>1, <3>2, UnderSplit
      <4>2. QED
        BY <3>1, <4>1
    <3>3. CASE s \notin U
      <4>1. n \in U
        BY UnderSplit
      <4>2. QED
        BY <1>3, <3>1, <3>3, <4>1
    <3>4. QED
      BY <3>2, <3>3
  <2>3. QED
    BY <2>1, <2>2 DEF Kept
<1>5. k \in T
  <2>1. k \in Path(ByKey, k, r, l, u)
    BY DEF SearchTree, Findable
  <2>2. T \in SUBSET Key
    BY <1>1
  <2>3. QED
    BY <1>4, <2>1, <2>2, PathKept
<1>6. QED
  <2>1. n \in U
    BY UnderSplit
  <2>2. QED
    BY <1>3, <1>5, <2>1

\* What the walk has behind it at the node n.
Behind(N, at, n, l, u) ==
    {k \in N : CASE at = "min"  -> k < n /\ k \notin Under(n, l, u)
                 [] at = "line" -> k < n
                 [] at = "next" -> k <= n
                 [] at = "up"   -> k < n \/ k \in Under(n, l, u)}

\* Worker w has rendered exactly the nodes D, in order, with their counts.
Rendered(w, D) ==
    /\ \A i \in 1..Len(html[w]) : html[w][i][1] \in D /\ html[w][i][2] = data[html[w][i][1]]
    /\ \A i, j \in 1..Len(html[w]) : i < j => html[w][i][1] < html[w][j][1]
    /\ \A k \in D : \E i \in 1..Len(html[w]) : html[w][i][1] = k

\* What each step of the walk leaves behind.
LEMMA Walked ==
    ASSUME NEW N, NEW r, NEW l, NEW u, NEW p, SearchTree(ByKey, N, r, l, u, p), N # {},
           NEW n \in N
    PROVE  /\ Behind(N, "min", r, l, u) = {}
           /\ l[n] \in N => Behind(N, "min", l[n], l, u) = Behind(N, "min", n, l, u)
           /\ l[n] \notin N => Behind(N, "line", n, l, u) = Behind(N, "min", n, l, u)
           /\ Behind(N, "next", n, l, u) = Behind(N, "line", n, l, u) \cup {n}
           /\ u[n] \in N => Behind(N, "min", u[n], l, u) = Behind(N, "next", n, l, u)
           /\ u[n] \notin N => Behind(N, "up", n, l, u) = Behind(N, "next", n, l, u)
           /\ Behind(N, "up", r, l, u) = N
           /\ n # r => Behind(N, IF l[p[n]] = n THEN "line" ELSE "up", p[n], l, u)
                       = Behind(N, "up", n, l, u)
<1> DEFINE U(x) == Under(x, l, u)
<1>1. /\ r \in N /\ N \subseteq Nat /\ N \subseteq Key
      /\ \A k \in N : l[k] \in N => l[k] < k
      /\ \A k \in N : u[k] \in N => k < u[k]
      /\ \A k \in N : k # r => p[k] \in N /\ k \in {l[p[k]], u[p[k]]}
  BY Shape
<1>2. \A x \in N : x \in U(x) /\ U(x) \subseteq N
  BY UnderSplit
<1>3. \A x \in N : /\ l[x] \in N => l[x] \in U(x) /\ U(l[x]) \subseteq U(x)
                   /\ u[x] \in N => u[x] \in U(x) /\ U(u[x]) \subseteq U(x)
  <2> SUFFICES ASSUME NEW x \in N, NEW c \in N, c \in {l[x], u[x]}
               PROVE  c \in U(x) /\ U(c) \subseteq U(x)
    BY Zenon
  <2>1. c \in U(x)
    BY <1>2, UnderSplit
  <2>2. U(x) \in SUBSET Key /\ Branch(U(x), c, l, u)
    BY <1>1, <2>1, UnderBranch DEF Branch
  <2>3. QED
    BY <2>1, <2>2, UnderBranch
<1>4. \A x \in N : \A k \in U(x) : \/ k = x
                                   \/ l[x] \in N /\ k \in U(l[x])
                                   \/ u[x] \in N /\ k \in U(u[x])
  BY UnderSplit
<1>5. \A x \in N : /\ l[x] \in N => \A k \in U(l[x]) : k < x
                   /\ u[x] \in N => \A k \in U(u[x]) : x < k
  BY UnderOrder
<1>6. \A x \in N : \A a, b \in U(x) : \A k \in N : a < k /\ k < b => k \in U(x)
  BY UnderConvex
<1>7. U(r) = N
  BY UnderRoot
<1> DEFINE Min(x) == {k \in N : k < x /\ k \notin U(x)}
           Less(x) == {k \in N : k < x}
           Upto(x) == {k \in N : k <= x}
           Passed(x) == {k \in N : k < x \/ k \in U(x)}
<1>8. ASSUME NEW x
      PROVE  /\ Behind(N, "min", x, l, u) = Min(x) /\ Behind(N, "line", x, l, u) = Less(x)
             /\ Behind(N, "next", x, l, u) = Upto(x) /\ Behind(N, "up", x, l, u) = Passed(x)
  BY DEF Behind
<1> HIDE DEF U
<1>9. Min(r) = {} /\ Passed(r) = N
  BY <1>7
<1>10. ASSUME l[n] \in N PROVE Min(l[n]) = Min(n)
  <2>1. l[n] < n /\ l[n] \in Nat /\ n \in Nat /\ n \in U(n) /\ l[n] \in U(n) /\ U(l[n]) \subseteq U(n)
    BY <1>1, <1>2, <1>3, <1>10
  <2>2. ASSUME NEW k \in N PROVE k < l[n] /\ k \notin U(l[n]) <=> k < n /\ k \notin U(n)
    <3>1. k \in Nat
      BY <1>1
    <3>2. l[n] < k /\ k < n => k \in U(n)
      BY <1>6, <2>1
    <3>3. k = l[n] => k \in U(n)
      BY <2>1
    <3>4. k \in U(n) => k = n \/ k \in U(l[n]) \/ n < k
      BY <1>4, <1>5
    <3>5. k \in U(l[n]) => k \in U(n)
      BY <2>1
    <3>6. QED
      BY <2>1, <3>1, <3>2, <3>3, <3>4, <3>5
  <2>3. QED
    BY <2>2
<1>11. ASSUME l[n] \notin N PROVE Less(n) = Min(n)
  <2>1. ASSUME NEW k \in N, k < n, k \in U(n) PROVE FALSE
    <3>1. k = n \/ n < k
      BY <1>4, <1>5, <1>11, <2>1
    <3>2. k \in Nat /\ n \in Nat
      BY <1>1
    <3>3. QED
      BY <2>1, <3>1, <3>2
  <2>2. QED
    BY <2>1
<1>12. Upto(n) = Less(n) \cup {n}
  <2>1. ASSUME NEW k \in N PROVE k <= n <=> k < n \/ k = n
    <3>1. k \in Nat /\ n \in Nat
      BY <1>1
    <3>2. QED
      BY <3>1
  <2>2. QED
    BY <2>1
<1>13. ASSUME u[n] \in N PROVE Min(u[n]) = Upto(n)
  <2>1. n < u[n] /\ u[n] \in Nat /\ n \in Nat /\ n \in U(n) /\ u[n] \in U(n)
    BY <1>1, <1>2, <1>3, <1>13
  <2>2. ASSUME NEW k \in N PROVE k < u[n] /\ k \notin U(u[n]) <=> k <= n
    <3>1. k \in Nat
      BY <1>1
    <3>2. n < k /\ k < u[n] => k \in U(n)
      BY <1>6, <2>1
    <3>3. k \in U(n) => k = n \/ k < n \/ k \in U(u[n])
      BY <1>4, <1>5
    <3>4. k \in U(u[n]) => n < k
      BY <1>5, <1>13
    <3>5. QED
      BY <2>1, <3>1, <3>2, <3>3, <3>4
  <2>3. QED
    BY <2>2
<1>14. ASSUME u[n] \notin N PROVE Passed(n) = Upto(n)
  <2>1. ASSUME NEW k \in N PROVE k < n \/ k \in U(n) <=> k <= n
    <3>1. k \in Nat /\ n \in Nat /\ n \in U(n)
      BY <1>1, <1>2
    <3>2. k \in U(n) => k = n \/ k < n
      BY <1>4, <1>5, <1>14
    <3>3. QED
      BY <3>1, <3>2
  <2>2. QED
    BY <2>1
<1>15. ASSUME n # r, l[p[n]] = n PROVE Less(p[n]) = Passed(n)
  <2> DEFINE q == p[n]
  <2>1. q \in N /\ n < q /\ q \in Nat /\ n \in Nat /\ n \in U(q) /\ q \in U(q)
    <3>1. q \in N /\ l[q] = n
      BY <1>1, <1>15
    <3> HIDE DEF q
    <3>2. n < q /\ q \in Nat /\ n \in Nat
      BY <1>1, <3>1
    <3>3. n \in U(q) /\ q \in U(q)
      BY <1>2, <1>3, <3>1
    <3>4. QED
      BY <3>1, <3>2, <3>3
  <2>2. ASSUME NEW k \in N PROVE k < q <=> k < n \/ k \in U(n)
    <3>1. k \in Nat
      BY <1>1
    <3>2. n < k /\ k < q => k \in U(q)
      BY <1>6, <2>1
    <3>3. k \in U(q) => k = q \/ q < k \/ k \in U(n)
      BY <1>4, <1>5, <1>15, <2>1
    <3>4. k \in U(n) => k < q
      BY <1>5, <1>15, <2>1
    <3>5. k = n => k \in U(n)
      BY <1>2
    <3>6. QED
      BY <2>1, <3>1, <3>2, <3>3, <3>4, <3>5
  <2>3. QED
    BY <2>2
<1>16. ASSUME n # r, l[p[n]] # n PROVE Passed(p[n]) = Passed(n)
  <2> DEFINE q == p[n]
  <2>1. u[q] = n /\ q \in N
    BY <1>1, <1>16
  <2>2. q < n /\ q \in Nat /\ n \in Nat /\ n \in U(q) /\ q \in U(q) /\ U(n) \subseteq U(q)
    <3> HIDE DEF q
    <3>1. q < n /\ q \in Nat /\ n \in Nat
      BY <1>1, <2>1
    <3>2. n \in U(q) /\ q \in U(q) /\ U(n) \subseteq U(q)
      BY <1>2, <1>3, <2>1
    <3>3. QED
      BY <3>1, <3>2
  <2>3. ASSUME NEW k \in N PROVE k < q \/ k \in U(q) <=> k < n \/ k \in U(n)
    <3>1. k \in Nat
      BY <1>1
    <3>2. q < k /\ k < n => k \in U(q)
      BY <1>6, <2>1, <2>2
    <3>3. k \in U(q) => k = q \/ k < q \/ k \in U(n)
      BY <1>4, <1>5, <2>1
    <3>4. (k \in U(n) => k \in U(q)) /\ (k = q => k \in U(q))
      BY <2>2
    <3>5. QED
      BY <2>2, <3>1, <3>2, <3>3, <3>4
  <2>4. QED
    BY <2>3
<1>17. QED
  <2> HIDE DEF Min, Less, Upto, Passed
  <2>1. QED
    BY <1>8, <1>9, <1>10, <1>11, <1>12, <1>13, <1>14, <1>15, <1>16

-----------------------------------------------------------------------------
(* The page *)

\* No other worker has served anybody.
Alone(w) == \A v \in Worker \ {w} : key[v] = Null

Sent(w) ==
    /\ body[w] # <<>> /\ body[w][1] = "prefix"
    /\ announced[w] <= PrefixLen
    /\ key[w] \notin Slow => body[w] = <<"prefix", "page">>

Walking(w) ==
    /\ pc[w] \in {"lock", "root", "dead"} \cup Updating => html[w] = <<>>
    /\ pc[w] \in Rendering =>
          node[w] \in Counted /\ Rendered(w, Behind(Counted, pc[w], node[w], left, right))
    /\ pc[w] = "up" => top[w] = root
    /\ pc[w] = "send" => Rendered(w, Counted)
    /\ pc[w] = "idle" /\ html[w] # <<>> => Rendered(w, Counted) /\ Sent(w)

WalkInv == \A w \in Worker : Alone(w) => Walking(w)

\* A line more, for a node greater than those before.
LEMMA OneLineMore ==
    ASSUME IInv, NEW w \in Worker, NEW D \in SUBSET Key, Rendered(w, D),
           NEW n \in Key, \A k \in D : k < n,
           data' = data, html' = [html EXCEPT ![w] = Append(html[w], <<n, data[n]>>)]
    PROVE  Rendered(w, D \cup {n})'
<1> DEFINE s == html[w]
           t == html'[w]
<1>1. s \in Seq(Key \X (0..(CountMod - 1))) /\ data[n] \in 0..(CountMod - 1)
  BY DEF IInv, TypeOK
<1>2. t = Append(s, <<n, data[n]>>)
  BY DEF IInv, TypeOK
<1>3. /\ Len(s) \in Nat /\ Len(t) = Len(s) + 1
      /\ \A i \in 1..Len(s) : t[i] = s[i]
      /\ t[Len(t)][1] = n /\ t[Len(t)][2] = data[n]
  BY <1>1, <1>2
<1>4. /\ \A i \in 1..Len(s) : s[i][1] \in D /\ s[i][2] = data[s[i][1]]
      /\ \A i, j \in 1..Len(s) : i < j => s[i][1] < s[j][1]
      /\ \A k \in D : \E i \in 1..Len(s) : s[i][1] = k
  BY DEF Rendered
<1> HIDE DEF s, t
<1>5. 1..Len(t) = 1..Len(s) \cup {Len(t)} /\ Len(t) \in 1..Len(t) /\ \A i \in 1..Len(s) : i \in 1..Len(t)
  BY <1>3
<1>6. \A i \in 1..Len(t) : t[i][1] \in D \cup {n} /\ t[i][2] = data[t[i][1]]
  BY <1>3, <1>4, <1>5
<1>7. ASSUME NEW i \in 1..Len(t), NEW j \in 1..Len(t), i < j PROVE t[i][1] < t[j][1]
  <2>1. i \in 1..Len(s)
    BY <1>3, <1>7
  <2>2. CASE j = Len(t)
    BY <1>3, <1>4, <2>1, <2>2
  <2>3. CASE j \in 1..Len(s)
    BY <1>3, <1>4, <1>7, <2>1, <2>3
  <2>4. QED
    BY <1>5, <2>2, <2>3
<1>8. \A k \in D \cup {n} : \E i \in 1..Len(t) : t[i][1] = k
  BY <1>3, <1>4, <1>5
<1>9. /\ \A i \in 1..Len(t) : t[i][1] \in D \cup {n} /\ t[i][2] = data'[t[i][1]]
      /\ \A i, j \in 1..Len(t) : i < j => t[i][1] < t[j][1]
      /\ \A k \in D \cup {n} : \E i \in 1..Len(t) : t[i][1] = k
  <2>1. \A i \in 1..Len(t) : t[i][1] \in D \cup {n} /\ t[i][2] = data'[t[i][1]]
    BY <1>6
  <2>2. \A i, j \in 1..Len(t) : i < j => t[i][1] < t[j][1]
    BY <1>7
  <2>3. QED
    BY <1>8, <2>1, <2>2
<1>10. QED
  BY <1>9 DEF Rendered, t

\* As many lines as nodes.
LEMMA LinesCounted ==
    ASSUME IInv, NEW w \in Worker, NEW D \in SUBSET Key, Rendered(w, D)
    PROVE  Len(html[w]) = Cardinality(D)
<1> DEFINE n == Len(html[w])
           f == [i \in 1..n |-> html[w][i][1]]
<1>1. n \in Nat /\ \A i \in 1..n : html[w][i] \in Key \X (0..(CountMod - 1))
  BY DEF IInv, TypeOK
<1>2. \A i, j \in 1..n : i < j => html[w][i][1] < html[w][j][1]
  BY DEF Rendered
<1>3. \A i, j \in 1..n : html[w][i][1] = html[w][j][1] => i = j
  <2> SUFFICES ASSUME NEW i \in 1..n, NEW j \in 1..n, html[w][i][1] = html[w][j][1], i < j
               PROVE  FALSE
    BY <1>1
  <2>1. html[w][i][1] \in Nat /\ html[w][i][1] < html[w][j][1]
    BY <1>1, <1>2, KeyAssumption
  <2>2. QED
    BY <2>1
<1>4. f \in Bijection(1..n, D)
  BY <1>3 DEF Rendered, Bijection, Injection, Surjection, IsInjective
<1>5. ExistsBijection(1..n, D)
  BY <1>4 DEF ExistsBijection
<1>6. IsFiniteSet(1..n) /\ Cardinality(1..n) = n
  <2>1. n \in Nat
    BY <1>1
  <2> HIDE DEF n
  <2>2. 1 \in Int /\ n \in Int /\ (IF 1 > n THEN 0 ELSE n - 1 + 1) = n
    BY <2>1
  <2>3. QED
    BY <2>2, FS_Interval
<1>7. QED
  BY <1>5, <1>6, FS_Bijection

LEMMA WalkInit == Init => WalkInv
  BY DEF Init, WalkInv, Walking, Updating, Rendering

\* While w is alone and renders, the tree is settled.
LEMMA AloneSettled ==
    ASSUME IInv, NEW w \in Worker, Alone(w), pc[w] \notin Updating
    PROVE  SearchTree(ByKey, Counted, root, left, right, parent)
<1>1. \A v \in Worker : pc[v] \notin Updating
  <2> SUFFICES ASSUME NEW v \in Worker \ {w} PROVE pc[v] = "idle"
    BY DEF Updating
  <2>1. key[v] \notin Key
    BY KeyAssumption DEF Alone, Null
  <2>2. QED
    BY <2>1 DEF IInv, AtWork
<1>2. mutex = NoWorker
  BY <1>1 DEF IInv, Exclusive, TypeOK
<1>3. QED
  BY <1>2, Settled DEF IInv, Tree

\* A step of the walk that renders nothing.
LEMMA WalkOn ==
    ASSUME IInv, NEW w \in Worker, UNCHANGED <<tree, data, html, counted>>,
           pc'[w] \in Rendering, node'[w] \in Counted, pc'[w] = "up" => top'[w] = root,
           NEW D, Rendered(w, D), D = Behind(Counted, pc'[w], node'[w], left, right)
    PROVE  Walking(w)'
<1>1. Counted' = Counted
  BY DEF Counted
<1>2. Rendered(w, D)'
  BY DEF Rendered
<1>3. Rendered(w, Behind(Counted, pc[w], node[w], left, right))'
  BY <1>1, <1>2 DEF tree
<1>4. QED
  BY <1>1, <1>3 DEF Walking, Rendering, Updating, tree

LEMMA RenderWalks ==
    ASSUME IInv, NEW w \in Worker, Alone(w), Walking(w), Render(w)
    PROVE  Walking(w)'
<1> DEFINE n == node[w]
           At(step, k) == Behind(Counted, step, k, left, right)
<1>1. pc[w] \in {"root", "min", "line", "next", "up"} /\ UNCHANGED <<tree, data, counted>>
  BY DEF Render, ReadRoot, GoLeft, Least, Line, NextRight, NextUp, UpEnd, Up, Follow, Stay, Goto
<1>2. SearchTree(ByKey, Counted, root, left, right, parent)
  BY <1>1, AloneSettled DEF Updating
<1>3. pc' = [pc EXCEPT ![w] = pc'[w]] /\ node' = [node EXCEPT ![w] = node'[w]] /\ Counted' = Counted
  <2>1. Counted' = Counted
    BY <1>1 DEF Counted
  <2> USE DEF Render, Follow, Stay, Goto, IInv, TypeOK
  <2>2. CASE ReadRoot(w)
    BY <2>1, <2>2 DEF ReadRoot
  <2>3. CASE GoLeft(w)
    BY <2>1, <2>3 DEF GoLeft
  <2>4. CASE Line(w)
    BY <2>1, <2>4 DEF Line
  <2>5. CASE NextRight(w)
    BY <2>1, <2>5 DEF NextRight
  <2>6. CASE Up(w)
    BY <2>1, <2>6 DEF Up
  <2>7. CASE Least(w) \/ NextUp(w) \/ UpEnd(w)
    BY <2>1, <2>7 DEF Least, NextUp, UpEnd
  <2>8. QED
    BY <2>2, <2>3, <2>4, <2>5, <2>6, <2>7
<1>4. CASE ReadRoot(w)
  <2>1. html[w] = <<>> /\ html' = html
    BY <1>4 DEF ReadRoot, Follow, Goto, response, Walking
  <2>2. CASE root \in Key
    <3>1. root \in Counted /\ Counted # {}
      BY <1>2, <2>2, KeyAssumption DEF SearchTree, Linked
    <3>2. At("min", root) = {}
      BY <1>2, <3>1, Walked
    <3>3. Rendered(w, {})
      BY <2>1 DEF Rendered
    <3>4. pc'[w] = "min" /\ node'[w] = root
      BY <1>4, <2>2 DEF ReadRoot, Follow, Goto, IInv, TypeOK
    <3>5. QED
      BY <1>1, <2>1, <3>1, <3>2, <3>3, <3>4, WalkOn DEF Rendering
  <2>3. CASE root \notin Key
    <3>1. pc'[w] = "dead" /\ html'[w] = <<>>
      BY <1>4, <2>1, <2>3 DEF ReadRoot, Follow, Goto, IInv, TypeOK
    <3>2. QED
      BY <3>1 DEF Walking, Rendering
  <2>4. QED
    BY <2>2, <2>3
<1> SUFFICES ASSUME ~ReadRoot(w) PROVE Walking(w)'
  BY <1>4
<1>5. pc[w] \in Rendering /\ n \in Counted /\ Counted # {} /\ Rendered(w, At(pc[w], n))
  <2>1. pc[w] \in Rendering
    BY DEF Render, GoLeft, Least, Line, NextRight, NextUp, UpEnd, Up, Stay, Goto, Rendering
  <2>2. QED
    BY <2>1 DEF Walking
<1>6. /\ root \in Counted /\ Counted \subseteq Key
      /\ left[n] \in Counted \cup {Sentinel} /\ right[n] \in Counted \cup {Sentinel}
      /\ n # root => parent[n] \in Counted
      /\ Sentinel \notin Counted
  BY <1>2, <1>5, Shape, KeyAssumption
<1>7. /\ left[n] \in Counted => At("min", left[n]) = At("min", n)
      /\ left[n] \notin Counted => At("line", n) = At("min", n)
      /\ At("next", n) = At("line", n) \cup {n}
      /\ right[n] \in Counted => At("min", right[n]) = At("next", n)
      /\ right[n] \notin Counted => At("up", n) = At("next", n)
      /\ At("up", root) = Counted
      /\ n # root => At(IF left[parent[n]] = n THEN "line" ELSE "up", parent[n]) = At("up", n)
  BY <1>2, <1>5, Walked
<1>8. pc \in [Worker -> {"idle", "lock", "root", "send", "dead"} \cup Updating \cup Rendering]
      /\ node \in [Worker -> Pointer] /\ top \in [Worker -> Pointer]
      /\ html \in [Worker -> Seq(Key \X (0..(CountMod - 1)))]
  BY DEF IInv, TypeOK
<1>9. CASE GoLeft(w)
  <2>1. /\ pc[w] = "min" /\ left[n] \in Counted /\ pc'[w] = "min" /\ node'[w] = left[n]
        /\ html' = html
    BY <1>6, <1>8, <1>9 DEF GoLeft, Follow, Goto, response
  <2>2. QED
    BY <1>1, <1>5, <1>7, <2>1, WalkOn DEF Rendering
<1>10. CASE Least(w)
  <2>1. /\ pc[w] = "min" /\ left[n] \notin Counted /\ pc'[w] = "line" /\ node'[w] = n
        /\ html' = html
    BY <1>6, <1>8, <1>10 DEF Least, Stay, Goto, response
  <2>2. QED
    BY <1>1, <1>5, <1>7, <2>1, WalkOn DEF Rendering
<1>11. CASE NextRight(w)
  <2>1. /\ pc[w] = "next" /\ right[n] \in Counted /\ pc'[w] = "min" /\ node'[w] = right[n]
        /\ html' = html
    BY <1>6, <1>8, <1>11 DEF NextRight, Follow, Goto, response
  <2>2. QED
    BY <1>1, <1>5, <1>7, <2>1, WalkOn DEF Rendering
<1>12. CASE NextUp(w)
  <2>1. /\ pc[w] = "next" /\ right[n] \notin Counted /\ pc'[w] = "up" /\ node'[w] = n
        /\ top'[w] = root /\ html' = html
    BY <1>6, <1>8, <1>12 DEF NextUp, Goto, response
  <2>2. QED
    BY <1>1, <1>5, <1>7, <2>1, WalkOn DEF Rendering
<1>13. CASE Up(w)
  <2>1. /\ pc[w] = "up" /\ top[w] = root /\ n # root /\ parent[n] \in Key /\ node'[w] = parent[n]
        /\ pc'[w] = IF left[parent[n]] = n THEN "line" ELSE "up"
        /\ (pc'[w] = "up" => top'[w] = root) /\ html' = html
    BY <1>6, <1>8, <1>13 DEF Walking, Up, Follow, Goto, response
  <2>2. pc'[w] \in Rendering /\ node'[w] \in Counted
    BY <1>6, <2>1 DEF Rendering
  <2>3. At(pc'[w], node'[w]) = At("up", n)
    BY <1>7, <2>1
  <2>4. QED
    BY <1>1, <1>5, <2>1, <2>2, <2>3, WalkOn
<1>14. CASE Line(w)
  <2>1. /\ pc[w] = "line" /\ pc'[w] = "next" /\ node'[w] = n
        /\ html' = [html EXCEPT ![w] = Append(html[w], <<n, data[n]>>)]
    BY <1>8, <1>14 DEF Line, Goto
  <2>2. At("line", n) \in SUBSET Key /\ \A k \in At("line", n) : k < n
    BY <1>6 DEF Behind
  <2>3. Rendered(w, At("line", n))
    BY <1>5, <2>1
  <2>4. PICK D \in SUBSET Key : D = At("line", n)
    BY <2>2
  <2>5. Rendered(w, D \cup {n})'
    BY <1>1, <1>5, <1>6, <2>1, <2>2, <2>3, <2>4, OneLineMore
  <2>6. Behind(Counted, pc[w], node[w], left, right)' = D \cup {n}
    BY <1>1, <1>3, <1>7, <2>1, <2>4 DEF tree
  <2>7. Rendered(w, Behind(Counted, pc[w], node[w], left, right))'
    BY <2>1, <2>5, <2>6 DEF Rendered
  <2>8. QED
    BY <1>3, <1>5, <2>1, <2>7 DEF Walking, Rendering, Updating
<1>15. CASE UpEnd(w)
  <2>1. pc[w] = "up" /\ n = root /\ pc'[w] = "send" /\ html' = html
    BY <1>8, <1>15 DEF Walking, UpEnd, Goto, response
  <2>2. Rendered(w, Counted)
    BY <1>5, <1>7, <2>1
  <2>3. Rendered(w, Counted)'
    BY <1>1, <1>3, <2>1, <2>2 DEF Rendered
  <2>4. QED
    BY <2>1, <2>3 DEF Walking, Rendering, Updating
<1>16. QED
  BY <1>4, <1>9, <1>10, <1>11, <1>12, <1>13, <1>14, <1>15 DEF Render

\* A step of w.
LEMMA OwnWalks ==
    ASSUME IInv, NEW w \in Worker, Alone(w), Walking(w),
           Handler(w) \/ Writer(w) \/ Respawn(w) \/ \E k \in Key : Request(w, k)
    PROVE  Walking(w)'
<1>1. /\ pc \in [Worker -> {"idle", "lock", "root", "send", "dead"} \cup Updating \cup Rendering]
      /\ html \in [Worker -> Seq(Key \X (0..(CountMod - 1)))]
      /\ body \in [Worker -> Seq({"prefix", "page", "part", "rest", "junk"})]
      /\ announced \in [Worker -> Int]
  BY DEF IInv, TypeOK
<1>2. CASE Update(w)
  <2>1. pc[w] \in {"lock"} \cup Updating /\ pc'[w] \in {"root"} \cup Updating /\ html' = html
    BY <1>1, <1>2 DEF Update, Lock, Found, NoMemory, InsertRoot, Insert, InsertParent, InsertLeft,
                      InsertRight, NoRotation, Rotation, Unlock, Goto, response, Updating
  <2>2. QED
    BY <2>1 DEF Walking, Updating, Rendering
<1>3. CASE \E k \in Key : Request(w, k)
  <2>1. pc'[w] = "lock" /\ html'[w] = <<>>
    BY <1>1, <1>3 DEF Request, Goto
  <2>2. QED
    BY <2>1 DEF Walking, Updating, Rendering
<1>4. CASE Respawn(w)
  <2>1. pc[w] = "dead" /\ pc'[w] = "idle" /\ html' = html
    BY <1>1, <1>4 DEF Respawn, Stay, Goto, response
  <2>2. QED
    BY <2>1 DEF Walking, Updating, Rendering
<1>5. CASE Send(w)
  <2>1. /\ pc[w] = "send" /\ pc'[w] = "idle"
        /\ UNCHANGED <<html, data, counted, key>>
    BY <1>1, <1>5 DEF Send, Goto
  <2>2. Rendered(w, Counted)'
    BY <2>1 DEF Walking, Rendered, Counted
  <2>3. announced'[w] = 10
    BY <1>1, <1>5 DEF Send, ngx_http_mxl_header_filter, Unknown, PrefixLen
  <2>4. PICK page \in {"page", "part"} :
            /\ body'[w] = <<"prefix">> \o <<page>>
            /\ key[w] \notin Slow => page = "page"
    BY <1>1, <1>5 DEF Send, ngx_http_mxl_body_filter
  <2>5. <<"prefix">> \o <<page>> = <<"prefix", page>>
    <3> DEFINE T == {"prefix", "page", "part"}
    <3>1. <<"prefix">> \in Seq(T) /\ <<page>> \in Seq(T) /\ <<"prefix", page>> \in Seq(T)
      OBVIOUS
    <3> HIDE DEF T
    <3>2. /\ <<"prefix">> \o <<page>> \in Seq(T) /\ Len(<<"prefix">> \o <<page>>) = 2
          /\ (<<"prefix">> \o <<page>>)[1] = "prefix" /\ (<<"prefix">> \o <<page>>)[2] = page
      BY <3>1, ConcatProperties
    <3>3. PICK c \in Seq(T) : c = <<"prefix">> \o <<page>>
      BY <3>2
    <3>4. Len(c) = 2 /\ c[1] = "prefix" /\ c[2] = page
      BY <3>2, <3>3
    <3>5. c = <<"prefix", page>>
      BY <3>4
    <3>6. QED
      BY <3>3, <3>5
  <2>6. Sent(w)'
    BY <2>1, <2>3, <2>4, <2>5 DEF Sent, PrefixLen
  <2>7. QED
    BY <2>1, <2>2, <2>6 DEF Walking, Updating, Rendering
<1>6. CASE Writer(w)
  <2>1. pc[w] = "idle" /\ body[w] # <<>> /\ body[w][Len(body[w])] = "part"
    BY <1>6 DEF Writer
  <2>2. UNCHANGED <<pc, html, data, counted, key, announced>>
    BY <1>6 DEF Writer
  <2>3. PICK rest \in {"rest", "junk"} :
            body'[w] = (body[w] \o <<rest>>) \o (<<"prefix">> \o <<>>)
    BY <1>1, <1>6 DEF Writer, ngx_http_mxl_body_filter
  <2>4. body'[w] # <<>> /\ body'[w][1] = body[w][1]
    <3>1. /\ body[w] \in Seq({"prefix", "page", "part", "rest", "junk"})
          /\ <<rest>> \in Seq({"prefix", "page", "part", "rest", "junk"})
          /\ <<"prefix">> \o <<>> \in Seq({"prefix", "page", "part", "rest", "junk"})
      <4>1. <<"prefix">> \o <<>> = <<"prefix">>
        OBVIOUS
      <4>2. QED
        BY <1>1, <4>1
    <3>2. QED
      BY <2>1, <2>3, <3>1
  <2>5. body[w] # <<"prefix", "page">>
    BY <2>1
  <2>6. ASSUME html[w] # <<>> PROVE Rendered(w, Counted)' /\ Sent(w)'
    <3>1. Rendered(w, Counted) /\ Sent(w)
      BY <2>1, <2>6 DEF Walking
    <3>2. QED
      BY <2>2, <2>4, <2>5, <3>1 DEF Rendered, Counted, Sent
  <2>7. QED
    BY <2>1, <2>2, <2>6 DEF Walking, Updating, Rendering
<1>7. QED
  BY <1>2, <1>3, <1>4, <1>5, <1>6, RenderWalks DEF Handler

\* A step of another worker, which has served nobody before it.
LEMMA OtherWalks ==
    ASSUME IInv, NEW w \in Worker, Alone(w), Walking(w), NEW v \in Worker \ {w}, Alone(w)',
           Handler(v) \/ Writer(v) \/ Respawn(v) \/ \E k \in Key : Request(v, k)
    PROVE  Walking(w)'
<1>1. key[v] \notin Key /\ key'[v] \notin Key
  BY KeyAssumption DEF Alone, Null
<1>2. pc[v] = "idle"
  BY <1>1 DEF IInv, AtWork
<1>3. ~\E k \in Key : Request(v, k)
  <2> SUFFICES ASSUME NEW k \in Key, Request(v, k) PROVE FALSE
    OBVIOUS
  <2>1. key'[v] = k
    BY DEF Request, IInv, TypeOK
  <2>2. QED
    BY <1>1, <2>1
<1>4. ~Respawn(v) /\ ~Handler(v)
  BY <1>2 DEF Respawn, Handler, Update, Render, Send, Lock, Found, NoMemory, InsertRoot, Insert,
              InsertParent, InsertLeft, InsertRight, NoRotation, Rotation, Unlock, ReadRoot, GoLeft,
              Least, Line, NextRight, NextUp, UpEnd, Up, Follow, Stay, Goto
<1>5. /\ UNCHANGED <<tree, data, pc, key, node, top, html, announced, counted>>
      /\ body'[w] = body[w]
  BY <1>3, <1>4 DEF Writer, IInv, TypeOK
<1>6. UNCHANGED <<root, left, right>> /\ Counted' = Counted
  BY <1>5 DEF tree, Counted
<1>7. (Rendered(w, Counted) => Rendered(w, Counted)') /\ (Sent(w) => Sent(w)')
  BY <1>5, <1>6 DEF Rendered, Sent
<1>8. Rendered(w, Behind(Counted, pc[w], node[w], left, right))
          => Rendered(w, Behind(Counted, pc[w], node[w], left, right))'
  BY <1>5, <1>6 DEF Rendered
<1>9. QED
  BY <1>5, <1>6, <1>7, <1>8 DEF Walking

LEMMA WalkStep == IInv /\ WalkInv /\ [Next]_vars => WalkInv'
<1> SUFFICES ASSUME IInv, WalkInv, [Next]_vars, NEW w \in Worker, Alone(w)' PROVE Walking(w)'
  BY DEF WalkInv
<1>1. CASE UNCHANGED vars
  <2>1. Alone(w) => Walking(w)
    BY DEF WalkInv
  <2>2. UNCHANGED <<root, left, right, data, pc, key, node, top, html, announced, body, counted>>
    BY <1>1 DEF vars, tree, response
  <2>3. Counted' = Counted /\ Alone(w)
    BY <2>2 DEF Counted, Alone
  <2>4. QED
    BY <2>1, <2>2, <2>3 DEF Walking, Rendered, Sent
<1>2. ASSUME NEW v \in Worker, Handler(v) \/ Writer(v) \/ Respawn(v) \/ \E k \in Key : Request(v, k)
      PROVE  Walking(w)'
  <2>1. Alone(w)
    <3>1. key' = key \/ \E k \in Key : key' = [key EXCEPT ![v] = k]
      BY <1>2 DEF Respawn, Handler, Update, Render, Send, Lock, Found, NoMemory, InsertRoot, Insert,
              InsertParent, InsertLeft, InsertRight, NoRotation, Rotation, Unlock, ReadRoot, GoLeft,
              Least, Line, NextRight, NextUp, UpEnd, Up, Follow, Stay, Goto, Writer, Request
    <3>2. ASSUME NEW k \in Key, key' = [key EXCEPT ![v] = k] PROVE v = w
      <4>1. key'[v] = k /\ Null \notin Key
        BY <3>2, KeyAssumption DEF IInv, TypeOK, Null
      <4>2. QED
        BY <4>1 DEF Alone
    <3>3. QED
      BY <3>1, <3>2 DEF Alone, IInv, TypeOK
  <2>2. Walking(w)
    BY <2>1 DEF WalkInv
  <2>3. CASE v = w
    BY <1>2, <2>1, <2>2, <2>3, OwnWalks
  <2>4. CASE v # w
    BY <1>2, <2>1, <2>2, <2>4, OtherWalks
  <2>5. QED
    BY <2>3, <2>4
<1>3. QED
  BY <1>1, <1>2 DEF Next

-----------------------------------------------------------------------------
(* Theorems *)

\* The inductive invariant holds in every reachable state.
THEOREM PageInvariant == Spec => []IInv
  BY InitInv, StepInv, PTL DEF Spec

\* Every variable keeps its type, whatever a worker meets that renders the tree
\* while another changes it.
THEOREM PageTypeCorrect == Spec => []TypeOK
<1>1. IInv => TypeOK
  BY DEF IInv
<1>2. QED
  BY <1>1, PageInvariant, PTL

\* Whenever the mutex is free, the search of ngx_http_pagecount_lookup finds each
\* client that was counted, with its count.
THEOREM PageCountsExact == Spec => []CountsExact
<1>1. IInv => CountsExact
  <2> SUFFICES ASSUME IInv, mutex = NoWorker, NEW k \in Counted
               PROVE  k \in Way(k) /\ data[k] = counted[k] % CountMod
    BY DEF CountsExact
  <2>1. k \in Key /\ k \in Path(ByKey, k, root, Left, Right)
    BY DEF IInv, Tree, SearchTree, Findable, Counted
  <2>2. k \in Way(k)
    BY <2>1, Settled
  <2>3. QED
    BY <2>2 DEF IInv, Counts
<1>2. QED
  BY <1>1, PageInvariant, PTL

\* Whenever the mutex is free, the nodes are linked both ways, after any number of
\* insertions and rotations.
THEOREM PageLinkedBothWays == Spec => []LinkedBothWays
<1>1. IInv => LinkedBothWays
  <2> SUFFICES ASSUME IInv, mutex = NoWorker PROVE LinkedBothWays
    BY DEF LinkedBothWays
  <2>1. Linked(ByKey, Counted, root, left, right, parent)
    BY Settled DEF IInv, Tree, SearchTree
  <2>2. QED
    BY <2>1, KeyAssumption DEF LinkedBothWays, Linked
<1>2. QED
  BY <1>1, PageInvariant, PTL

\* A worker that renders alone has behind it the nodes that Behind names.
THEOREM PageWalk == Spec => []WalkInv
  BY PageInvariant, WalkInit, WalkStep, PTL DEF Spec

\* While only one worker serves, the walk of ngx_encode_http_page_rb ends after a line
\* for every counted client, in the order of the addresses, with its count; the page
\* is sent behind one prefix, and no client is told to expect more than it gets.
THEOREM PagePageExact == Spec => []PageExact
<1>1. IInv /\ WalkInv => PageExact
  <2> SUFFICES ASSUME IInv, WalkInv, NEW w \in Worker, pc[w] = "idle", html[w] # <<>>,
                      \A v \in Worker \ {w} : key[v] = Null
               PROVE  /\ Len(html[w]) = Cardinality(Counted)
                      /\ \A j \in 1..Len(html[w]) :
                            /\ html[w][j][1] \in Counted /\ html[w][j][2] = data[html[w][j][1]]
                            /\ j > 1 => html[w][j - 1][1] < html[w][j][1]
                      /\ key[w] \notin Slow => body[w] = <<"prefix", "page">>
                      /\ announced[w] <= PrefixLen
                                         * Cardinality({j \in 1..Len(body[w]) : body[w][j] = "prefix"})
    BY DEF PageExact
  <2>1. Rendered(w, Counted) /\ Sent(w)
    BY DEF WalkInv, Alone, Walking
  <2>2. Len(html[w]) = Cardinality(Counted)
    BY <2>1, LinesCounted DEF Counted
  <2>3. ASSUME NEW j \in 1..Len(html[w]), j > 1 PROVE html[w][j - 1][1] < html[w][j][1]
    <3>1. Len(html[w]) \in Nat
      BY DEF IInv, TypeOK
    <3>2. j - 1 \in 1..Len(html[w]) /\ j - 1 < j
      BY <2>3, <3>1
    <3>3. QED
      BY <2>1, <3>2 DEF Rendered
  <2>4. announced[w] <= PrefixLen * Cardinality({j \in 1..Len(body[w]) : body[w][j] = "prefix"})
    <3> DEFINE J == {j \in 1..Len(body[w]) : body[w][j] = "prefix"}
    <3>1. Len(body[w]) \in Nat /\ body[w] # <<>> /\ body[w][1] = "prefix"
      BY <2>1 DEF Sent, IInv, TypeOK
    <3>2. 1 \in J
      <4>1. Len(body[w]) >= 1
        BY <3>1 DEF IInv, TypeOK
      <4>2. QED
        BY <3>1, <4>1
    <3>3. IsFiniteSet(J) /\ Cardinality(J) \in Nat
      <4>1. J \in SUBSET (1..Len(body[w]))
        OBVIOUS
      <4> HIDE DEF J
      <4>2. IsFiniteSet(1..Len(body[w]))
        BY <3>1, FS_Interval
      <4>3. IsFiniteSet(J)
        BY <4>1, <4>2, FS_Subset
      <4>4. QED
        BY <4>3, FS_CardinalityType
    <3>4. Cardinality(J) # 0
      BY <3>2, <3>3, FS_EmptySet
    <3> HIDE DEF J
    <3>5. announced[w] <= PrefixLen * Cardinality(J)
      BY <2>1, <3>3, <3>4 DEF Sent, PrefixLen, IInv, TypeOK
    <3>6. QED
      BY <3>5 DEF J
  <2>5. QED
    BY <2>1, <2>2, <2>3, <2>4 DEF Rendered, Sent
<1>2. QED
  BY <1>1, PageInvariant, PageWalk, PTL
=============================================================================
