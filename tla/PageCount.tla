------------------------------ MODULE PageCount ------------------------------
(***************************************************************************)
(* The page counter of                                                     *)
(* `8 nginx module/ngx_pagecount_my/ngx_http_pagecount_module_my.c`: the   *)
(* worker processes of nginx count the requests of each client address in  *)
(* a red-black tree in shared memory.  A worker updates the tree under the *)
(* mutex of the slab pool, and renders it without.                         *)
(*                                                                         *)
(* A node is named by its key.  What the module itself writes to the tree  *)
(* is modelled write by write, in the order of the source; a rotation of   *)
(* nginx's ngx_rbtree_insert is one step, any rotation may happen, and two *)
(* at most do.                                                             *)
(*                                                                         *)
(* The page goes through the filters of PrefixFilter, the other module of  *)
(* the directory.  A response is followed until its worker starts the next *)
(* one.                                                                    *)
(***************************************************************************)
EXTENDS PrefixFilter, FiniteSets

CONSTANTS
    Worker,         \* worker processes
    NoWorker,       \* not a worker
    Key,            \* client addresses
    Slow,           \* those of clients that may take a page in more than one go
    CountMod,       \* 2^8: ngx_rbtree_node_t has one byte for data
    Capacity,       \* nodes for which there is memory in any case
    MaxRequests     \* bound: requests of all clients

\* Pointers that are no node: the sentinel, and NULL.
Sentinel == 0
Null     == -1

\* content_length_n when the handler sets none
Unknown == -1

ASSUME WorkerAssumption == NoWorker \notin Worker
ASSUME KeyAssumption   == Key \subseteq Nat \ {Sentinel} /\ IsFiniteSet(Key) /\ Slow \subseteq Key
ASSUME CountAssumption == CountMod \in Nat \ {0, 1} /\ MaxRequests \in Nat /\ Capacity \in Nat

VARIABLES
    root, left, right, parent,  \* the tree; memory no node was written to is NULL
    data,                       \* data[k]: the count in the node of k
    mutex,                      \* the worker that holds it, or NoWorker
    pc,                         \* pc[w]: what worker w does next
    key,                        \* key[w]: the address of the client it serves
    node,                       \* node[w]: the local variable of that name (temp, in the insert)
    top,                        \* top[w]: the local variable root of ngx_rbtree_next
    html,                       \* html[w]: the lines it has rendered
    announced,                  \* announced[w]: the length in the header of its response
    body,                       \* body[w]: the parts of its response that were sent
    asked,                      \* requests sent so far
    counted                     \* counted[k]: those of client k whose lookup is done

tree    == <<root, left, right, parent>>
response == <<html, announced, body>>
vars    == <<tree, data, mutex, pc, key, node, top, response, asked, counted>>
Pointer == Key \cup {Sentinel, Null}

\* ngx_http_pagecount_shm_init
Init ==
    /\ root = Sentinel
    /\ left = [k \in Key |-> Null] /\ right = [k \in Key |-> Null]
    /\ parent = [k \in Key |-> Null]
    /\ data = [k \in Key |-> 0]
    /\ mutex = NoWorker
    /\ pc = [w \in Worker |-> "idle"]
    /\ key = [w \in Worker |-> Null]
    /\ node = [w \in Worker |-> Null]
    /\ top = [w \in Worker |-> Null]
    /\ html = [w \in Worker |-> <<>>]
    /\ announced = [w \in Worker |-> Unknown]
    /\ body = [w \in Worker |-> <<>>]
    /\ asked = 0
    /\ counted = [k \in Key |-> 0]

Goto(w, from, to) == pc[w] = from /\ pc' = [pc EXCEPT ![w] = to]

-----------------------------------------------------------------------------
(* ngx_http_pagecount_handler and ngx_http_pagecount_lookup *)

Request(w, k) ==
    /\ asked < MaxRequests
    /\ Goto(w, "idle", "lock")
    /\ asked' = asked + 1
    /\ key' = [key EXCEPT ![w] = k]
    /\ html' = [html EXCEPT ![w] = <<>>]
    /\ announced' = [announced EXCEPT ![w] = Unknown]
    /\ body' = [body EXCEPT ![w] = <<>>]
    /\ UNCHANGED <<tree, data, mutex, node, top, counted>>

\* Mutant of Lock: does not wait.
Lock_Barges(w) ==
    /\ Goto(w, "lock", "lookup")
    /\ mutex' = w
    /\ UNCHANGED <<tree, data, key, node, top, response, asked, counted>>

Lock(w) ==
    /\ mutex = NoWorker
    /\ Goto(w, "lock", "lookup")
    /\ mutex' = w
    /\ UNCHANGED <<tree, data, key, node, top, response, asked, counted>>

\* The clients whose node is in the tree.
Counted == {k \in Key : counted[k] > 0}

\* Where the search for k goes on from the node t.
Toward(k, t) == IF k < t THEN left[t] ELSE right[t]

\* A set of nodes that the search for k does not leave.
Closed(S, k) ==
    /\ root \in Key => root \in S
    /\ \A t \in S \ {k} : Toward(k, t) \in Key => Toward(k, t) \in S

\* The nodes the search for k meets, the least such set; it has k when the search
\* finds k.
Way(k) == {t \in Key : \A S \in SUBSET Key : Closed(S, k) => t \in S}

Found(w) ==
    /\ Goto(w, "lookup", "unlock")
    /\ key[w] \in Way(key[w])
    /\ data' = [data EXCEPT ![key[w]] = (@ + 1) % CountMod]
    /\ counted' = [counted EXCEPT ![key[w]] = @ + 1]
    /\ UNCHANGED <<tree, mutex, key, node, top, response, asked>>

\* ngx_slab_alloc_locked fails, as it may from Capacity nodes on: nothing is
\* counted, and the handler goes on.
NoMemory(w) ==
    /\ Goto(w, "lookup", "unlock")
    /\ key[w] \notin Way(key[w])
    /\ Cardinality(Counted) >= Capacity
    /\ UNCHANGED <<tree, data, mutex, key, node, top, response, asked, counted>>

\* ngx_rbtree_insert puts the first node in place by itself, root last.
InsertRoot(w) ==
    /\ Goto(w, "lookup", "unlock")
    /\ root = Sentinel
    /\ data' = [data EXCEPT ![key[w]] = 1]
    /\ parent' = [parent EXCEPT ![key[w]] = Null]
    /\ left' = [left EXCEPT ![key[w]] = Sentinel]
    /\ right' = [right EXCEPT ![key[w]] = Sentinel]
    /\ root' = key[w]
    /\ counted' = [counted EXCEPT ![key[w]] = @ + 1]
    /\ UNCHANGED <<mutex, key, node, top, response, asked>>

\* Allocates the node and, with *p = node, puts it into the tree where the search
\* ends; its own pointers are written in the three steps that follow.
Insert(w) ==
    /\ Goto(w, "lookup", "parent")
    /\ key[w] \notin Way(key[w])
    /\ data' = [data EXCEPT ![key[w]] = 1]
    /\ \E temp \in Way(key[w]) :
          /\ Toward(key[w], temp) \notin Key
          /\ node' = [node EXCEPT ![w] = temp]
          /\ left' = IF key[w] < temp THEN [left EXCEPT ![temp] = key[w]] ELSE left
          /\ right' = IF key[w] < temp THEN right ELSE [right EXCEPT ![temp] = key[w]]
    /\ counted' = [counted EXCEPT ![key[w]] = @ + 1]
    /\ UNCHANGED <<root, parent, mutex, key, top, response, asked>>

\* Mutant of InsertParent: the node is not linked upwards.
InsertParent_Forgets(w) ==
    /\ Goto(w, "parent", "left")
    /\ UNCHANGED <<tree, data, mutex, key, node, top, response, asked, counted>>

InsertParent(w) ==
    /\ Goto(w, "parent", "left")
    /\ parent' = [parent EXCEPT ![key[w]] = node[w]]
    /\ UNCHANGED <<root, left, right, data, mutex, key, node, top, response, asked, counted>>

InsertLeft(w) ==
    /\ Goto(w, "left", "right")
    /\ left' = [left EXCEPT ![key[w]] = Sentinel]
    /\ UNCHANGED <<root, right, parent, data, mutex, key, node, top, response, asked, counted>>

InsertRight(w) ==
    /\ Goto(w, "right", "balance")
    /\ right' = [right EXCEPT ![key[w]] = Sentinel]
    /\ UNCHANGED <<root, left, parent, data, mutex, key, node, top, response, asked, counted>>

\* ngx_rbtree_insert ends, after two rotations at most.
NoRotation(w) ==
    /\ Goto(w, "balance", "unlock") \/ Goto(w, "again", "unlock")
    /\ UNCHANGED <<tree, data, mutex, key, node, top, response, asked, counted>>

\* y takes the place of its parent x, which becomes a child of y.
Replace(x, y) ==
    /\ root' = IF root = x THEN y ELSE root
    /\ LET p == parent[x]
           moved == IF y = right[x] THEN left[y] ELSE right[y]
       IN  /\ parent' = [k \in Key |-> IF k = y THEN p ELSE IF k = x THEN y
                                      ELSE IF k = moved THEN x ELSE parent[k]]
           /\ left' = [k \in Key |-> IF k = p /\ left[p] = x THEN y
                                    ELSE IF k = y /\ y = right[x] THEN x
                                    ELSE IF k = x /\ y = left[x] THEN moved ELSE left[k]]
           /\ right' = [k \in Key |-> IF k = p /\ right[p] = x THEN y
                                     ELSE IF k = y /\ y = left[x] THEN x
                                     ELSE IF k = x /\ y = right[x] THEN moved ELSE right[k]]

Rotation(w) ==
    /\ Goto(w, "balance", "again") \/ Goto(w, "again", "unlock")
    /\ \E x, y \in Key : counted[x] > 0 /\ y \in {left[x], right[x]} /\ Replace(x, y)
    /\ UNCHANGED <<data, mutex, key, node, top, response, asked, counted>>

\* Mutant of Unlock: the mutex is kept.
Unlock_Forgets(w) ==
    /\ Goto(w, "unlock", "root")
    /\ UNCHANGED <<tree, data, mutex, key, node, top, response, asked, counted>>

Unlock(w) ==
    /\ Goto(w, "unlock", "root")
    /\ mutex' = NoWorker
    /\ UNCHANGED <<tree, data, key, node, top, response, asked, counted>>

-----------------------------------------------------------------------------
(* ngx_encode_http_page_rb, with ngx_rbtree_min and ngx_rbtree_next *)

\* Worker w follows the pointer p: to a node, or to NULL, which kills it.
Follow(w, from, to, p) ==
    /\ Goto(w, from, IF p \in Key THEN to ELSE "dead")
    /\ node' = [node EXCEPT ![w] = p]
    /\ top' = [top EXCEPT ![w] = IF to = "up" THEN @ ELSE Null]
    /\ UNCHANGED <<tree, data, mutex, key, response, asked, counted>>

Stay(w, from, to) ==
    /\ Goto(w, from, to)
    /\ UNCHANGED <<tree, data, mutex, key, node, top, response, asked, counted>>

ReadRoot(w) == Follow(w, "root", "min", root)

\* ngx_rbtree_min
GoLeft(w) == pc[w] = "min" /\ left[node[w]] # Sentinel /\ Follow(w, "min", "min", left[node[w]])
Least(w)  == pc[w] = "min" /\ left[node[w]] = Sentinel /\ Stay(w, "min", "line")

\* Mutant of Line: each line is written over the one before.
Line_Overwrites(w) ==
    /\ Goto(w, "line", "next")
    /\ html' = [html EXCEPT ![w] = <<<<node[w], data[node[w]]>>>>]
    /\ UNCHANGED <<tree, data, mutex, key, node, top, announced, body, asked, counted>>

Line(w) ==
    /\ Goto(w, "line", "next")
    /\ html' = [html EXCEPT ![w] = Append(@, <<node[w], data[node[w]]>>)]
    /\ UNCHANGED <<tree, data, mutex, key, node, top, announced, body, asked, counted>>

\* ngx_rbtree_next: the least node on the right, or the first ancestor that has
\* this one on its left, or, at the root, none.
NextRight(w) == pc[w] = "next" /\ right[node[w]] # Sentinel /\ Follow(w, "next", "min", right[node[w]])

\* tree->root is read once, before the way up.
NextUp(w) ==
    /\ Goto(w, "next", "up")
    /\ right[node[w]] = Sentinel
    /\ top' = [top EXCEPT ![w] = root]
    /\ UNCHANGED <<tree, data, mutex, key, node, response, asked, counted>>

UpEnd(w) ==
    /\ Goto(w, "up", "send")
    /\ node[w] = top[w]
    /\ top' = [top EXCEPT ![w] = Null]
    /\ UNCHANGED <<tree, data, mutex, key, node, response, asked, counted>>

Up(w) ==
    LET p == parent[node[w]]
    IN  /\ pc[w] = "up" /\ node[w] # top[w]
        /\ Follow(w, "up", IF p \in Key /\ left[p] = node[w] THEN "line" ELSE "up", p)

-----------------------------------------------------------------------------
(* The end of ngx_http_pagecount_handler, and nginx after it *)

\* Sends the header, without a length, and the page; a slow client takes a part.
Send(w) ==
    /\ Goto(w, "send", "idle")
    /\ announced' = [announced EXCEPT ![w] = ngx_http_mxl_header_filter(NGX_HTTP_OK, Unknown)]
    /\ \E page \in {"page"} \cup (IF key[w] \in Slow THEN {"part"} ELSE {}) :
          body' = [body EXCEPT ![w] = ngx_http_mxl_body_filter(<<page>>)]
    /\ UNCHANGED <<tree, data, mutex, key, node, top, html, asked, counted>>

\* The client can take more: nginx sends the rest of the page, which is what
\* now lies on the stack where the handler had it.
Writer(w) ==
    /\ pc[w] = "idle" /\ body[w] # <<>> /\ body[w][Len(body[w])] = "part"
    /\ \E rest \in {"rest", "junk"} :
          body' = [body EXCEPT ![w] = @ \o <<rest>> \o ngx_http_mxl_body_filter(<<>>)]
    /\ UNCHANGED <<tree, data, mutex, pc, key, node, top, html, announced, asked, counted>>

\* nginx replaces a worker that died.
Respawn(w) == Stay(w, "dead", "idle")

-----------------------------------------------------------------------------
Update(w) ==
    \/ Lock(w) \/ Found(w) \/ NoMemory(w) \/ InsertRoot(w) \/ Insert(w)
    \/ InsertParent(w) \/ InsertLeft(w) \/ InsertRight(w)
    \/ NoRotation(w) \/ Rotation(w) \/ Unlock(w)

Render(w) ==
    \/ ReadRoot(w) \/ GoLeft(w) \/ Least(w) \/ Line(w)
    \/ NextRight(w) \/ NextUp(w) \/ UpEnd(w) \/ Up(w)

Handler(w) == Update(w) \/ Render(w) \/ Send(w)

Next == \E w \in Worker : Handler(w) \/ Writer(w) \/ Respawn(w) \/ \E k \in Key : Request(w, k)

Spec == Init /\ [][Next]_vars

\* Every worker that can run does.
FairSpec == Spec /\ \A w \in Worker : WF_vars(Handler(w))

-----------------------------------------------------------------------------
(* Properties *)

\* Between the lock and the unlock of the mutex; and where ngx_encode_http_page_rb
\* reads a node.
Updating  == {"lookup", "parent", "left", "right", "balance", "again", "unlock"}
Rendering == {"min", "line", "next", "up"}

TypeOK ==
    /\ root \in Key \cup {Sentinel}
    /\ left \in [Key -> Pointer] /\ right \in [Key -> Pointer] /\ parent \in [Key -> Pointer]
    /\ data \in [Key -> 0..(CountMod - 1)]
    /\ mutex \in Worker \cup {NoWorker}
    /\ pc \in [Worker -> {"idle", "lock", "root", "send", "dead"} \cup Updating \cup Rendering]
    /\ key \in [Worker -> Key \cup {Null}]
    /\ node \in [Worker -> Pointer] /\ top \in [Worker -> Pointer]
    /\ html \in [Worker -> Seq(Key \X (0..(CountMod - 1)))]
    /\ announced \in [Worker -> Int]
    /\ body \in [Worker -> Seq({"prefix", "page", "part", "rest", "junk"})]
    /\ asked \in 0..MaxRequests
    /\ counted \in [Key -> Nat]

\* Whenever the mutex is free, the tree leads to the node of every client that
\* was counted and holds its count, up to the width of data, whatever workers
\* counted at the same time.
CountsExact ==
    mutex = NoWorker =>
        \A k \in Counted : k \in Way(k) /\ data[k] = counted[k] % CountMod

\* Whenever the mutex is free, the nodes are linked both ways and no pointer is
\* NULL but the parent of the root (ngx_rbtree_next follows them upwards).
LinkedBothWays ==
    mutex = NoWorker =>
        \A k \in Counted :
            /\ \A child \in {left[k], right[k]} :
                  child # Sentinel => child \in Counted /\ parent[child] = k
            /\ k # root => parent[k] \in Counted /\ k \in {left[parent[k]], right[parent[k]]}

\* While only one worker serves, a page has a line for every counted client, in
\* the order of the addresses, with its count (ngx_encode_http_page_rb); it is sent
\* behind one prefix, whole if the client is not slow, and no client is told to
\* expect more than it gets.
PageExact ==
    \A w \in Worker :
      (pc[w] = "idle" /\ html[w] # <<>> /\ \A v \in Worker \ {w} : key[v] = Null) =>
        /\ Len(html[w]) = Cardinality(Counted)
        /\ \A j \in 1..Len(html[w]) :
              /\ html[w][j][1] \in Counted /\ html[w][j][2] = data[html[w][j][1]]
              /\ j > 1 => html[w][j - 1][1] < html[w][j][1]
        /\ key[w] \notin Slow => body[w] = <<"prefix", "page">>
        /\ announced[w] <= PrefixLen * Cardinality({j \in 1..Len(body[w]) : body[w][j] = "prefix"})

\* Every request ends, and no worker waits for the mutex for ever.
EventuallyServed == \A w \in Worker : pc[w] = "lock" ~> pc[w] \in {"idle", "dead"}

\* A request is answered with a page (comment of the handler at 281).
NoWorkerDies == \A w \in Worker : pc[w] # "dead"
=============================================================================
