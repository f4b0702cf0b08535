----------------------------- MODULE LayerBuild -----------------------------
(***************************************************************************)
(* Construction of one layer of the index (chci.h, build_1st_layer_comp    *)
(* with NSW_Init_Roreder_Ver, and build_one_layer_comp): OpenMP threads    *)
(* insert the vertices of the layer into one shared proximity graph.  Each *)
(* insertion searches the graph as it is (Search_Neighbors_Build), selects *)
(* neighbours (Robust_Prune_Build) and offers the vertex to each of them   *)
(* (Make_Edge_uncomp, Make_Edge_comp).  link_list_locks has one mutex per  *)
(* vertex; a step is what runs under one acquisition of one mutex, or one  *)
(* access made without it.  enter_pt is shared by all iterations of the    *)
(* later loops, without a mutex.                                           *)
(***************************************************************************)
EXTENDS Integers, Sequences, FiniteSets

CONSTANTS
  Node,      \* the vertices of the layer
  Degree,    \* max_degree (every deg_list entry has this value)
  QueueLen,  \* build_queue_length
  Dist,      \* Dist[q][v]: Cal_Dist(q, v), which is not Cal_Dist(v, q)
  Entry,     \* sp_l_list: the entry vertex of each vertex's component
  Start,     \* the locked lists taken over from the lower layers
  Passes,    \* the parallel loops over the layer, see below
  Thread, NoThread, NoNode

(* A pass visits the vertices in some order; hold says that it links with  *)
(* Make_Edge_uncomp, which keeps the vertex's own lock; <<v, j, c, d>> in  *)
(* blocks says that neighbour j of v occludes a candidate c that is a      *)
(* candidate at distance d (alpha, beta).                                  *)
ASSUME LayerAssumption ==
  /\ IsFiniteSet(Node)
  /\ Degree \in Nat \ {0} /\ QueueLen \in Nat \ {0}
  /\ Dist \in [Node -> [Node -> Nat]]
  /\ \A q, u, v \in Node :
       Dist[q][u] = Dist[q][v] \/ Dist[q][u] = Dist[v][q] => u = v
  /\ Entry \in [Node -> Node] /\ \A v \in Node : Entry[Entry[v]] = Entry[v]
  /\ Start \in [Node -> Seq(Node)]
  /\ Passes \in Seq([order : Seq(Node), hold : BOOLEAN,
                     blocks : SUBSET (Node \X Node \X Node \X Nat)])
  /\ \A k \in DOMAIN Passes :
       \A i \in DOMAIN Passes[k].order :
         \A j \in DOMAIN Passes[k].order :
           Passes[k].order[i] = Passes[k].order[j] => i = j
  /\ Thread # {} /\ NoThread \notin Thread /\ NoNode \notin Node

Elems(s) == {s[i] : i \in DOMAIN s}

IsWellFormed(v, list) ==
  \A k \in DOMAIN list :
    list[k] # v /\ \A l \in DOMAIN list : list[k] = list[l] => k = l

SameComponent(u, v) == Entry[u] = Entry[v]

(* The lists Init_m_Core_Graph hands over: short enough, no loop, no       *)
(* duplicate, inside the component.                                        *)
ASSUME StartAssumption ==
  \A v \in Node :
    /\ IsWellFormed(v, Start[v]) /\ Len(Start[v]) <= Degree
    /\ \A u \in Elems(Start[v]) : SameComponent(u, v)

\* Mutant: Robust_Prune_Build is handed locked_nums = 0.
NothingLocked(v) == 0
Locked(v) == Len(Start[v])

-----------------------------------------------------------------------------
(* Robust_Prune_Build.  The candidates are taken by increasing distance    *)
(* until the list is full; one that a kept neighbour occludes goes to      *)
(* recycleBin, which fills the space left over, closest first.  d gives    *)
(* the distances the candidates have in the heap.                          *)
Distances ==
  {d \in [Node -> Nat] : \A u, c \in Node : d[u] = d[c] => u = c}

Nearer(d, u, c) == d[u] < d[c]

Ranked(d, S) ==
  {s \in [1 .. Cardinality(S) -> S] :
     \A i, j \in DOMAIN s : i < j => Nearer(d, s[i], s[j])}

IsGood(G, v, d, keep, pool, blocks) ==
  \A c \in pool :
    c \in G <=>
      LET before == {g \in G : Nearer(d, g, c)}
      IN  /\ Len(keep) + Cardinality(before) < Degree
          /\ \A j \in Elems(keep) \cup before : <<v, j, c, d[c]>> \notin blocks

IsRecycled(R, d, bin, space) ==
  \A c \in bin : c \in R <=> Cardinality({b \in bin : Nearer(d, b, c)}) < space

(* The distances of v's neighbours and of a vertex c that is offered to v: *)
(* Make_Edge computes Cal_Dist(c, v), the others are Cal_Dist(v, .).  If   *)
(* c is a neighbour by now, the closer of its two entries counts.          *)
Offered(v, c, list) ==
  IF c \in Elems(list) /\ Dist[v][c] < Dist[c][v]
  THEN Dist[v] ELSE [Dist[v] EXCEPT ![c] = Dist[c][v]]

\* Mutant: the neighbours the vertex already has are no candidates.
PoolOfNew(v, list, cands) ==
  cands \ ({v} \cup Elems(SubSeq(list, 1, Locked(v))))
\* Mutant: visited does not start with the locked neighbours.
PoolWithLocked(v, list, cands) == (cands \cup Elems(list)) \ {v}
(* Candidates and current neighbours, without the vertex and its locked    *)
(* neighbours.                                                             *)
Pool(v, list, cands) ==
  (cands \cup Elems(list)) \ ({v} \cup Elems(SubSeq(list, 1, Locked(v))))

(* The possible results for v (one, distances being distinct).             *)
Pruned(v, d, list, cands, blocks) ==
  LET keep == SubSeq(list, 1, Locked(v))
      pool == Pool(v, list, cands)
      good == {G \in SUBSET pool : IsGood(G, v, d, keep, pool, blocks)}
      recycled(G) ==
        {R \in SUBSET (pool \ G) :
           IsRecycled(R, d, pool \ G, Degree - Len(keep) - Cardinality(G))}
      lists(G, R) == {keep \o p[1] \o p[2] : p \in Ranked(d, G) \X Ranked(d, R)}
  IN  UNION {UNION {lists(G, R) : R \in recycled(G)} : G \in good}

-----------------------------------------------------------------------------
VARIABLES
  adj,     \* cur_layer_adj: the neighbours of each vertex, in order
  lock,    \* link_list_locks: the holder of each vertex's mutex
  pass,    \* the parallel loop that is running
  next,    \* its next iteration to hand out
  pc,      \* where each thread is
  cur,     \* the vertex each thread inserts (cnns_id)
  enter_pt,  \* the shared variable of the loops that do not hold
  result,  \* resultset: the closest vertices its search has seen
  cand,    \* neighbor_candi: the vertices its search has expanded
  index,   \* the index of the link it makes next
  target,  \* cur_neighbor_id: the vertex of that link
  fill     \* the list Robust_Prune_Build is writing

vars == <<adj, lock, pass, next, pc, cur, enter_pt, result, cand, index, target,
          fill>>

Free(v) == lock[v] = NoThread
Done == pass > Len(Passes)
This == Passes[pass]

Init ==
  /\ adj = Start
  /\ lock = [v \in Node |-> NoThread]
  /\ pass = 1 /\ next = 1
  /\ pc = [t \in Thread |-> "idle"]
  /\ enter_pt = NoNode
  /\ cur = [t \in Thread |-> NoNode] /\ target = [t \in Thread |-> NoNode]
  /\ result = [t \in Thread |-> {}] /\ cand = [t \in Thread |-> {}]
  /\ index = [t \in Thread |-> 1]
  /\ fill = [t \in Thread |-> <<>>]

-----------------------------------------------------------------------------
(* schedule(dynamic): an idle thread takes the next iteration.             *)
Take(t) ==
  /\ pc[t] = "idle" /\ ~Done
  /\ next <= Len(This.order)
  /\ next' = next + 1

\* Mutant: the search starts from the vertex itself.
EntryIsSelf(v) == v
\* Mutant: every search starts at Find_Enter_Pt(0, 0).
EntryOfFirst(v) == Entry[This.order[1]]
EntryOf(v) == Entry[v]

(* NSW_Init has a start of its own for the search; the other loops assign  *)
(* enter_pt, and read it again when they call Search_Neighbors_Build.      *)
Claim(t) ==
  /\ Take(t)
  /\ LET v == This.order[next]
     IN  /\ Locked(v) < Degree
         /\ cur' = [cur EXCEPT ![t] = v]
         /\ \/ /\ This.hold
               /\ result' = [result EXCEPT ![t] = {EntryOf(v)}]
               /\ pc' = [pc EXCEPT ![t] = "search"]
               /\ UNCHANGED enter_pt
            \/ /\ ~This.hold
               /\ enter_pt' = EntryOf(v)
               /\ pc' = [pc EXCEPT ![t] = "enter"]
               /\ UNCHANGED result
  /\ UNCHANGED <<adj, lock, pass, cand, index, target, fill>>

Enter(t) ==
  /\ pc[t] = "enter"
  /\ result' = [result EXCEPT ![t] = {enter_pt}]
  /\ pc' = [pc EXCEPT ![t] = "search"]
  /\ UNCHANGED <<adj, lock, pass, next, cur, enter_pt, cand, index, target, fill>>

(* if (cur_lock_num == max_degree) continue;                               *)
Skip(t) ==
  /\ Take(t)
  /\ Locked(This.order[next]) = Degree
  /\ UNCHANGED <<adj, lock, pass, pc, cur, enter_pt, result, cand, index, target, fill>>

(* Search_Neighbors_Build: expand the closest vertex of resultset that is  *)
(* not expanded yet, under its own mutex.                                  *)
Unexpanded(t) == result[t] \ cand[t]

Closest(q, S) ==
  {v \in S : Cardinality({u \in S : Nearer(Dist[q], u, v)}) < QueueLen}

\* Mutant: neighbor_candi does not receive the expanded vertex.
NotExpanded(t, u) == cand[t]
Expanded(t, u) == cand[t] \cup {u}

\* Mutant: the search reads lists without their mutexes.
ReadableAnytime(u) == TRUE
Readable(u) == Free(u)

Expand(t) ==
  /\ pc[t] = "search"
  /\ \E u \in Unexpanded(t) :
       /\ \A v \in Unexpanded(t) : ~Nearer(Dist[cur[t]], v, u)
       /\ Readable(u)
       /\ cand' = [cand EXCEPT ![t] = Expanded(t, u)]
       /\ result' =
            [result EXCEPT ![t] = Closest(cur[t], @ \cup Elems(adj[u]))]
  /\ UNCHANGED <<adj, lock, pass, next, pc, cur, enter_pt, index, target, fill>>

(* Robust_Prune_Build holds v's mutex from its first to its last line, and *)
(* rewrites the list in place.                                             *)
Rewrite(t, v, d, cands, at) ==
  /\ Free(v)
  /\ lock' = [lock EXCEPT ![v] = t]
  /\ \E s \in Pruned(v, d, adj[v], cands, This.blocks) :
       fill' = [fill EXCEPT ![t] = s]
  /\ pc' = [pc EXCEPT ![t] = at]
  /\ UNCHANGED <<adj, pass, next, cur, enter_pt, result, cand, index, target>>

Install(t, v) ==
  /\ adj' = [adj EXCEPT ![v] = fill[t]]
  /\ lock' = [lock EXCEPT ![v] = NoThread]
  /\ fill' = [fill EXCEPT ![t] = <<>>]

BeginPrune(t) ==
  /\ pc[t] = "search" /\ Unexpanded(t) = {}
  /\ Rewrite(t, cur[t], Dist[cur[t]], cand[t], "prune")

EndPrune(t) ==
  /\ pc[t] = "prune"
  /\ Install(t, cur[t])
  /\ pc' = [pc EXCEPT ![t] = IF This.hold THEN "own" ELSE "pick"]
  /\ result' = [result EXCEPT ![t] = {}]
  /\ cand' = [cand EXCEPT ![t] = {}]
  /\ UNCHANGED <<pass, next, cur, enter_pt, index, target>>

-----------------------------------------------------------------------------
(* Make_Edge_uncomp keeps the mutex of the inserted vertex while it links. *)
TakeOwn(t) ==
  /\ pc[t] = "own" /\ Free(cur[t])
  /\ lock' = [lock EXCEPT ![cur[t]] = t]
  /\ pc' = [pc EXCEPT ![t] = "pick"]
  /\ UNCHANGED <<adj, pass, next, cur, enter_pt, result, cand, index, target, fill>>

(* Make_Edge_comp reads the list of the inserted vertex without its mutex: *)
(* while another thread rewrites it, the size may be any that the list     *)
(* takes meanwhile, and an element old or new.                             *)
Site(t) == IF pc[t] = "prune" THEN cur[t] ELSE target[t]
Writers(v) == {t \in Thread : pc[t] \in {"prune", "offering"} /\ Site(t) = v}
Sizes(v) ==
  {Len(adj[v])} \cup UNION {Locked(v) .. Len(fill[t]) : t \in Writers(v)}
Slots(v, k) ==
  {s[k] : s \in {x \in {adj[v]} \cup {fill[t] : t \in Writers(v)} : k <= Len(x)}}

\* Mutant: the last neighbour is not linked.
PastEndEarly(k, size) == k >= size
PastEnd(k, size) == k > size

Pick(t) ==
  /\ pc[t] = "pick"
  /\ \E size \in Sizes(cur[t]) : ~PastEnd(index[t], size)
  /\ \E u \in Slots(cur[t], index[t]) : target' = [target EXCEPT ![t] = u]
  /\ pc' = [pc EXCEPT ![t] = "link"]
  /\ UNCHANGED <<adj, lock, pass, next, cur, enter_pt, result, cand, index, fill>>

Leave(t) ==
  /\ pc[t] = "pick"
  /\ \E size \in Sizes(cur[t]) : PastEnd(index[t], size)
  /\ lock' = [v \in Node |-> IF lock[v] = t THEN NoThread ELSE lock[v]]
  /\ pc' = [pc EXCEPT ![t] = "idle"]
  /\ cur' = [cur EXCEPT ![t] = NoNode]
  /\ index' = [index EXCEPT ![t] = 1]
  /\ UNCHANGED <<adj, pass, next, enter_pt, result, cand, target, fill>>

NextLink(t) ==
  /\ pc' = [pc EXCEPT ![t] = "pick"]
  /\ target' = [target EXCEPT ![t] = NoNode]
  /\ index' = [index EXCEPT ![t] = @ + 1]

HasRoom(list) == Len(list) < Degree

IsDuplicate(v, list) == v \in Elems(list)

LinkKnown(t) ==
  /\ pc[t] = "link" /\ Free(target[t])
  /\ IsDuplicate(cur[t], adj[target[t]])
  /\ NextLink(t)
  /\ UNCHANGED <<adj, lock, pass, next, cur, enter_pt, result, cand, fill>>

LinkBack(t) ==
  /\ pc[t] = "link" /\ Free(target[t])
  /\ ~IsDuplicate(cur[t], adj[target[t]])
  /\ HasRoom(adj[target[t]])
  /\ adj' = [adj EXCEPT ![target[t]] = Append(@, cur[t])]
  /\ NextLink(t)
  /\ UNCHANGED <<lock, pass, next, cur, enter_pt, result, cand, fill>>

(* The list is full: lk.unlock(), and Robust_Prune_Build takes the mutex   *)
(* again.                                                                  *)
Full(t) ==
  /\ pc[t] = "link" /\ Free(target[t])
  /\ ~IsDuplicate(cur[t], adj[target[t]])
  /\ ~HasRoom(adj[target[t]])
  /\ pc' = [pc EXCEPT ![t] = "offer"]
  /\ UNCHANGED <<adj, lock, pass, next, cur, enter_pt, result, cand, index, target, fill>>

BeginOffer(t) ==
  /\ pc[t] = "offer"
  /\ Rewrite(t, target[t], Offered(target[t], cur[t], adj[target[t]]),
             {cur[t]}, "offering")

EndOffer(t) ==
  /\ pc[t] = "offering"
  /\ Install(t, target[t])
  /\ NextLink(t)
  /\ UNCHANGED <<pass, next, cur, enter_pt, result, cand>>

(* The barrier at the end of a parallel loop.                              *)
NextPass ==
  /\ ~Done
  /\ \A t \in Thread : pc[t] = "idle"
  /\ next > Len(This.order)
  /\ pass' = pass + 1 /\ next' = 1
  /\ UNCHANGED <<adj, lock, pc, cur, enter_pt, result, cand, index, target, fill>>

Insert(t) ==
  \/ Claim(t) \/ Skip(t) \/ Enter(t) \/ Expand(t) \/ BeginPrune(t) \/ EndPrune(t)
  \/ TakeOwn(t) \/ Pick(t) \/ Leave(t)
  \/ LinkKnown(t) \/ LinkBack(t) \/ Full(t) \/ BeginOffer(t) \/ EndOffer(t)

Terminated == Done /\ UNCHANGED vars

Next == (\E t \in Thread : Insert(t)) \/ NextPass \/ Terminated

Spec == Init /\ [][Next]_vars
             /\ \A t \in Thread : WF_vars(Insert(t))
             /\ WF_vars(NextPass)
-----------------------------------------------------------------------------
TypeOK ==
  /\ adj \in [Node -> Seq(Node)]
  /\ lock \in [Node -> Thread \cup {NoThread}]
  /\ pass \in 1 .. Len(Passes) + 1
  /\ next \in Nat \ {0}
  /\ pc \in [Thread -> {"idle", "enter", "search", "prune", "own", "pick", "link",
                        "offer", "offering"}]
  /\ cur \in [Thread -> Node \cup {NoNode}]
  /\ enter_pt \in Node \cup {NoNode}
  /\ target \in [Thread -> Node \cup {NoNode}]
  /\ result \in [Thread -> SUBSET Node] /\ cand \in [Thread -> SUBSET Node]
  /\ index \in [Thread -> Nat \ {0}]
  /\ fill \in [Thread -> Seq(Node)]

(* A list never holds its own vertex or a vertex twice, whatever the       *)
(* threads insert at the same time: isDuplicate looks under one            *)
(* acquisition of the mutex and Robust_Prune_Build writes under a later    *)
(* one.                                                                    *)
WellFormedLists == \A v \in Node : IsWellFormed(v, adj[v])

(* A list never holds a vertex of another component of the core.  It holds *)
(* where OwnEntryPoint does; elsewhere a thread may start its search in    *)
(* the component of the vertex another thread has just taken.              *)
ListsInComponent ==
  \A v \in Node : \A u \in Elems(adj[v]) : SameComponent(u, v)

(* A search starts where its own iteration has assigned: every loop has a  *)
(* start of its own, or there is one component, or one thread.             *)
OwnEntryPoint ==
  \/ \A k \in DOMAIN Passes : Passes[k].hold
  \/ \A u, v \in Node : SameComponent(u, v)
  \/ \A t, u \in Thread : t = u

(* The exception "link size is > Degree" of Search_Neighbors_Build is      *)
(* never thrown.                                                           *)
DegreeBound == \A v \in Node : Len(adj[v]) <= Degree

(* The neighbours taken over from the lower layers stay at the front of    *)
(* the list: build_one_layer_comp saves only what follows them.            *)
LockedKept == \A v \in Node : SubSeq(adj[v], 1, Len(Start[v])) = Start[v]

(* Rewriting a list may exchange its neighbours but never leaves fewer.    *)
NoneLoses == [][\A v \in Node : Len(adj'[v]) >= Len(adj[v])]_vars

(* The loop that appends to hier_adj what follows the locked neighbours.   *)
Saved(v) == SubSeq(adj[v], Len(Start[v]) + 1, Len(adj[v]))

(* The layer in the terms of HierIndex: locked holds the lists it starts   *)
(* from, and links may stray where OwnEntryPoint fails.                    *)
Hier == INSTANCE HierIndex WITH
  Tracked <- Node, MaxLayer <- 0, Core <- [v \in Node |-> 0],
  Compo <- [v \in Node |-> [k \in {0} |-> Entry[v]]], Strays <- ~OwnEntryPoint,
  hier_adj <- adj, layer <- 0, locked <- [v \in Node |-> Elems(Start[v])],
  todo <- {}, built <- <<>>

(* A layer keeps the promise on which HierIndex builds the hierarchy: its  *)
(* lists extend the locked ones within max_degree, and the save loop,      *)
(* which skips a fixed number of entries, appends all they add and         *)
(* nothing twice.                                                          *)
ServesHierarchy ==
  \A v \in Node :
    /\ Elems(adj[v]) \in Hier!Extensions(v)
    /\ Saved(v) \in Hier!Orders(Hier!Added(v, Elems(adj[v])))

(* The first layer: nothing is taken over from below it, and the first     *)
(* loop links with Make_Edge_uncomp and visits every vertex.               *)
FirstLayer ==
  /\ \A v \in Node : Start[v] = <<>>
  /\ Passes # <<>> /\ Passes[1].hold
  /\ \A v \in Node : v \in Elems(Passes[1].order)

(* The loops of the program: only the first one of the first layer holds.  *)
OnlyFirstHolds == \A k \in DOMAIN Passes : Passes[k].hold => k = 1 /\ FirstLayer

(* When the layer is built, a vertex that is not alone in its component    *)
(* has a neighbour.                                                        *)
EveryVertexLinked ==
  Done => \A v \in Node :
            (\E u \in Node \ {v} : SameComponent(u, v)) => adj[v] # <<>>

(* Every loop keeps the mutex of the vertex it links, and what the layers  *)
(* below have left points back, or leads to a full list.                   *)
HeldLoops ==
  /\ \A k \in DOMAIN Passes : Passes[k].hold
  /\ \A v \in Node : \A u \in Elems(Start[v]) :
       v \in Elems(Start[u]) \/ Len(Start[u]) = Degree

(* When the layer is built, a neighbour that does not point back has a     *)
(* full list: the links made by Make_Edge are never forgotten.             *)
ReciprocalUnlessFull ==
  Done => \A v \in Node : \A u \in Elems(adj[v]) :
            v \in Elems(adj[u]) \/ Len(adj[u]) = Degree

(* The vertex whose mutex the next step of a thread takes, and the thread  *)
(* that has it.                                                            *)
Wants(t, v) ==
  \/ /\ pc[t] = "search" /\ v \in Unexpanded(t)
     /\ \A u \in Unexpanded(t) : ~Nearer(Dist[cur[t]], u, v)
  \/ pc[t] = "search" /\ Unexpanded(t) = {} /\ v = cur[t]
  \/ pc[t] = "own" /\ v = cur[t]
  \/ pc[t] \in {"link", "offer"} /\ v = target[t]

WaitsFor(t, u) == \E v \in Node : Wants(t, v) /\ lock[v] = u

(* Of any threads, one does not wait for any of them, itself included:     *)
(* Make_Edge_uncomp takes the mutexes of the neighbours while it holds     *)
(* that of its vertex, in no order, and Robust_Prune_Build takes the       *)
(* neighbour's again.  It holds in the loops of the program (see           *)
(* OnlyFirstHolds); in a second loop of Make_Edge_uncomp over a layer, two *)
(* threads could wait for each other.                                      *)
NoCircularWait ==
  \A S \in SUBSET Thread :
    S # {} => \E t \in S : \A u \in S : ~WaitsFor(t, u)

(* Every loop ends: no insertion waits for ever for a mutex, although      *)
(* Make_Edge_uncomp takes a second one while it holds the first, and none  *)
(* runs for ever on a list that others extend.                             *)
Termination == <>Done
=============================================================================
