----------------------------- MODULE CoreDecomp -----------------------------
(***************************************************************************)
(* Core decomposition (decomposition.h, class decomposition): the          *)
(* constructor sorts the vertices by degree, and BZ_Decomp peels them in   *)
(* that order.  Lowering the degree of a neighbour exchanges it with the   *)
(* first vertex of its bucket and moves the boundary of the bucket, so     *)
(* that the order stays sorted.  Arrays start at 0, as in the code.        *)
(***************************************************************************)
EXTENDS Integers, Sequences, FiniteSets, Functions

CONSTANTS
  N,           \* ntotal_
  Graphs,      \* the adjacency lists considered
  DegreeRange  \* the number of values of CDEGREE (uint16_t)

Vertex == 0 .. N - 1

(* The progress report of BZ_Decomp divides by ntotal_ / 10: the program   *)
(* does not survive fewer than ten vertices.                               *)
ASSUME CoreAssumption ==
  /\ N \in Nat /\ N >= 10
  /\ DegreeRange \in Nat \ {0}
  /\ Graphs \subseteq [Vertex -> Seq(Vertex)]

(* Lists without repetition that mention each other, short enough for the  *)
(* width of a degree: what a graph read from a file without repeated lines *)
(* has.                                                                    *)
Simple ==
  \A g \in Graphs : \A v \in Vertex :
    /\ Len(g[v]) < DegreeRange
    /\ \A m, n \in DOMAIN g[v] : g[v][m] = g[v][n] => m = n
    /\ \A u \in Range(g[v]) : v \in Range(g[u])

Lengths(adj) == {Len(adj[v]) : v \in Vertex}
MaxDeg(adj) == CHOOSE d \in Lengths(adj) : \A e \in Lengths(adj) : e <= d

VARIABLES
  ori_adj,   \* the graph
  deg,       \* the degree left to each vertex, in the end its coreness
  vert,      \* the vertices by increasing degree
  pos,       \* where each vertex is in vert
  bin,       \* where the vertices of each degree begin in vert
  at,        \* the vertex that is being peeled is vert[at]
  nth,       \* which of its neighbours is looked at next
  core_list

vars == <<ori_adj, deg, vert, pos, bin, at, nth, core_list>>

(* The vertices that come before v in vert.                                *)
Before(d, v) == {u \in Vertex : d[u] < d[v] \/ (d[u] = d[v] /\ u < v)}

BucketStart(d, e) == Cardinality({v \in Vertex : d[v] < e})

Init ==
  /\ ori_adj \in Graphs
  /\ deg = [v \in Vertex |-> Len(ori_adj[v]) % DegreeRange]
  /\ pos = [v \in Vertex |-> Cardinality(Before(deg, v))]
  /\ vert = [p \in Vertex |-> CHOOSE v \in Vertex : pos[v] = p]
  /\ bin = [d \in 0 .. MaxDeg(ori_adj) |-> BucketStart(deg, d)]
  /\ at = 0 /\ nth = 1
  /\ core_list = [v \in Vertex |-> -1]

Peeling == at < N
Neighbour == ori_adj[vert[at]][nth]

\* Mutant: the last neighbour is left out.
HasNextEarly == nth < Len(ori_adj[vert[at]])
HasNext == nth <= Len(ori_adj[vert[at]])

\* Mutant: >= for > .
LowersEqual(u) == deg[u] >= deg[vert[at]]
Lowers(u) == deg[u] > deg[vert[at]]

\* Mutant: the boundary of the bucket is not moved.
BoundaryKept(d) == bin
Boundary(d) == [bin EXCEPT ![d] = @ + 1]

Exchanged(u, w) == [pos EXCEPT ![u] = pos[w], ![w] = pos[u]]

(* u goes to the front of its bucket, and from there to the one below.     *)
Lower ==
  /\ Peeling /\ HasNext
  /\ Lowers(Neighbour)
  /\ LET u == Neighbour
         w == vert[bin[deg[u]]]
     IN  /\ pos' = Exchanged(u, w)
         /\ vert' = [vert EXCEPT ![pos[u]] = w, ![bin[deg[u]]] = u]
         /\ bin' = Boundary(deg[u])
         /\ deg' = [deg EXCEPT ![u] = @ - 1]
  /\ nth' = nth + 1
  /\ UNCHANGED <<ori_adj, at, core_list>>

Pass ==
  /\ Peeling /\ HasNext
  /\ ~Lowers(Neighbour)
  /\ nth' = nth + 1
  /\ UNCHANGED <<ori_adj, deg, vert, pos, bin, at, core_list>>

\* Mutant: the lists start at 0 as the arrays do.
RestartAtZero == 0
Restart == 1

Following == at + 1

NextVertex ==
  /\ Peeling /\ ~HasNext
  /\ at' = Following
  /\ nth' = Restart
  /\ UNCHANGED <<ori_adj, deg, vert, pos, bin, core_list>>

Unset == \A v \in Vertex : core_list[v] = -1

Finish ==
  /\ ~Peeling /\ Unset
  /\ core_list' = deg
  /\ UNCHANGED <<ori_adj, deg, vert, pos, bin, at, nth>>

Returned == ~Peeling /\ ~Unset
Terminated == Returned /\ UNCHANGED vars

Next == Lower \/ Pass \/ NextVertex \/ Finish \/ Terminated

Spec == Init /\ [][Next]_vars /\ WF_vars(Next)
-----------------------------------------------------------------------------
TypeOK ==
  /\ ori_adj \in [Vertex -> Seq(Vertex)]
  /\ deg \in [Vertex -> Nat]
  /\ vert \in [Vertex -> Vertex] /\ pos \in [Vertex -> Vertex]
  /\ bin \in [0 .. MaxDeg(ori_adj) -> 0 .. N]
  /\ at \in 0 .. N /\ nth \in Nat \ {0}
  /\ core_list \in [Vertex -> Nat \cup {-1}]

(* pos says where each vertex is, through every exchange.                  *)
PlacesAgree ==
  /\ \A v \in Vertex : vert[pos[v]] = v
  /\ \A p \in Vertex : pos[vert[p]] = p

(* The bucket of every degree above that of the vertex being peeled begins *)
(* where bin says: the exchange never leaves the arrays, and never takes a *)
(* vertex of another degree.                                               *)
BucketsInPlace ==
  Peeling =>
    \A d \in DOMAIN bin : d > deg[vert[at]] =>
      \A p \in Vertex : p >= bin[d] <=> deg[vert[p]] >= d

(* Vertices are peeled by increasing degree, although degrees fall all the *)
(* time.                                                                   *)
PeeledInOrder ==
  \A p, q \in Vertex : p <= at /\ p <= q => deg[vert[p]] <= deg[vert[q]]

(* The decomposition takes vertices away as Peeling does: one by one,      *)
(* always one with the fewest neighbours among those left, though the      *)
(* degrees it compares are lowered late or not at all.  A peeled vertex    *)
(* keeps its place and its degree.  Stated for lists without repetition.   *)
Peeled(v) == pos[v] < at
Abstract ==
  INSTANCE Peeling WITH
    adj <- [v \in Vertex |-> Range(ori_adj[v])],
    left <- {v \in Vertex : ~Peeled(v)},
    level <- IF at = 0 THEN 0 ELSE deg[vert[at - 1]],
    coreness <- [v \in Vertex |-> IF Peeled(v) THEN deg[v] ELSE -1]
Peels == Abstract!Spec

(* The result is the coreness of every vertex: those of coreness c or more *)
(* are the largest set in which each has c neighbours or more.             *)
Core(c) == {v \in Vertex : core_list[v] >= c}
Exact ==
  Returned =>
    \A c \in DOMAIN bin :
      /\ Abstract!Dense(Core(c), c)
      /\ \A S \in SUBSET Vertex : Abstract!Dense(S, c) => S \subseteq Core(c)
=============================================================================
