------------------------------- MODULE Peeling -------------------------------
(***************************************************************************)
(* What a core decomposition promises: vertices are taken away one by one, *)
(* always one with the fewest neighbours left (or no more than were enough *)
(* before), and the coreness of each is the greatest such number so far.   *)
(* CoreDecomp implements it with arrays.                                   *)
(***************************************************************************)
EXTENDS Integers, FiniteSets

CONSTANT Vertex

VARIABLES
  adj,       \* the neighbours of each vertex
  left,      \* the vertices that are still there
  level,     \* the coreness of the last vertex taken away
  coreness   \* the coreness of the vertices taken away, -1 for those left

vars == <<adj, left, level, coreness>>

Within(v, S) == Cardinality(adj[v] \cap S)
AtLeast(m, n) == IF m >= n THEN m ELSE n

(* Every vertex of S has c neighbours or more in S.                        *)
Dense(S, c) == \A v \in S : Within(v, S) >= c

Init ==
  /\ adj \in [Vertex -> SUBSET Vertex]
  /\ \A u, v \in Vertex : u \in adj[v] => v \in adj[u]
  /\ left = Vertex /\ level = 0
  /\ coreness = [v \in Vertex |-> -1]

Peel(v) ==
  /\ v \in left
  /\ level' = AtLeast(level, Within(v, left))
  /\ \A u \in left : level' <= AtLeast(level, Within(u, left))
  /\ left' = left \ {v}
  /\ coreness' = [coreness EXCEPT ![v] = level']
  /\ UNCHANGED adj

Next == \E v \in Vertex : Peel(v)

Spec == Init /\ [][Next]_vars
-----------------------------------------------------------------------------
TypeOK ==
  /\ adj \in [Vertex -> SUBSET Vertex]
  /\ left \subseteq Vertex /\ level \in Nat
  /\ coreness \in [Vertex -> Nat \cup {-1}]
  /\ \A v \in Vertex : v \in left <=> coreness[v] = -1

(* The vertices of coreness c or more are, in the end, the largest set in  *)
(* which every vertex has c neighbours or more.                            *)
Core(c) == {v \in Vertex : coreness[v] >= c}
Exact ==
  left = {} =>
    /\ \A c \in Nat : Dense(Core(c), c)
    /\ \A c \in Nat : \A S \in SUBSET Vertex : Dense(S, c) => S \subseteq Core(c)
=============================================================================
