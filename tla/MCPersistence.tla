--------------------------- MODULE MCPersistence ----------------------------
(* Graphs of five vertices: a triangle, and every set of three edges from  *)
(* and between the two others; the whole of each, a part that holds the    *)
(* first vertices, and one that does not.                                  *)
EXTENDS Persistence, TLC

Fixed == {{0, 2}, {2, 4}, {0, 4}}
Pairs == {{1, 2}, {1, 3}, {3, 4}}
Parts == {Vertex, 0 .. 3, {0, 2, 3, 4}}

Lists(edges, part) ==
  [v \in Vertex |-> {u \in Vertex : u # v /\ {u, v} \in edges /\ {u, v} \subseteq part}]

(* The k-core: vertices with few neighbours are removed until none is left.*)
KCore(adj, k) ==
  LET left[n \in 0 .. N] ==
        IF n = 0 THEN Vertex
        ELSE LET S == left[n - 1]
             IN  {v \in S : Cardinality(adj[v] \cap S) >= k}
  IN  left[N]
Coreness(adj) ==
  [v \in Vertex |->
     CHOOSE k \in 0 .. N : v \in KCore(adj, k) /\ v \notin KCore(adj, k + 1)]

Ids == <<10, 11, 12, 13, 14>>

MCInputs ==
  {[adj |-> Lists(Fixed \cup E, Vertex), valid |-> part, ori |-> Ids,
    core |-> Coreness(Lists(Fixed \cup E, part))] : E \in SUBSET Pairs, part \in Parts}

\* A graph with one more vertex, one whose last vertices are others, and one
\* with the same vertices and other edges.
MCForeign ==
  {[adj |-> Lists(Pairs, Vertex), valid |-> Vertex, ori |-> Append(Ids, 15)],
   [adj |-> Lists(Fixed \cup {{1, 2}, {1, 3}}, Vertex), valid |-> Vertex,
    ori |-> <<10, 11, 12, 14, 15>>],
   [adj |-> Lists(Fixed \cup Pairs, Vertex), valid |-> Vertex, ori |-> Ids]}

\* A vertex of the graph, and one that is not.
MCLeftover ==
  {[id |-> 3, ori |-> 13, size |-> 1, nei |-> 2], [id |-> 7, ori |-> 0, size |-> 0, nei |-> 2]}

\* The members of the triangle are far from the centre when they are alone.
MCAttr == [v \in Vertex |-> IF v % 2 = 0 THEN 12 + v \div 2 ELSE 4]

\* Vertex 3, then the triangle, then vertex 1, as many as there is room for:
\* the lists of the triangle are full of links of its layer if 3 is not there.
MCChosen(v, fit, seen) ==
  LET next == SelectSeq(<<3, 0, 2, 4, 1>>, LAMBDA u : u \in fit)
      room == IF Cardinality(seen) < Degree THEN Degree - Cardinality(seen) ELSE 0
  IN  SubSeq(next, 1, IF Len(next) < room THEN Len(next) ELSE room)

Threads == Permutations(Thread)
=============================================================================
