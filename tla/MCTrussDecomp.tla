--------------------------- MODULE MCTrussDecomp ---------------------------
(* Instances of TrussDecomp on the octahedron without the edge {0,3},      *)
(* where every estimate has to fall from 2 or 1 to 1, edge after edge.     *)
(* Edges are numbered as the constructor numbers them: by the smaller      *)
(* endpoint, then by the larger.                                           *)
EXTENDS TrussDecomp, TLC

MCNode == 0 .. 5
MCEdges == <<{0,2}, {0,4}, {0,5}, {1,3}, {1,4}, {1,5},
             {2,3}, {2,4}, {2,5}, {3,4}, {3,5}>>
MCEnds == [e \in 0 .. 10 |-> MCEdges[e + 1]]

\* The same with a pendant edge {5,6}, on no triangle, and an isolated vertex.
MCNodePendant == 0 .. 7
MCEndsPendant == [e \in 0 .. 11 |-> IF e = 11 THEN {5,6} ELSE MCEnds[e]]

MCSymmetry == Permutations(Thread)
=============================================================================
