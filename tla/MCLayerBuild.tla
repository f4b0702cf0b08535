---------------------------- MODULE MCLayerBuild ----------------------------
(* Layers of up to five vertices on a line, at positions whose distances   *)
(* from any of them differ.  As in the code, each vertex has a measure of  *)
(* its own: what is near for one of two vertices can be far for the other. *)
EXTENDS LayerBuild

CONSTANTS t1, t2, t3, Last

MCThreads == {t1, t2}
MCThreeThreads == {t1, t2, t3}

Abs(x) == IF x < 0 THEN -x ELSE x
Place == <<0, 1, 3, 7, 12>>
MCNode == 1 .. Last
Measure == <<3, 1, 2, 3, 1>>
MCDist == [q \in MCNode |-> [v \in MCNode |-> Measure[q] * Abs(Place[q] - Place[v])]]

\* Two components: {1, 2, 3} and {4, 5}.
MCEntrySplit == [v \in MCNode |-> IF v <= 3 THEN 2 ELSE 4]

\* Vertex 5 is alone; the lists of the others can fill up.
MCEntryNsw == [v \in MCNode |-> IF v <= 4 THEN 4 ELSE 5]

MCEmpty == [v \in MCNode |-> <<>>]
\* Vertex 1 keeps one neighbour of the layers below, vertex 2 is full.
MCLocked ==
  [v \in MCNode |-> CASE v = 1 -> <<2>> [] v = 2 -> <<3, 1>> [] OTHER -> <<>>]

Inserting == [k \in MCNode |-> IF k = 1 THEN Last ELSE k - 1]
Ascending == [k \in MCNode |-> k]

\* Neighbour j of v occludes c at distance d when alpha * Cal_Dist(c, j) < d.
Far == UNION {{MCDist[q][v] : v \in MCNode} : q \in MCNode}
Occludes(alpha) ==
  {b \in MCNode \X MCNode \X MCNode \X Far : alpha * MCDist[b[3]][b[2]] < b[4]}

Nsw == [order |-> Inserting, hold |-> TRUE, blocks |-> Occludes(1)]
Vamana(alpha) ==
  [order |-> Ascending, hold |-> FALSE, blocks |-> Occludes(alpha)]

MCNsw == <<Nsw>>
MCUpperLayer == <<Vamana(1)>>

(* What the theorems on linking and waiting assume of the loops.           *)
ASSUME LoopsAssumption ==
  /\ Passes = MCNsw => FirstLayer /\ HeldLoops
  /\ OnlyFirstHolds
=============================================================================
