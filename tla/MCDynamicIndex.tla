--------------------------- MODULE MCDynamicIndex ---------------------------
(* Seven indexed vertices, in four graphs: two triangles and a lone vertex; *)
(* two triangles joined through a vertex that is in lower layers only; and  *)
(* twice a 4-clique with weaker vertices.  Two vertices are added.          *)
EXTENDS DynamicIndex, TLC

MCVertex == 0 .. 8
MCPlace == <<0, 41, 12, 44, 25, 5, 35, 1, 27>>
Gap(a, b) == IF a < b THEN b - a ELSE a - b
\* Each vertex has a measure of its own, as the vertices of the code have.
MCMeasure == <<1, 1, 1, 1, 2, 3, 3, 2, 1>>
MCDist == [v \in MCVertex |->
             [w \in MCVertex |-> MCMeasure[v + 1] * Gap(MCPlace[v + 1], MCPlace[w + 1])]]

Base == 0 .. 6
Triangle(a, b, c) == {{a, b}, {a, c}, {b, c}}
Clique == {{0, 1}, {0, 2}, {0, 3}, {1, 2}, {1, 3}, {2, 3}}
Same == <<0, 0, 0, 0, 0, 0, 0>>
\* compo: for each layer, the component of each vertex that is in the layer.
Bases ==
  << [model |-> "core", edges |-> Triangle(1, 2, 3) \cup Triangle(4, 5, 6),
      core |-> <<0, 2, 2, 2, 2, 2, 2>>,
      compo |-> [k \in 0 .. 2 |-> IF k = 0 THEN <<0, 1, 1, 1, 2, 2, 2>>
                                           ELSE <<0, 0, 0, 0, 1, 1, 1>>]],
     [model |-> "truss",
      edges |-> Triangle(0, 1, 2) \cup Triangle(3, 4, 5) \cup {{2, 6}, {3, 6}},
      core |-> <<3, 3, 3, 3, 3, 3, 2>>,
      compo |-> [k \in 0 .. 3 |-> IF k = 3 THEN <<0, 0, 0, 1, 1, 1, 1>> ELSE Same]],
     [model |-> "core", edges |-> Clique \cup {{3, 4}, {4, 6}},
      core |-> <<3, 3, 3, 3, 1, 0, 1>>,
      compo |-> [k \in 0 .. 3 |-> <<0, 0, 0, 0, 0, 1, 0>>]],
     [model |-> "truss", edges |-> Clique \cup Triangle(3, 4, 5) \cup {{5, 6}},
      core |-> <<4, 4, 4, 4, 3, 3, 2>>, compo |-> [k \in 0 .. 4 |-> Same]] >>

Members(b, k) == {v \in Base : Bases[b].core[v + 1] >= k}
Layers(b) == DOMAIN Bases[b].compo
Compo(b) ==
  [v \in MCVertex |-> IF v \notin Base THEN <<>>
     ELSE [k \in 0 .. Bases[b].core[v + 1] |-> Bases[b].compo[k][v + 1]]]
Entry0(b) ==
  [k \in Layers(b) |->
     [c \in {Bases[b].compo[k][v + 1] : v \in Members(b, k)} |->
        MinOf({v \in Members(b, k) : Bases[b].compo[k][v + 1] = c})]]

\* The lists: layer after layer, with the closest vertices of the component up
\* to Degree (3), each tagged with the highest layer that both are in.
E(k, v) == [tag |-> k, id |-> v]
Lists ==
  << <<<<>>, <<E(2, 3), E(2, 2)>>, <<E(2, 1), E(2, 3)>>, <<E(2, 1), E(2, 2)>>,
       <<E(2, 6), E(2, 5)>>, <<E(2, 4), E(2, 6)>>, <<E(2, 4), E(2, 5)>>>>,
     <<<<E(2, 5), E(3, 2), E(2, 4), E(3, 1)>>,
       <<E(2, 3), E(2, 6), E(2, 4), E(3, 2), E(3, 0)>>,
       <<E(2, 5), E(3, 0), E(2, 4), E(3, 1)>>,
       <<E(2, 1), E(2, 6), E(3, 4), E(3, 5)>>,
       <<E(2, 6), E(2, 2), E(2, 1), E(3, 3), E(3, 5)>>,
       <<E(2, 0), E(2, 2), E(3, 4), E(3, 3)>>, <<E(2, 1), E(2, 3), E(2, 4)>>>>,
     <<<<E(3, 2), E(1, 4), E(1, 6), E(3, 1), E(3, 3)>>,
       <<E(3, 3), E(1, 6), E(1, 4), E(3, 2), E(3, 0)>>,
       <<E(3, 0), E(1, 4), E(1, 6), E(3, 1), E(3, 3)>>,
       <<E(3, 1), E(1, 6), E(1, 4), E(3, 2), E(3, 0)>>,
       <<E(1, 6), E(1, 2), E(1, 1)>>, <<>>, <<E(1, 1), E(1, 3), E(1, 4)>>>>,
     <<<<E(3, 5), E(4, 2), E(3, 4), E(4, 1), E(4, 3)>>,
       <<E(4, 3), E(2, 6), E(3, 4), E(4, 2), E(4, 0)>>,
       <<E(3, 5), E(4, 0), E(3, 4), E(4, 1), E(4, 3)>>,
       <<E(4, 1), E(2, 6), E(3, 4), E(4, 2), E(4, 0)>>,
       <<E(2, 6), E(3, 2), E(3, 1), E(3, 3)>>, <<E(3, 0), E(3, 2), E(3, 4)>>,
       <<E(2, 1), E(2, 3), E(2, 4)>>>> >>

Case(b, near7, near8, add) ==
  LET edges == Bases[b].edges \cup {{7, p} : p \in near7} \cup {{8, p} : p \in near8}
  IN [model |-> Bases[b].model, valid |-> Base,
      complete |-> [v \in MCVertex |-> {w \in MCVertex : w # v /\ {v, w} \in edges}],
      core_list |-> [v \in MCVertex |-> IF v \in Base THEN Bases[b].core[v + 1] ELSE 0],
      compo_l |-> Compo(b), sp_l_list |-> Entry0(b), add |-> add,
      hier_adj |-> [v \in MCVertex |-> IF v \in Base THEN Lists[b][v + 1] ELSE <<>>]]

Second == {{7}, {0, 1, 7}, {2, 3, 6, 7}, {1, 2, 3, 4}}
MCInputs ==
  {Case(b, n7, n8, <<7, 8>>) : b \in DOMAIN Bases, n7 \in SUBSET (0 .. 5), n8 \in Second}
    \cup {Case(1, {0, 1}, {7}, <<8, NoVertex, 7>>)}
=============================================================================
