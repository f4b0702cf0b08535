---------------------------- MODULE MCTrussQuery ----------------------------
(* Two cliques of four vertices that share a vertex, with and without      *)
(* further edges between them.  Odd ids are free for second copies.        *)
EXTENDS ATC

MCVertex == 0 .. 12
Layer == {2 * n : n \in 0 .. 6}
Pairs(S) == {{u, v} : u, v \in S}
Fixed == Pairs({0, 2, 4, 6}) \cup Pairs({6, 8, 10, 12})
Further == {{0, 8}, {2, 8}}
Graph(F) ==
  [v \in MCVertex |-> {u \in Layer \ {v} : v \in Layer /\ {u, v} \in Fixed \cup F}]

\* The whole graph is one component, and all of it has trussness 4 or more.
\* Vertex 8 has the attributes of some others, and the largest id of these.
Near == [v \in MCVertex |-> (3 * ((v \div 2) + 6)) % 7]
Alike == [v \in MCVertex |-> IF v \in {0, 2, 4, 8} THEN 0 ELSE v]
MCInputs ==
  {[adj |-> G, queryID |-> d[1], req_trussness |-> k, start |-> S,
    withIndex |-> S # Layer, dist |-> d[2]] :
     G \in {Graph({}), Graph(Further)}, k \in {3, 4},
     S \in {Layer, {0, 2, 4, 6, 8, 10}, {0, 2, 4, 8, 10}}, d \in {<<2, Near>>, <<8, Alike>>}}

\* One attribute that most have and one that few have; and one that all have.
Common == [v \in MCVertex |-> (IF v # 12 THEN {"a"} ELSE {})
                                \cup (IF v \in {2, 4, 8} THEN {"b"} ELSE {})]
Same == [v \in MCVertex |-> {"a"}]
MCQueries ==
  {[adj |-> G, queryID |-> q, req_trussness |-> k, attr |-> A, withIndex |-> m # 0,
    CNNS_res |-> R, d |-> d, max_size |-> IF m = 0 THEN 5 ELSE 7] :
     G \in {Graph({}), Graph(Further)}, q \in {2, 8}, k \in {3, 4}, A \in {Common, Same},
     m \in {0, 1}, R \in {Layer, Layer \ {2, 12}}, d \in {1, 2}}
MCEpsilon == <<1, 2>>
=============================================================================
