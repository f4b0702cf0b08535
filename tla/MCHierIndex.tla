---------------------------- MODULE MCHierIndex -----------------------------
(* A graph with its coreness and its components, and both checked against  *)
(* their definitions.                                                      *)
EXTENDS HierIndex, TLC

\* Two cliques of four vertices, joined through a ninth vertex, and a tenth
\* vertex on its own.
MCNode == 1 .. 10
Pairs(S) == {{u, v} : u, v \in S}
Links ==
  {e \in Pairs(1 .. 4) \cup Pairs(5 .. 8) : Cardinality(e) = 2}
    \cup {{4, 9}, {5, 9}}

MCCore == <<3, 3, 3, 3, 3, 3, 3, 3, 2, 0>>

Numbers(top) == 0 :> 0 @@ 1 :> 0 @@ 2 :> 0 @@ 3 :> top
MCCompo ==
  <<Numbers(0), Numbers(0), Numbers(0), Numbers(0),
    Numbers(1), Numbers(1), Numbers(1), Numbers(1), 0 :> 0 @@ 1 :> 0 @@ 2 :> 0,
    0 :> 1>>

Deg(v, S) == Cardinality({e \in Links : v \in e /\ e \subseteq S})
Dense(v, k) == \E S \in SUBSET MCNode : v \in S /\ \A u \in S : Deg(u, S) >= k

ASSUME CorenessByDefinition ==
  \A v \in MCNode : Dense(v, MCCore[v]) /\ ~Dense(v, MCCore[v] + 1)

Closed(S, k) ==
  \A e \in Links : e \subseteq InLayer(k) => (e \cap S = {} \/ e \subseteq S)

ASSUME ComponentsByDefinition ==
  \A k \in 0 .. MaxLayer : \A v \in InLayer(k) :
    LET mine == {u \in InLayer(k) : Together(u, v, k)}
    IN  Closed(mine, k) /\ \A S \in SUBSET mine : v \in S /\ Closed(S, k) => S = mine
=============================================================================
