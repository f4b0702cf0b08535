----------------------------- MODULE MCRetrieve -----------------------------
(* Layer 2 of a graph of two components: fourteen vertices, of which the   *)
(* search drops some and may pop its heap too often, and a triangle; one   *)
(* vertex is below the layer.  Lists also hold links of layer 1.           *)
EXTENDS Retrieve, TLC

MCVertex == 0 .. 17
MCCompo == [v \in MCVertex |-> IF v \in 14 .. 16 THEN 1 ELSE 0]
MCCore == [v \in MCVertex |-> IF v = 17 THEN 1 ELSE 2]
MCEntries == (0 :> 6) @@ (1 :> 15)
MCAdj ==
  [v \in MCVertex |->
     CASE v \in 0 .. 13 -> {v - 2, v - 1, v + 1, v + 2} \cap 0 .. 13
       [] v \in 14 .. 16 -> (14 .. 17) \ (IF v = 14 THEN {14} ELSE {v, 17})
       [] OTHER -> {14}]

Low(v) == [tag |-> 1, id |-> v]
In(v) == [tag |-> 2, id |-> v]
Ring(v) ==
  IF v \in 14 .. 16 THEN <<Low(17), In(14 + ((v - 13) % 3))>>
  ELSE IF v = 17 THEN <<Low(14), Low(0)>>
  ELSE <<Low(17), In((v + 1) % 14), In((v + 13) % 14)>>
\* The lists of the vertices in D lead to one vertex only.
Index(D) == [v \in MCVertex |-> IF v \in D THEN <<In(6)>> ELSE Ring(v)]

Gap(u, v) == IF u < v THEN v - u ELSE u - v
Place(v) == (5 * v) % 17
MCDist == [q \in MCVertex |-> [v \in MCVertex |-> Gap(Place(q), Place(v))]]
MCOri == [v \in MCVertex |-> 30 - v]

\* One thread with every kind of query, and two that disturb each other.
Sequential ==
  {[index |-> Index(D), work |-> <<<<30, 27, 99, 24, 16, 13>>, <<>>>>,
    deletions |-> <<>>] : D \in SUBSET {0, 2, 4, 7}}
Concurrent ==
  {[index |-> Index({0, 4}), work |-> <<<<30, 16>>, <<27>>>>,
    deletions |-> <<{29, 28, 24, 15}>>],
   [index |-> Index({4}), work |-> <<<<30>>, <<13>>>>, deletions |-> <<>>],
   [index |-> Index({4}), work |-> <<<<15>>, <<30>>>>,
    deletions |-> <<{30, 14, 16}>>]}
MCInputs == Sequential \cup Concurrent
=============================================================================
