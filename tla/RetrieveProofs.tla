--------------------------- MODULE RetrieveProofs ---------------------------
(***************************************************************************)
(* Proofs about Retrieve for every index that HierIndex promises, every    *)
(* metric, every number of threads and every sequence of queries: first    *)
(* what holds whatever the threads do to each other, then what holds of a  *)
(* search that no other thread disturbs.                                   *)
(***************************************************************************)
EXTENDS Retrieve, FiniteSetTheorems, Extrema, TLAPS

LEMMA ProductInNat ==
  ASSUME NEW a \in Nat, NEW b \in Nat
  PROVE  a * b \in Nat
OBVIOUS

LEMMA HundredthsInNat ==
  ASSUME NEW a \in Nat
  PROVE  a \div 1000 \in Nat /\ a \div 100 \in Nat
BY SMTT(30)

LEMMA NodeNumInNat ==
  ASSUME NEW c
  PROVE  node_num(c) \in Nat
<1>1. Members(c) \subseteq Vertex
  BY DEF Members, InLayer
<1>2. IsFiniteSet(Members(c))
  BY <1>1, FS_Subset, RetrieveAssumption
<1> QED BY <1>2, FS_CardinalityType DEF node_num

LEMMA QueueLengthInNat ==
  ASSUME NEW q \in Vertex
  PROVE  QueueLength(q) \in Nat
<1> DEFINE n == node_num(CurComponent(q))
<1>1. n \in Nat /\ L \in Nat /\ R \in Nat
  BY NodeNumInNat, RetrieveAssumption
<1> HIDE DEF n
<1>2. L * n \in Nat
  BY <1>1, ProductInNat
<1>3. (L * n) * R \in Nat
  BY <1>1, <1>2, ProductInNat
<1>4. ((L * n) * R) \div 1000 \in Nat
  BY <1>3, HundredthsInNat
<1> QED BY <1>4 DEF QueueLength, n

(* A query outside the layer is sent to a component of the layer.          *)
LEMMA LargestExists ==
  \E c \in {compo_l[v] : v \in InLayer} : Largest(c)
<1> DEFINE C == {compo_l[v] : v \in InLayer}
<1> DEFINE Num == {node_num(c) : c \in C}
<1> DEFINE Top == {c \in C : \A d \in C : node_num(d) <= node_num(c)}
<1>1. C # {} /\ C \in SUBSET Nat
  <2>1. \E v \in Vertex : core_list[v] >= cur_coreness
    BY IndexAssumption
  <2>2. compo_l \in [Vertex -> Nat]
    BY RetrieveAssumption
  <2> QED BY <2>1, <2>2 DEF InLayer
<1>2. \A c \in C : node_num(c) \in 0 .. Cardinality(Vertex)
  <2> TAKE c \in C
  <2>1. Members(c) \subseteq Vertex
    BY DEF Members, InLayer
  <2>2. IsFiniteSet(Vertex)
    BY RetrieveAssumption
  <2>3. Cardinality(Members(c)) <= Cardinality(Vertex)
    BY <2>1, <2>2, FS_Subset
  <2>4. node_num(c) \in Nat /\ Cardinality(Vertex) \in Nat
    BY <2>2, NodeNumInNat, FS_CardinalityType
  <2>5. node_num(c) <= Cardinality(Vertex)
    BY <2>3 DEF node_num
  <2> QED BY <2>4, <2>5
<1>3. Cardinality(Vertex) \in Nat
  BY FS_CardinalityType, RetrieveAssumption
<1>4. Num \in SUBSET (0 .. Cardinality(Vertex)) /\ Num # {}
  BY <1>1, <1>2
<1>5. \E n \in Num : \A m \in Num : m <= n
  <2> HIDE DEF Num
  <2> QED BY <1>3, <1>4, GreatestElement
<1>6. Top # {} /\ Top \in SUBSET Nat
  BY <1>1, <1>5
<1>7. PICK c \in Top : \A d \in Top : c <= d
  <2> HIDE DEF Top
  <2> QED BY <1>6, LeastElement
<1>8. ASSUME NEW d \in C
      PROVE  node_num(d) < node_num(c) \/ (node_num(d) = node_num(c) /\ c <= d)
  <2>1. node_num(d) <= node_num(c) /\ node_num(d) \in Nat /\ node_num(c) \in Nat
    BY <1>7, <1>8, NodeNumInNat
  <2>2. CASE node_num(d) = node_num(c)
    <3>1. \A e \in C : node_num(e) <= node_num(d)
      BY <1>7, <2>2
    <3> QED BY <1>7, <1>8, <2>2, <3>1
  <2>3. CASE node_num(d) # node_num(c)
    BY <2>1, <2>3
  <2> QED BY <2>2, <2>3
<1> QED BY <1>7, <1>8 DEF Largest

LEMMA CurComponentOfLayer ==
  ASSUME NEW q \in Vertex
  PROVE  \E v \in InLayer : CurComponent(q) = compo_l[v]
<1>1. CASE q \in InLayer
  BY <1>1 DEF CurComponent
<1>2. CASE q \notin InLayer
  <2>1. CurComponent(q) \in {compo_l[v] : v \in InLayer}
    BY <1>2, LargestExists DEF CurComponent
  <2> QED BY <2>1
<1> QED BY <1>1, <1>2

(* A search starts inside the component it was sent to.                    *)
LEMMA StartsInside ==
  ASSUME NEW q \in Vertex
  PROVE  /\ Starts(q) \subseteq Members(CurComponent(q))
         /\ sp_l_list[CurComponent(q)] \in Members(CurComponent(q))
<1>1. PICK v \in InLayer : CurComponent(q) = compo_l[v]
  BY CurComponentOfLayer
<1>2. v \in Vertex /\ core_list[v] >= cur_coreness
  BY DEF InLayer
<1>3. compo_l[v] \in Component
  BY <1>2 DEF Component
<1>4. sp_l_list[compo_l[v]] \in Vertex
  BY <1>3, RetrieveAssumption
<1>5. sp_l_list[compo_l[v]] \in Members(compo_l[v])
  BY <1>2, <1>4, IndexAssumption DEF Members, InLayer
<1>6. q \in InLayer => q \in Members(CurComponent(q))
  BY DEF Members, CurComponent
<1> QED BY <1>1, <1>5, <1>6 DEF Starts

(* An entry that carries the layer leads from a component into it.         *)
LEMMA EntryInside ==
  ASSUME NEW h \in Indexes, NEW c, NEW v \in Members(c), NEW j \in Seen(h[v])
  PROVE  h[v][j].id \in Members(c)
<1>1. v \in Vertex /\ core_list[v] >= cur_coreness /\ compo_l[v] = c
  BY DEF Members, InLayer
<1>2. j \in DOMAIN h[v] /\ h[v][j].tag >= cur_coreness
  BY DEF Seen, Carries
<1> DEFINE E == [tag : Nat, id : Vertex]
<1>3. h \in [Vertex -> Seq(E)]
  BY RetrieveAssumption
<1>4. \A e \in E : e.id \in Vertex
  OBVIOUS
<1> HIDE DEF E
<1>5. h[v] \in Seq(E)
  BY <1>1, <1>3
<1>6. h[v][j] \in E
  BY <1>2, <1>5
<1>7. h[v][j].id \in Vertex
  BY <1>4, <1>6
<1> QED BY <1>1, <1>2, <1>7, IndexAssumption DEF Members, InLayer

(* The part of a distance that counts hops is a natural, for a vertex that *)
(* a round reaches and for one that none does.                             *)
LEMMA HopDistInNat ==
  ASSUME NEW within, NEW v
  PROVE  HopDist(within, v) \in Nat
<1>1. CASE Hops(within, v) = {}
  BY <1>1 DEF HopDist
<1>2. CASE Hops(within, v) # {}
  <2> DEFINE n == CHOOSE n \in Hops(within, v) : TRUE
  <2>1. n \in Hops(within, v)
    BY <1>2
  <2>2. Cardinality(Vertex) \in Nat
    BY FS_CardinalityType, RetrieveAssumption
  <2> HIDE DEF n
  <2>3. n \in 1 .. Cardinality(Vertex)
    BY <2>1 DEF Hops
  <2>4. n - 1 \in Nat /\ gamma \in Nat
    BY <2>2, <2>3, RetrieveAssumption
  <2>5. gamma * (n - 1) \in Nat
    BY <2>4, ProductInNat
  <2> QED BY <1>2, <2>5 DEF HopDist, n
<1> QED BY <1>1, <1>2

LEMMA DistType ==
  dist_to_q \in [Vertex -> [Vertex -> Nat]]
<1>1. ASSUME NEW q \in Vertex, NEW v \in Vertex
      PROVE  Cal_Dist[q][v] + HopDist(Reached(q), v) \in Nat
  <2>1. Cal_Dist[q][v] \in Nat
    BY RetrieveAssumption
  <2>2. HopDist(Reached(q), v) \in Nat
    BY HopDistInNat
  <2> QED BY <2>1, <2>2
<1> QED BY <1>1 DEF dist_to_q
-----------------------------------------------------------------------------
(* What holds of a search while it runs.  Besides StaysInComponent: the    *)
(* entries still to be looked at belong to a vertex of the component, and  *)
(* every result was visited, unless it is the query's own, so that an      *)
(* admitted one is new.                                                    *)
Inside(t) ==
  LET M == Members(CurComponent(query[t]))
  IN  /\ query[t] \in Vertex
      /\ expandset[t] \subseteq M
      /\ \A e \in resultset[t] : e.own \/ (e.id \in M /\ e.id \in vis[t])
      /\ links[t] # {} => (cur[t] \in M /\ links[t] \subseteq Seen(hier_adj[cur[t]]))
      /\ pc[t] = "post" => links[t] = {}

OneMore(t) == IF pc[t] = "trim" THEN 1 ELSE 0

Bounded(t) ==
  /\ search_queue_length <= Longest
  /\ IsFiniteSet(resultset[t])
  /\ Cardinality(resultset[t]) <= Longest + OneMore(t)
  /\ Cardinality(resultset[t]) >= 2 + OneMore(t)

Searching(t) ==
  IF Active(t) THEN Inside(t) /\ Bounded(t) ELSE links[t] = {}

Searches == TypeOK /\ \A t \in Thread : Searching(t)

LEMMA MembersAreVertices ==
  ASSUME NEW c
  PROVE  Members(c) \subseteq Vertex
BY DEF Members, InLayer

(* The entries of a list are numbered by naturals.                         *)
LEMMA SeenIsNat ==
  ASSUME NEW h \in Indexes, NEW v \in Vertex
  PROVE  Seen(h[v]) \subseteq Nat
<1> DEFINE E == [tag : Nat, id : Vertex]
<1>1. h \in [Vertex -> Seq(E)]
  BY RetrieveAssumption
<1> HIDE DEF E
<1>2. h[v] \in Seq(E)
  BY <1>1
<1>3. DOMAIN h[v] \subseteq Nat
  BY <1>2
<1> QED BY <1>3 DEF Seen

LEMMA EntryType ==
  ASSUME NEW q \in Vertex, NEW v \in Vertex
  PROVE  Entry(q, v) \in [dist : Nat, id : Vertex, own : BOOLEAN]
BY DistType DEF Entry

LEMMA OwnType ==
  ASSUME NEW q \in Vertex
  PROVE  Own(q) \in [dist : Nat, id : Vertex, own : BOOLEAN]
BY DEF Own

LEMMA SetupKept ==
  setup' = setup => (SetupOK => SetupOK') /\ hier_adj' = hier_adj
BY DEF SetupOK, setup

LEMMA SetupHasIndex ==
  SetupOK => hier_adj \in Indexes
BY DEF SetupOK

LEMMA InitTypeOK ==
  Init => TypeOK
<1> SUFFICES ASSUME Init PROVE TypeOK
  OBVIOUS
<1>1. SetupOK
  BY RetrieveAssumption DEF Init, SetupOK, Indexes, Works
<1> QED BY <1>1, RetrieveAssumption DEF Init, TypeOK, Community

LEMMA RejectType ==
  ASSUME TypeOK, NEW t \in Thread, Reject(t)
  PROVE  TypeOK'
BY SetupKept DEF TypeOK, Reject, local

(* The initial lowerBound is the distance of one of the starts.            *)
LEMMA FirstBound ==
  ASSUME NEW q \in Vertex
  PROVE  (CHOOSE b \in {dist_to_q[q][v] : v \in Starts(q)} :
            \A v \in Starts(q) : b <= dist_to_q[q][v]) \in Nat
<1> DEFINE D == {dist_to_q[q][v] : v \in Starts(q)}
<1>1. Starts(q) \subseteq Vertex /\ Starts(q) # {}
  BY StartsInside, MembersAreVertices DEF Starts
<1>2. D \in SUBSET Nat /\ D # {}
  BY <1>1, DistType
<1>3. \E b \in D : \A d \in D : b <= d
  <2> HIDE DEF D
  <2> QED BY <1>2, LeastElement
<1>4. \E b \in D : \A v \in Starts(q) : b <= dist_to_q[q][v]
  BY <1>3
<1> QED BY <1>2, <1>4

LEMMA BeginType ==
  ASSUME TypeOK, NEW t \in Thread, Begin(t)
  PROVE  TypeOK'
<1> DEFINE q == ori_2_cnns(work[t][next[t]])
<1>1. q \in Vertex
  BY DEF Begin, Supported, ori_2_cnns
<1>2. QueueLength(q) \in Nat
  BY <1>1, QueueLengthInNat
<1>3. Starts(q) \subseteq Vertex /\ sp_l_list[CurComponent(q)] \in Vertex
  BY <1>1, StartsInside, MembersAreVertices
<1>4. {Entry(q, sp_l_list[CurComponent(q)]), Own(q)}
        \subseteq [dist : Nat, id : Vertex, own : BOOLEAN]
  BY <1>1, <1>3, EntryType, OwnType
<1>5. (CHOOSE b \in {dist_to_q[q][v] : v \in Starts(q)} :
         \A v \in Starts(q) : b <= dist_to_q[q][v]) \in Nat
  BY <1>1, FirstBound
<1>6. /\ search_queue_length' = QueueLength(q)
      /\ query' = [query EXCEPT ![t] = q]
      /\ vis' = [vis EXCEPT ![t] = Starts(q)]
      /\ expandset' = [expandset EXCEPT ![t] = Starts(q)]
      /\ resultset' = [resultset EXCEPT ![t] =
                         {Entry(q, sp_l_list[CurComponent(q)]), Own(q)}]
      /\ lowerBound' = [lowerBound EXCEPT ![t] =
                          CHOOSE b \in {dist_to_q[q][v] : v \in Starts(q)} :
                            \A v \in Starts(q) : b <= dist_to_q[q][v]]
      /\ pc' = [pc EXCEPT ![t] = "search"]
      /\ UNCHANGED <<setup, communityBase, next, cur, links>>
  BY DEF Begin
<1> HIDE DEF q
<1>7. /\ search_queue_length' \in Nat /\ query' \in [Thread -> Vertex \cup {NoQuery}]
      /\ vis' \in [Thread -> SUBSET Vertex]
      /\ expandset' \in [Thread -> SUBSET Vertex]
      /\ lowerBound' \in [Thread -> Nat]
      /\ pc' \in [Thread -> {"ready", "search", "trim", "post", "undefined"}]
  BY <1>1, <1>2, <1>3, <1>5, <1>6 DEF TypeOK
<1>8. resultset' \in [Thread -> SUBSET [dist : Nat, id : Vertex, own : BOOLEAN]]
  <2> DEFINE E == [dist : Nat, id : Vertex, own : BOOLEAN]
  <2>1. {Entry(q, sp_l_list[CurComponent(q)]), Own(q)} \subseteq E
    BY <1>4
  <2>2. resultset \in [Thread -> SUBSET E]
    BY DEF TypeOK
  <2> HIDE DEF E
  <2>3. resultset' \in [Thread -> SUBSET E]
    BY <1>6, <2>1, <2>2
  <2> QED BY <2>3 DEF E
<1> QED BY <1>6, <1>7, <1>8, SetupKept DEF TypeOK

(* A nonempty finite set of results has a farthest one.                    *)
LEMMA FarthestExists ==
  ASSUME NEW S, IsFiniteSet(S), S # {},
         S \subseteq [dist : Nat, id : Vertex, own : BOOLEAN]
  PROVE  /\ Farthest(S) # {}
         /\ \A b : Bound(b, S) \in Nat
<1> DEFINE f == [e \in S |-> e.dist]
<1> DEFINE D == {f[e] : e \in S}
<1>1. \A e \in S : e.dist \in Nat
  OBVIOUS
<1>2. D \in SUBSET Nat /\ D # {}
  BY <1>1
<1>3. IsFiniteSet(D)
  <2> HIDE DEF f
  <2> QED BY FiniteImage
<1>4. \E d \in D : \A c \in D : c <= d
  <2> HIDE DEF D
  <2> QED BY <1>2, <1>3, FiniteHasGreatest
<1>5. Farthest(S) # {}
  BY <1>4 DEF Farthest
<1>6. (CHOOSE e \in Farthest(S) : TRUE) \in S
  BY <1>5 DEF Farthest
<1> QED BY <1>1, <1>5, <1>6 DEF Bound

(* The lengths that searches ask for have a longest.                       *)
LEMMA LongestBounds ==
  /\ Longest \in Nat /\ 2 <= Longest
  /\ \A q \in Vertex : QueueLength(q) <= Longest
<1> DEFINE f == [v \in Vertex |-> QueueLength(v)]
<1>1. {QueueLength(v) : v \in Vertex} = {f[v] : v \in Vertex}
  OBVIOUS
<1>2. IsFiniteSet({f[v] : v \in Vertex})
  <2>1. IsFiniteSet(Vertex)
    BY RetrieveAssumption
  <2> HIDE DEF f
  <2> QED BY <2>1, FiniteImage
<1>3. IsFiniteSet(Lengths)
  BY <1>1, <1>2, FS_AddElement DEF Lengths
<1>4. Lengths \in SUBSET Nat /\ Lengths # {}
  BY QueueLengthInNat DEF Lengths
<1>5. \E n \in Lengths : \A m \in Lengths : m <= n
  BY <1>3, <1>4, FiniteHasGreatest
<1>6. Longest \in Lengths /\ \A m \in Lengths : m <= Longest
  BY <1>5 DEF Longest
<1> QED BY <1>4, <1>6 DEF Lengths

(* The vertex that an entry names is in the component.                     *)
LEMMA NeighbourInside ==
  ASSUME Searches, NEW t \in Thread, NEW j \in links[t], Active(t)
  PROVE  Neighbour(t, j) \in Members(CurComponent(query[t]))
<1>1. Inside(t) /\ hier_adj \in Indexes
  BY SetupHasIndex DEF Searches, Searching, TypeOK
<1>2. /\ cur[t] \in Members(CurComponent(query[t]))
      /\ j \in Seen(hier_adj[cur[t]])
  BY <1>1 DEF Inside
<1> QED BY <1>1, <1>2, EntryInside DEF Neighbour

LEMMA ExpandType ==
  ASSUME Searches, NEW t \in Thread, Expand(t)
  PROVE  TypeOK'
<1>1. PICK v \in Closest(t) :
        /\ expandset' = [expandset EXCEPT ![t] = @ \ {v}]
        /\ cur' = [cur EXCEPT ![t] = v]
        /\ links' = [links EXCEPT ![t] = Seen(hier_adj[v])]
  BY DEF Expand
<1>2. TypeOK
  BY DEF Searches
<1>3. v \in Vertex /\ hier_adj \in Indexes
  BY <1>2, SetupHasIndex DEF Closest, TypeOK
<1>4. Seen(hier_adj[v]) \subseteq Nat
  BY <1>3, SeenIsNat
<1>5. /\ expandset' \in [Thread -> SUBSET Vertex]
      /\ cur' \in [Thread -> Vertex \cup {NoQuery}]
      /\ links' \in [Thread -> SUBSET Nat]
  BY <1>1, <1>2, <1>3, <1>4 DEF TypeOK
<1>6. UNCHANGED <<setup, search_queue_length, communityBase, pc, next, query,
                  vis, resultset, lowerBound>>
  BY DEF Expand
<1> QED BY <1>2, <1>5, <1>6, SetupKept DEF TypeOK

LEMMA PassOverType ==
  ASSUME Searches, NEW t \in Thread, PassOver(t)
  PROVE  TypeOK'
<1>1. PICK j \in links[t] :
        /\ Looking(t, j)
        /\ vis' = [vis EXCEPT ![t] = Marked(t, Neighbour(t, j))]
        /\ links' = [links EXCEPT ![t] = @ \ {j}]
        /\ UNCHANGED <<setup, search_queue_length, communityBase, pc, next, query,
                       expandset, resultset, lowerBound, cur>>
  BY DEF PassOver
<1>2. TypeOK
  BY DEF Searches
<1>3. Neighbour(t, j) \in Vertex
  BY <1>1, NeighbourInside, MembersAreVertices DEF Active, Looking
<1>4. vis' \in [Thread -> SUBSET Vertex] /\ links' \in [Thread -> SUBSET Nat]
  BY <1>1, <1>2, <1>3 DEF TypeOK, Marked
<1> QED BY <1>1, <1>2, <1>4, SetupKept DEF TypeOK

LEMMA AdmitType ==
  ASSUME Searches, NEW t \in Thread, Admit(t)
  PROVE  TypeOK'
<1>1. PICK j \in links[t] :
        /\ Looking(t, j)
        /\ vis' = [vis EXCEPT ![t] = Marked(t, Neighbour(t, j))]
        /\ expandset' = [expandset EXCEPT ![t] = @ \cup {Neighbour(t, j)}]
        /\ resultset' = [resultset EXCEPT ![t] =
                           @ \cup {Entry(query[t], Neighbour(t, j))}]
        /\ pc' = [pc EXCEPT ![t] = "trim"]
        /\ links' = [links EXCEPT ![t] = @ \ {j}]
        /\ UNCHANGED <<setup, search_queue_length, communityBase, next, query,
                       lowerBound, cur>>
  BY DEF Admit
<1>2. TypeOK /\ Inside(t)
  BY <1>1 DEF Searches, Searching, Active, Looking
<1>3. Neighbour(t, j) \in Vertex /\ query[t] \in Vertex
  BY <1>1, <1>2, NeighbourInside, MembersAreVertices DEF Active, Looking, Inside
<1>4. /\ vis' \in [Thread -> SUBSET Vertex] /\ links' \in [Thread -> SUBSET Nat]
      /\ expandset' \in [Thread -> SUBSET Vertex]
      /\ pc' \in [Thread -> {"ready", "search", "trim", "post", "undefined"}]
  BY <1>1, <1>2, <1>3 DEF TypeOK, Marked
<1>5. resultset' \in [Thread -> SUBSET [dist : Nat, id : Vertex, own : BOOLEAN]]
  <2> DEFINE E == [dist : Nat, id : Vertex, own : BOOLEAN]
  <2>1. Entry(query[t], Neighbour(t, j)) \in E
    BY <1>3, EntryType
  <2>2. resultset \in [Thread -> SUBSET E]
    BY <1>2 DEF TypeOK
  <2> HIDE DEF E
  <2>3. resultset' \in [Thread -> SUBSET E]
    BY <1>1, <2>1, <2>2
  <2> QED BY <2>3 DEF E
<1> QED BY <1>1, <1>2, <1>4, <1>5, SetupKept DEF TypeOK

(* What is left after a trim: a part of the results, and not empty.        *)
LEMMA ShortenedIsPart ==
  ASSUME Searches, NEW t \in Thread, pc[t] = "trim",
         NEW S \in Shortened(resultset[t])
  PROVE  /\ S \subseteq resultset[t] /\ IsFiniteSet(S) /\ S # {}
         /\ Cardinality(S) <= Longest /\ Cardinality(S) >= 2
<1> DEFINE n == Cardinality(resultset[t])
<1>1. /\ search_queue_length <= Longest /\ search_queue_length \in Nat
      /\ IsFiniteSet(resultset[t]) /\ n <= Longest + 1 /\ n >= 3
  BY DEF Searches, Searching, Active, Bounded, OneMore, TypeOK
<1>2. n \in Nat /\ Longest \in Nat
  BY <1>1, FS_CardinalityType, LongestBounds
<1>3. CASE Trims(resultset[t])
  <2>1. PICK e \in resultset[t] : S = resultset[t] \ {e}
    BY <1>3 DEF Shortened, Farthest
  <2>2. IsFiniteSet(S) /\ Cardinality(S) = n - 1
    BY <1>1, <2>1, FS_RemoveElement
  <2>3. S # {}
    BY <1>1, <1>2, <2>2, FS_EmptySet
  <2> QED BY <1>1, <1>2, <2>1, <2>2, <2>3
<1>4. CASE ~Trims(resultset[t])
  <2>1. S = resultset[t]
    BY <1>4 DEF Shortened
  <2>2. n <= Longest
    BY <1>1, <1>2, <1>4 DEF Trims
  <2>3. S # {}
    BY <1>1, <1>2, <2>1, FS_EmptySet
  <2> QED BY <1>1, <1>2, <2>1, <2>2, <2>3
<1> QED BY <1>3, <1>4

LEMMA TrimType ==
  ASSUME Searches, NEW t \in Thread, Trim(t)
  PROVE  TypeOK'
<1>1. PICK S \in Shortened(resultset[t]) :
        /\ resultset' = [resultset EXCEPT ![t] = S]
        /\ lowerBound' = [lowerBound EXCEPT ![t] = Bound(@, S)]
  BY DEF Trim
<1>2. /\ pc[t] = "trim" /\ pc' = [pc EXCEPT ![t] = "search"]
      /\ UNCHANGED <<setup, search_queue_length, communityBase, next, query,
                     vis, expandset, cur, links>>
  BY DEF Trim
<1>3. TypeOK
  BY DEF Searches
<1> DEFINE E == [dist : Nat, id : Vertex, own : BOOLEAN]
<1>4. S \subseteq resultset[t] /\ IsFiniteSet(S) /\ S # {}
  BY <1>1, <1>2, ShortenedIsPart
<1>5. resultset \in [Thread -> SUBSET E]
  BY <1>3 DEF TypeOK
<1>6. S \subseteq E
  <2> HIDE DEF E
  <2> QED BY <1>4, <1>5
<1>7. Bound(lowerBound[t], S) \in Nat
  BY <1>4, <1>6, FarthestExists
<1>8. resultset' \in [Thread -> SUBSET E]
  <2> HIDE DEF E
  <2> QED BY <1>1, <1>5, <1>6
<1>9. /\ lowerBound' \in [Thread -> Nat]
      /\ pc' \in [Thread -> {"ready", "search", "trim", "post", "undefined"}]
  BY <1>1, <1>2, <1>3, <1>7 DEF TypeOK
<1> QED BY <1>2, <1>3, <1>8, <1>9, SetupKept DEF TypeOK

LEMMA EndType ==
  ASSUME TypeOK, NEW t \in Thread, Stop(t) \/ Post(t) \/ PopEmpty(t)
  PROVE  TypeOK'
<1>1. CASE Stop(t)
  BY <1>1, SetupKept DEF TypeOK, Stop, local
<1>2. CASE Post(t)
  <2>1. /\ communityBase' = FiltModel
        /\ next' = [next EXCEPT ![t] = @ + 1]
        /\ pc' = [pc EXCEPT ![t] = "ready"]
        /\ UNCHANGED <<setup, search_queue_length, local>>
    BY <1>2 DEF Post
  <2>2. FiltModel \in Community
    BY DEF FiltModel, Community
  <2> QED BY <2>1, <2>2, SetupKept DEF TypeOK, local
<1>3. CASE PopEmpty(t)
  BY <1>3, SetupKept DEF TypeOK, PopEmpty, local
<1> QED BY <1>1, <1>2, <1>3
-----------------------------------------------------------------------------
(* A step of one thread leaves the search of every other one as it is, but *)
(* for search_queue_length, which stays below the longest length.          *)
LEMMA OthersKeep ==
  ASSUME Searches, NEW t \in Thread, Step(t), NEW u \in Thread, u # t
  PROVE  /\ pc'[u] = pc[u] /\ query'[u] = query[u] /\ vis'[u] = vis[u]
         /\ expandset'[u] = expandset[u] /\ resultset'[u] = resultset[u]
         /\ cur'[u] = cur[u] /\ links'[u] = links[u] /\ hier_adj' = hier_adj
<1>0. TypeOK
  BY DEF Searches
<1>1. CASE Reject(t)
  BY <1>1, SetupKept DEF Reject, local
<1>2. CASE Begin(t)
  BY <1>0, <1>2, SetupKept DEF TypeOK, Begin
<1>3. CASE Expand(t)
  BY <1>0, <1>3, SetupKept DEF TypeOK, Expand
<1>4. CASE PassOver(t)
  BY <1>0, <1>4, SetupKept DEF TypeOK, PassOver
<1>5. CASE Admit(t)
  BY <1>0, <1>5, SetupKept DEF TypeOK, Admit
<1>6. CASE Trim(t)
  BY <1>0, <1>6, SetupKept DEF TypeOK, Trim
<1>7. CASE Stop(t)
  BY <1>0, <1>7, SetupKept DEF TypeOK, Stop, local
<1>8. CASE Post(t)
  BY <1>0, <1>8, SetupKept DEF TypeOK, Post, local
<1>9. CASE PopEmpty(t)
  BY <1>0, <1>9, SetupKept DEF TypeOK, PopEmpty, local
<1> QED BY <1>1, <1>2, <1>3, <1>4, <1>5, <1>6, <1>7, <1>8, <1>9 DEF Step

(* Only Begin writes search_queue_length.                                  *)
LEMMA LengthBounded ==
  ASSUME Searches, NEW t \in Thread, Step(t)
  PROVE  search_queue_length' <= Longest \/ search_queue_length' = search_queue_length
<1>1. CASE Begin(t)
  <2> DEFINE q == ori_2_cnns(work[t][next[t]])
  <2>1. q \in Vertex /\ search_queue_length' = QueueLength(q)
    BY <1>1 DEF Begin, Supported, ori_2_cnns
  <2> QED BY <2>1, LongestBounds
<1>2. CASE ~Begin(t)
  BY <1>2 DEF Step, Reject, Expand, PassOver, Admit, Trim, Stop, Post, PopEmpty
<1> QED BY <1>1, <1>2

LEMMA OtherSearching ==
  ASSUME Searches, NEW t \in Thread, Step(t), NEW u \in Thread, u # t
  PROVE  Searching(u)'
<1>1. Searching(u)
  BY DEF Searches
<1>2. /\ pc'[u] = pc[u] /\ query'[u] = query[u] /\ vis'[u] = vis[u]
      /\ expandset'[u] = expandset[u] /\ resultset'[u] = resultset[u]
      /\ cur'[u] = cur[u] /\ links'[u] = links[u] /\ hier_adj' = hier_adj
  BY OthersKeep
<1>3. search_queue_length' <= Longest \/ search_queue_length' = search_queue_length
  BY LengthBounded
<1>4. Active(u)' = Active(u)
  BY <1>2 DEF Active
<1>5. CASE Active(u)
  <2>1. Inside(u)'
    BY <1>1, <1>2, <1>5 DEF Searching, Inside
  <2>2. Bounded(u)'
    BY <1>1, <1>2, <1>3, <1>5 DEF Searching, Bounded, OneMore
  <2> QED BY <1>4, <1>5, <2>1, <2>2 DEF Searching
<1>6. CASE ~Active(u)
  BY <1>1, <1>2, <1>4, <1>6 DEF Searching
<1> QED BY <1>5, <1>6

(* A search starts inside, with two results.                               *)
LEMMA BeginSearching ==
  ASSUME Searches, NEW t \in Thread, Begin(t)
  PROVE  Searching(t)'
<1> DEFINE q == ori_2_cnns(work[t][next[t]])
<1> DEFINE sp == sp_l_list[CurComponent(q)]
<1>1. q \in Vertex
  BY DEF Begin, Supported, ori_2_cnns
<1>2. TypeOK /\ links[t] = {}
  BY DEF Searches, Searching, Active, Begin, Taking
<1>3. /\ search_queue_length' = QueueLength(q)
      /\ query'[t] = q /\ vis'[t] = Starts(q) /\ expandset'[t] = Starts(q)
      /\ resultset'[t] = {Entry(q, sp), Own(q)}
      /\ pc'[t] = "search" /\ links'[t] = {}
  BY <1>2 DEF TypeOK, Begin
<1>4. Starts(q) \subseteq Members(CurComponent(q)) /\ sp \in Members(CurComponent(q))
  BY <1>1, StartsInside
<1>5. sp \in Starts(q)
  BY DEF Starts
<1> HIDE DEF q, sp
<1>6. Entry(q, sp).id = sp /\ Own(q).own /\ Entry(q, sp) # Own(q)
  BY DEF Entry, Own
<1>7. Inside(t)'
  BY <1>1, <1>3, <1>4, <1>5, <1>6 DEF Inside
<1>8. Bounded(t)'
  <2>1. IsFiniteSet({Own(q)}) /\ Cardinality({Own(q)}) = 1
    BY FS_Singleton
  <2>2. {Entry(q, sp), Own(q)} = {Own(q)} \cup {Entry(q, sp)} /\ Entry(q, sp) \notin {Own(q)}
    BY <1>6
  <2>3. IsFiniteSet({Entry(q, sp), Own(q)}) /\ Cardinality({Entry(q, sp), Own(q)}) = 2
    BY <2>1, <2>2, FS_AddElement
  <2>4. QueueLength(q) <= Longest /\ 2 <= Longest /\ Longest \in Nat
    BY <1>1, LongestBounds
  <2> QED BY <1>3, <2>3, <2>4 DEF Bounded, OneMore
<1> QED BY <1>3, <1>7, <1>8 DEF Searching, Active

LEMMA ExpandSearching ==
  ASSUME Searches, NEW t \in Thread, Expand(t)
  PROVE  Searching(t)'
<1>1. TypeOK /\ Inside(t) /\ Bounded(t)
  BY DEF Searches, Searching, Active, Expand
<1>2. PICK v \in expandset[t] :
        /\ expandset'[t] = expandset[t] \ {v} /\ cur'[t] = v
        /\ links'[t] = Seen(hier_adj[v])
  BY <1>1 DEF TypeOK, Expand, Closest
<1>3. /\ pc[t] = "search" /\ pc' = pc /\ query' = query /\ vis' = vis
      /\ resultset' = resultset /\ hier_adj' = hier_adj
      /\ search_queue_length' = search_queue_length
  BY SetupKept DEF Expand
<1>4. Inside(t)'
  BY <1>1, <1>2, <1>3 DEF Inside
<1>5. Bounded(t)'
  BY <1>1, <1>3 DEF Bounded, OneMore
<1> QED BY <1>3, <1>4, <1>5 DEF Searching, Active

LEMMA PassOverSearching ==
  ASSUME Searches, NEW t \in Thread, PassOver(t)
  PROVE  Searching(t)'
<1>1. PICK j \in links[t] :
        /\ Looking(t, j)
        /\ vis' = [vis EXCEPT ![t] = Marked(t, Neighbour(t, j))]
        /\ links' = [links EXCEPT ![t] = @ \ {j}]
  BY DEF PassOver
<1>2. TypeOK /\ Inside(t) /\ Bounded(t)
  BY <1>1 DEF Searches, Searching, Active, Looking
<1>3. vis'[t] = vis[t] \cup {Neighbour(t, j)} /\ links'[t] = links[t] \ {j}
  BY <1>1, <1>2 DEF TypeOK, Marked
<1>4. /\ pc[t] = "search" /\ pc' = pc /\ query' = query /\ expandset' = expandset
      /\ resultset' = resultset /\ hier_adj' = hier_adj /\ cur' = cur
      /\ search_queue_length' = search_queue_length
  BY <1>1, SetupKept DEF PassOver, Looking
<1>5. Inside(t)'
  BY <1>1, <1>2, <1>3, <1>4 DEF Inside
<1>6. Bounded(t)'
  BY <1>2, <1>4 DEF Bounded, OneMore
<1> QED BY <1>4, <1>5, <1>6 DEF Searching, Active

(* An admitted result is new, for its vertex was not visited.              *)
LEMMA AdmitSearching ==
  ASSUME Searches, NEW t \in Thread, Admit(t)
  PROVE  Searching(t)'
<1>1. PICK j \in links[t] :
        /\ Looking(t, j) /\ Neighbour(t, j) \notin vis[t]
        /\ vis' = [vis EXCEPT ![t] = Marked(t, Neighbour(t, j))]
        /\ expandset' = [expandset EXCEPT ![t] = @ \cup {Neighbour(t, j)}]
        /\ resultset' = [resultset EXCEPT ![t] =
                           @ \cup {Entry(query[t], Neighbour(t, j))}]
        /\ pc' = [pc EXCEPT ![t] = "trim"]
        /\ links' = [links EXCEPT ![t] = @ \ {j}]
        /\ query' = query /\ cur' = cur /\ hier_adj' = hier_adj
        /\ search_queue_length' = search_queue_length
  BY SetupKept DEF Admit
<1>2. TypeOK /\ Inside(t) /\ Bounded(t) /\ pc[t] = "search"
  BY <1>1 DEF Searches, Searching, Active, Looking
<1> DEFINE i == Neighbour(t, j)
<1> DEFINE e == Entry(query[t], i)
<1>3. i \in Members(CurComponent(query[t]))
  BY <1>1, <1>2, NeighbourInside DEF Active
<1>4. /\ vis'[t] = vis[t] \cup {i} /\ expandset'[t] = expandset[t] \cup {i}
      /\ resultset'[t] = resultset[t] \cup {e} /\ pc'[t] = "trim"
      /\ links'[t] = links[t] \ {j}
  BY <1>1, <1>2 DEF TypeOK, Marked
<1>5. e.id = i /\ ~e.own
  BY DEF Entry
<1>6. i \notin vis[t]
  BY <1>1
<1> HIDE DEF i, e
<1>7. Inside(t)'
  BY <1>1, <1>2, <1>3, <1>4, <1>5 DEF Inside
<1>8. e \notin resultset[t]
  BY <1>2, <1>5, <1>6 DEF Inside
<1>9. Bounded(t)'
  <2>1. IsFiniteSet(resultset[t])
    BY <1>2 DEF Bounded
  <2>2. /\ IsFiniteSet(resultset[t] \cup {e})
        /\ Cardinality(resultset[t] \cup {e}) = Cardinality(resultset[t]) + 1
    BY <1>8, <2>1, FS_AddElement
  <2>3. Cardinality(resultset[t]) \in Nat /\ Longest \in Nat
    BY <1>2, FS_CardinalityType, LongestBounds DEF Bounded
  <2> DEFINE n == Cardinality(resultset[t])
  <2>4. OneMore(t) = 0
    BY <1>2 DEF OneMore
  <2>5. /\ search_queue_length <= Longest
        /\ n <= Longest + OneMore(t) /\ n >= 2 + OneMore(t)
    BY <1>2 DEF Bounded
  <2>6. search_queue_length' = search_queue_length
    BY <1>1
  <2>7. /\ search_queue_length' <= Longest /\ n <= Longest /\ n >= 2
    BY <2>3, <2>4, <2>5, <2>6
  <2>8. IsFiniteSet(resultset'[t]) /\ Cardinality(resultset'[t]) = n + 1
    BY <1>4, <2>2
  <2>9. n \in Nat /\ Longest \in Nat
    BY <2>3
  <2> HIDE DEF n
  <2>10. n + 1 <= Longest + 1 /\ n + 1 >= 3
    BY <2>7, <2>9
  <2> QED BY <1>4, <2>7, <2>8, <2>10 DEF Bounded, OneMore
<1> QED BY <1>4, <1>7, <1>9 DEF Searching, Active

LEMMA TrimSearching ==
  ASSUME Searches, NEW t \in Thread, Trim(t)
  PROVE  Searching(t)'
<1>1. PICK S \in Shortened(resultset[t]) :
        resultset' = [resultset EXCEPT ![t] = S]
  BY DEF Trim
<1>2. /\ pc[t] = "trim" /\ pc' = [pc EXCEPT ![t] = "search"]
      /\ UNCHANGED <<setup, search_queue_length, query, vis, expandset, cur, links>>
  BY DEF Trim
<1>3. TypeOK /\ Inside(t) /\ Bounded(t)
  BY <1>2 DEF Searches, Searching, Active
<1>4. resultset'[t] = S /\ pc'[t] = "search"
  BY <1>1, <1>2, <1>3 DEF TypeOK
<1>5. /\ S \subseteq resultset[t] /\ IsFiniteSet(S)
      /\ Cardinality(S) <= Longest /\ Cardinality(S) >= 2
  BY <1>1, <1>2, ShortenedIsPart
<1>6. Inside(t)'
  BY <1>2, <1>3, <1>4, <1>5, SetupKept DEF Inside
<1>7. Bounded(t)'
  <2>1. Cardinality(S) \in Nat /\ Longest \in Nat
    BY <1>5, FS_CardinalityType, LongestBounds
  <2> QED BY <1>2, <1>3, <1>4, <1>5, <2>1 DEF Bounded, OneMore
<1> QED BY <1>4, <1>6, <1>7 DEF Searching, Active

LEMMA EndSearching ==
  ASSUME Searches, NEW t \in Thread, Reject(t) \/ Stop(t) \/ Post(t) \/ PopEmpty(t)
  PROVE  Searching(t)'
<1>1. TypeOK /\ Searching(t)
  BY DEF Searches
<1>2. /\ hier_adj' = hier_adj /\ search_queue_length' = search_queue_length
      /\ UNCHANGED local
  BY SetupKept DEF Reject, Stop, Post, PopEmpty
<1>3. CASE Reject(t)
  BY <1>1, <1>2, <1>3 DEF Reject, Taking, Searching, Active, local
<1>4. CASE Stop(t)
  <2>1. pc[t] = "search" /\ pc'[t] = "post" /\ links[t] = {}
    BY <1>1, <1>4 DEF TypeOK, Stop
  <2>2. Inside(t) /\ Bounded(t)
    BY <1>1, <2>1 DEF Searching, Active
  <2>3. Inside(t)'
    BY <1>2, <2>1, <2>2 DEF Inside, local
  <2>4. Bounded(t)'
    BY <1>2, <2>1, <2>2 DEF Bounded, OneMore, local
  <2> QED BY <2>1, <2>3, <2>4 DEF Searching, Active
<1>5. CASE Post(t) \/ PopEmpty(t)
  <2>1. pc[t] = "post" /\ pc'[t] \in {"ready", "undefined"}
    BY <1>1, <1>5 DEF TypeOK, Post, PopEmpty
  <2>2. links'[t] = {}
    BY <1>1, <1>2, <2>1 DEF Searching, Active, Inside, local
  <2> QED BY <2>1, <2>2 DEF Searching, Active
<1> QED BY <1>3, <1>4, <1>5
-----------------------------------------------------------------------------
LEMMA InitSearches ==
  Init => Searches
<1> SUFFICES ASSUME Init PROVE Searches
  OBVIOUS
<1>1. \A t \in Thread : pc[t] = "ready" /\ links[t] = {}
  BY DEF Init
<1> QED BY <1>1, InitTypeOK DEF Searches, Searching, Active

LEMMA NextSearches ==
  Searches /\ [Next]_vars => Searches'
<1> SUFFICES ASSUME Searches, [Next]_vars PROVE Searches'
  OBVIOUS
<1>1. TypeOK
  BY DEF Searches
<1>2. CASE UNCHANGED vars
  <2>1. TypeOK'
    BY <1>1, <1>2, SetupKept DEF TypeOK, vars, local
  <2>2. \A t \in Thread : Searching(t)'
    BY <1>2, SetupKept DEF Searches, Searching, Active, Inside, Bounded, OneMore, vars, local
  <2> QED BY <2>1, <2>2 DEF Searches
<1>3. ASSUME NEW t \in Thread, Step(t) PROVE Searches'
  <2>1. TypeOK' /\ Searching(t)'
    <3>1. CASE Reject(t)
      BY <1>1, <3>1, RejectType, EndSearching
    <3>2. CASE Begin(t)
      BY <1>1, <3>2, BeginType, BeginSearching
    <3>3. CASE Expand(t)
      BY <3>3, ExpandType, ExpandSearching
    <3>4. CASE PassOver(t)
      BY <3>4, PassOverType, PassOverSearching
    <3>5. CASE Admit(t)
      BY <3>5, AdmitType, AdmitSearching
    <3>6. CASE Trim(t)
      BY <3>6, TrimType, TrimSearching
    <3>7. CASE Stop(t) \/ Post(t) \/ PopEmpty(t)
      BY <1>1, <3>7, EndType, EndSearching
    <3> QED
      BY <1>3, <3>1, <3>2, <3>3, <3>4, <3>5, <3>6, <3>7 DEF Step
  <2>2. \A u \in Thread : u # t => Searching(u)'
    BY <1>3, OtherSearching
  <2> QED BY <2>1, <2>2 DEF Searches
<1>4. CASE Batch_Del
  <2>1. hier_adj' = hier_adj /\ work' = work
    BY <1>4 DEF Batch_Del
  <2>2. need_del' \in Seq(SUBSET Nat)
    BY <1>1, <1>4 DEF TypeOK, SetupOK, Batch_Del
  <2>3. valid_nodes' \in SUBSET Vertex
    BY <1>4 DEF Batch_Del
  <2>4. SetupOK'
    BY <1>1, <2>1, <2>2, <2>3 DEF TypeOK, SetupOK
  <2>5. TypeOK'
    BY <1>1, <1>4, <2>4 DEF TypeOK, Batch_Del, local
  <2>6. \A t \in Thread : Searching(t)'
    BY <1>4, <2>1 DEF Batch_Del, Searches, Searching, Active, Inside, Bounded,
                      OneMore, local
  <2> QED BY <2>5, <2>6 DEF Searches
<1> QED BY <1>2, <1>3, <1>4 DEF Next, Terminated

(* The shared and the private state of every query keeps its type: no      *)
(* reference of the search leaves the index.                               *)
THEOREM TypeCorrect == Spec => []TypeOK
<1>1. Searches => TypeOK
  BY DEF Searches
<1> QED BY InitSearches, NextSearches, <1>1, PTL DEF Spec

(* A search never leaves the component it was sent to, for every index     *)
(* whose layers are closed under the links that carry them.                *)
THEOREM StaysInComponentCorrect == Spec => []StaysInComponent
<1>1. Searches => StaysInComponent
  BY DEF Searches, Searching, Inside, StaysInComponent
<1> QED BY InitSearches, NextSearches, <1>1, PTL DEF Spec

(* However the threads overwrite each other's search_queue_length, no      *)
(* search holds more than the longest queue, nor fewer than two results.   *)
THEOREM ResultsBoundedCorrect == Spec => []ResultsBounded
<1>1. Searches => ResultsBounded
  <2> SUFFICES ASSUME Searches, NEW t \in Thread, Active(t)
               PROVE  /\ Cardinality(resultset[t]) <= Longest + OneMore(t)
                      /\ Cardinality(resultset[t]) >= 2
    BY DEF ResultsBounded, OneMore
  <2>1. Bounded(t)
    BY DEF Searches, Searching
  <2>2. Cardinality(resultset[t]) \in Nat
    BY <2>1, FS_CardinalityType DEF Bounded
  <2> QED BY <2>1, <2>2 DEF Bounded, OneMore
<1> QED BY InitSearches, NextSearches, <1>1, PTL DEF Spec
-----------------------------------------------------------------------------
(* Every round of the hops holds the query, so that it is at no hop.       *)
LEMMA QueryInRounds ==
  ASSUME NEW q \in Vertex
  PROVE  \A n \in 0 .. Cardinality(Vertex) : q \in Reached(q)[n]
<1> DEFINE K == Cardinality(Vertex)
<1> DEFINE Wider(S) == S \cup (InLayer \cap UNION {cur_graph_ori_adj[u] : u \in S})
<1> DEFINE F == [S \in SUBSET Vertex |-> Wider(S)]
<1> DEFINE P == {S \in SUBSET Vertex : q \in S}
<1> DEFINE Rounds(w) ==
      w = [n \in 0 .. K |-> IF n = 0 THEN {q} ELSE Wider(w[n - 1])]
<1>1. K \in Nat
  BY FS_CardinalityType, RetrieveAssumption
<1>2. {q} \in P
  OBVIOUS
<1>3. \A S \in P : F[S] \in P
  BY DEF InLayer
<1>4. PICK w : Iterate(K, {q}, F, w)
  <2> HIDE DEF K, F
  <2> QED BY <1>1, Iterates
<1>5. \A n \in 0 .. K : w[n] \in P
  <2> HIDE DEF K, F, P
  <2> QED BY <1>1, <1>2, <1>3, <1>4, RoundsKeep
<1>6. Rounds(w)
  <2>1. w = [n \in 0 .. K |-> IF n = 0 THEN {q} ELSE F[w[n - 1]]]
    BY <1>4 DEF Iterate
  <2>2. \A n \in 0 .. K : n # 0 => F[w[n - 1]] = Wider(w[n - 1])
    <3> TAKE n \in 0 .. K
    <3> HAVE n # 0
    <3>1. n - 1 \in 0 .. K
      BY <1>1
    <3>2. w[n - 1] \in SUBSET Vertex
      BY <1>5, <3>1
    <3> QED BY <3>2
  <2>3. \A n \in 0 .. K : (IF n = 0 THEN {q} ELSE F[w[n - 1]])
                            = (IF n = 0 THEN {q} ELSE Wider(w[n - 1]))
    BY <2>2
  <2> HIDE DEF F, K, Wider
  <2> QED BY <2>1, <2>3
<1> DEFINE r == CHOOSE x : Rounds(x)
<1>7. Rounds(r)
  <2> HIDE DEF Rounds
  <2> QED BY <1>6
<1>8. Reached(q) = [n \in DOMAIN r |-> r[n]]
  BY DEF Reached
<1>9. DOMAIN r = 0 .. K
  <2> HIDE DEF r
  <2> QED BY <1>7
<1>10. Reached(q) = r
  <2>1. r = [n \in 0 .. K |-> IF n = 0 THEN {q} ELSE Wider(r[n - 1])]
    <3> HIDE DEF r
    <3> QED BY <1>7
  <2> HIDE DEF r
  <2> QED BY <1>8, <1>9, <2>1
<1>11. \A n \in 0 .. K : r[n] \in P
  <2> DEFINE Bad == {n \in 0 .. K : r[n] \notin P}
  <2> HIDE DEF r
  <2>1. CASE Bad # {}
    <3>1. PICK n \in Bad : \A m \in Bad : n <= m
      <4>1. Bad \in SUBSET Nat
        BY <1>1
      <4> HIDE DEF Bad
      <4> QED BY <2>1, <4>1, LeastElement
    <3>2. r[n] = IF n = 0 THEN {q} ELSE Wider(r[n - 1])
      BY <1>7
    <3>3. n # 0
      BY <1>2, <3>2
    <3>4. n - 1 \in 0 .. K /\ ~(n <= n - 1)
      BY <1>1, <3>3
    <3>5. r[n - 1] \in P
      BY <3>1, <3>4
    <3>6. Wider(r[n - 1]) \in P
      BY <3>5 DEF InLayer
    <3> QED BY <3>2, <3>3, <3>6
  <2> QED BY <2>1
<1> QED BY <1>10, <1>11

(* What the search can reach stays in every set that the starts are in and *)
(* the links it sees do not leave.                                         *)
LEMMA ReachableWithin ==
  ASSUME NEW q, NEW V, Starts(q) \subseteq V,
         \A v \in V : \A j \in Seen(hier_adj[v]) : hier_adj[v][j].id \in V
  PROVE  Reachable(q) \subseteq V
<1> DEFINE K == Cardinality(Vertex)
<1> DEFINE Wider(S) ==
      S \cup UNION {{hier_adj[v][j].id : j \in Seen(hier_adj[v])} : v \in S}
<1> DEFINE F == [S \in SUBSET V |-> Wider(S)]
<1> DEFINE Rounds(w) ==
      w = [n \in 0 .. K |-> IF n = 0 THEN Starts(q) ELSE Wider(w[n - 1])]
<1>1. K \in Nat
  BY FS_CardinalityType, RetrieveAssumption
<1>2. \A S \in SUBSET V : Wider(S) \in SUBSET V /\ F[S] = Wider(S)
  OBVIOUS
<1>3. PICK w : Iterate(K, Starts(q), F, w)
  <2> HIDE DEF K, F
  <2> QED BY <1>1, Iterates
<1>4. \A n \in 0 .. K : w[n] \in SUBSET V
  <2>1. \A S \in SUBSET V : F[S] \in SUBSET V
    BY <1>2
  <2> DEFINE P == SUBSET V
  <2>2. Starts(q) \in P /\ \A S \in P : F[S] \in P
    BY <2>1
  <2> HIDE DEF K, F, P
  <2>3. \A n \in 0 .. K : w[n] \in P
    BY <1>1, <1>3, <2>2, RoundsKeep
  <2> QED BY <2>3 DEF P
<1>5. Rounds(w)
  <2>1. w = [n \in 0 .. K |-> IF n = 0 THEN Starts(q) ELSE F[w[n - 1]]]
    BY <1>3 DEF Iterate
  <2>2. \A n \in 0 .. K : n # 0 => F[w[n - 1]] = Wider(w[n - 1])
    <3> TAKE n \in 0 .. K
    <3> HAVE n # 0
    <3>1. n - 1 \in 0 .. K
      BY <1>1
    <3>2. w[n - 1] \in SUBSET V
      BY <1>4, <3>1
    <3> QED BY <1>2, <3>2
  <2>3. \A n \in 0 .. K : (IF n = 0 THEN Starts(q) ELSE F[w[n - 1]])
                            = (IF n = 0 THEN Starts(q) ELSE Wider(w[n - 1]))
    BY <2>2
  <2> HIDE DEF F, K, Wider
  <2> QED BY <2>1, <2>3
<1> DEFINE r == CHOOSE x : Rounds(x)
<1>6. Rounds(r)
  <2> HIDE DEF Rounds
  <2> QED BY <1>5
<1>7. Reachable(q) = r[K]
  BY DEF Reachable
<1>8. \A n \in 0 .. K : r[n] \in SUBSET V
  <2> DEFINE Bad == {n \in 0 .. K : r[n] \notin SUBSET V}
  <2> HIDE DEF r
  <2>1. CASE Bad # {}
    <3>1. PICK n \in Bad : \A m \in Bad : n <= m
      <4>1. Bad \in SUBSET Nat
        BY <1>1
      <4> HIDE DEF Bad
      <4> QED BY <2>1, <4>1, LeastElement
    <3>2. r[n] = IF n = 0 THEN Starts(q) ELSE Wider(r[n - 1])
      BY <1>6
    <3>3. n # 0
      BY <3>2
    <3>4. n - 1 \in 0 .. K /\ ~(n <= n - 1)
      BY <1>1, <3>3
    <3>5. r[n - 1] \in SUBSET V
      BY <3>1, <3>4
    <3>6. Wider(r[n - 1]) \in SUBSET V
      BY <1>2, <3>5
    <3> QED BY <3>2, <3>3, <3>6
  <2> QED BY <2>1
<1>9. K \in 0 .. K
  BY <1>1
<1> QED BY <1>7, <1>8, <1>9

(* No vertex is closer to the query than the query itself.                 *)
LEMMA QueryIsClosest ==
  ASSUME NEW q \in Vertex, NEW v \in Vertex
  PROVE  dist_to_q[q][q] <= dist_to_q[q][v]
<1>1. Hops(Reached(q), q) = {}
  <2> SUFFICES ASSUME NEW n \in 1 .. Cardinality(Vertex)
               PROVE  q \in Reached(q)[n - 1]
    BY DEF Hops
  <2>1. Cardinality(Vertex) \in Nat
    BY FS_CardinalityType, RetrieveAssumption
  <2>2. n - 1 \in 0 .. Cardinality(Vertex)
    BY <2>1
  <2> QED BY <2>2, QueryInRounds
<1>2. HopDist(Reached(q), q) = 0
  BY <1>1 DEF HopDist
<1>3. /\ dist_to_q[q][q] = Cal_Dist[q][q] + HopDist(Reached(q), q)
      /\ dist_to_q[q][v] = Cal_Dist[q][v] + HopDist(Reached(q), v)
  BY DEF dist_to_q
<1>4. HopDist(Reached(q), v) \in Nat
  BY HopDistInNat
<1>5. /\ Cal_Dist[q][q] \in Nat /\ Cal_Dist[q][v] \in Nat
      /\ Cal_Dist[q][q] <= Cal_Dist[q][v]
  BY RetrieveAssumption
<1> QED BY <1>2, <1>3, <1>4, <1>5

-----------------------------------------------------------------------------
(* A search that no other thread disturbs.  Its length is the one it asked *)
(* for; and if that is more than the two results it starts with: results   *)
(* carry their distances; what was visited and is no result is no closer   *)
(* than any result, nor than lowerBound; while there is room, all that was *)
(* visited is a result and all that was expanded has its links visited;    *)
(* and once a result was admitted, lowerBound is no less than any distance *)
(* in the queue, so that no search ends with room and with a vertex that   *)
(* is not expanded.                                                        *)
Asked(t) == QueueLength(query[t])
Held(t) == Cardinality(resultset[t])

Scored(t) ==
  \A e \in resultset[t] :
    IF e.own THEN e.id = query[t] /\ e.dist = 0 ELSE e.dist = Dist(t)[e.id]

DroppedFar(t) ==
  \A v \in vis[t] \ Ids(resultset[t]) :
    /\ lowerBound[t] <= Dist(t)[v]
    /\ \A e \in resultset[t] : e.dist <= Dist(t)[v]

Opened(t) ==
  \A v \in vis[t] \ expandset[t] : \A j \in Seen(hier_adj[v]) :
    hier_adj[v][j].id \in vis[t] \/ (v = cur[t] /\ j \in links[t])

RoomUsed(t) ==
  Held(t) < Asked(t) + OneMore(t) => vis[t] \subseteq Ids(resultset[t]) /\ Opened(t)

BoundCovers(t) ==
  pc[t] # "trim" /\ Held(t) > 2 => \A e \in resultset[t] : e.dist <= lowerBound[t]

Emptied(t) ==
  pc[t] = "post" /\ Held(t) > 2 /\ Held(t) < Asked(t) => expandset[t] = {}

Orderly(t) ==
  /\ Starts(query[t]) \cup expandset[t] \subseteq vis[t]
  /\ Scored(t) /\ DroppedFar(t) /\ RoomUsed(t) /\ BoundCovers(t) /\ Emptied(t)

Undisturbed(t) ==
  /\ search_queue_length = Asked(t)
  /\ Held(t) <= (IF Asked(t) > 2 THEN Asked(t) ELSE 2) + OneMore(t)
  /\ Asked(t) > 2 => Orderly(t)

Covered(t) ==
  L >= 3 /\ R <= 100 =>
    \/ Starved(t)
    \/ \E v \in Members(CurComponent(query[t])) : v \notin Reachable(query[t])

InQuota(a) ==
  L <= 12 /\ a.to # NoQuery =>
    Cardinality(a.kept) <= (IF Quota(a.to) < 2 THEN 2 ELSE Quota(a.to))

Steady(t) ==
  /\ Active(t) => Undisturbed(t)
  /\ pc[t] = "undefined" => Covered(t)
  /\ InQuota(answer[t])

(* A thread without queries never starts.                                  *)
Idle(t) == work[t] = <<>> => pc[t] = "ready"

SteadySearches ==
  /\ Searches
  /\ \A t \in Thread : Idle(t)
  /\ answer = [t \in Thread |-> answer[t]]
  /\ \A t \in Thread : Alone(t) => Steady(t)

LEMMA RunFacts ==
  ASSUME Searches, NEW t \in Thread, Active(t)
  PROVE  /\ query[t] \in Vertex /\ Dist(t) \in [Vertex -> Nat]
         /\ IsFiniteSet(resultset[t]) /\ Held(t) \in Nat /\ Asked(t) \in Nat
         /\ OneMore(t) \in {0, 1} /\ Held(t) >= 2 + OneMore(t)
         /\ vis[t] \subseteq Vertex /\ expandset[t] \subseteq Vertex
         /\ lowerBound[t] \in Nat
         /\ \A e \in resultset[t] : e.dist \in Nat /\ e.id \in Vertex /\ e.own \in BOOLEAN
<1>1. TypeOK /\ Inside(t) /\ Bounded(t)
  BY DEF Searches, Searching
<1>2. query[t] \in Vertex
  BY <1>1 DEF Inside
<1>3. Dist(t) \in [Vertex -> Nat]
  BY <1>2, DistType DEF Dist
<1>4. IsFiniteSet(resultset[t]) /\ Held(t) \in Nat
  BY <1>1, FS_CardinalityType DEF Bounded, Held
<1>5. Asked(t) \in Nat
  BY <1>2, QueueLengthInNat DEF Asked
<1>6. OneMore(t) \in {0, 1} /\ Held(t) >= 2 + OneMore(t)
  BY <1>1 DEF Bounded, OneMore, Held
<1>7. \A e \in resultset[t] : e.dist \in Nat /\ e.id \in Vertex /\ e.own \in BOOLEAN
  <2> DEFINE E == [dist : Nat, id : Vertex, own : BOOLEAN]
  <2>1. resultset \in [Thread -> SUBSET E]
    BY <1>1 DEF TypeOK
  <2>2. \A e \in E : e.dist \in Nat /\ e.id \in Vertex /\ e.own \in BOOLEAN
    OBVIOUS
  <2> HIDE DEF E
  <2> QED BY <2>1, <2>2
<1>8. /\ vis[t] \subseteq Vertex /\ expandset[t] \subseteq Vertex
      /\ lowerBound[t] \in Nat
  BY <1>1 DEF TypeOK
<1> QED BY <1>2, <1>3, <1>4, <1>5, <1>6, <1>7, <1>8

(* Only a thread with queries takes a step.                                *)
LEMMA StepHasWork ==
  ASSUME SteadySearches, NEW t \in Thread, Step(t)
  PROVE  work[t] # <<>>
<1> SUFFICES ASSUME work[t] = <<>> PROVE FALSE
  OBVIOUS
<1>1. pc[t] = "ready" /\ next[t] \in Nat \ {0}
  BY DEF SteadySearches, Idle, Searches, TypeOK
<1>2. ~Taking(t)
  BY <1>1 DEF Taking
<1> QED BY <1>1, <1>2 DEF Step, Reject, Begin, Expand, PassOver, Looking, Admit,
                          Trim, Stop, Post, PopEmpty

(* A search begins undisturbed.                                            *)
LEMMA BeginSteady ==
  ASSUME SteadySearches, NEW t \in Thread, Begin(t)
  PROVE  Undisturbed(t)'
<1> DEFINE q == ori_2_cnns(work[t][next[t]])
<1> DEFINE sp == sp_l_list[CurComponent(q)]
<1>1. q \in Vertex
  BY DEF Begin, Supported, ori_2_cnns
<1>2. TypeOK
  BY DEF SteadySearches, Searches
<1>3. /\ search_queue_length' = QueueLength(q)
      /\ query'[t] = q /\ vis'[t] = Starts(q) /\ expandset'[t] = Starts(q)
      /\ resultset'[t] = {Entry(q, sp), Own(q)}
      /\ pc'[t] = "search"
  BY <1>2 DEF TypeOK, Begin
<1>4. Starts(q) = {sp} \cup ({q} \cap InLayer)
  BY DEF Starts
<1>5. QueueLength(q) \in Nat
  BY <1>1, QueueLengthInNat
<1> HIDE DEF q, sp
<1>6. /\ Entry(q, sp).id = sp /\ ~Entry(q, sp).own
      /\ Entry(q, sp).dist = dist_to_q[q][sp]
      /\ Own(q).own /\ Own(q).id = q /\ Own(q).dist = 0
      /\ Entry(q, sp) # Own(q)
  BY DEF Entry, Own
<1>7. Held(t)' = 2 /\ Asked(t)' = QueueLength(q) /\ OneMore(t)' = 0
  <2>1. IsFiniteSet({Own(q)}) /\ Cardinality({Own(q)}) = 1
    BY FS_Singleton
  <2>2. {Entry(q, sp), Own(q)} = {Own(q)} \cup {Entry(q, sp)} /\ Entry(q, sp) \notin {Own(q)}
    BY <1>6
  <2>3. Cardinality({Entry(q, sp), Own(q)}) = 2
    BY <2>1, <2>2, FS_AddElement
  <2> QED BY <1>3, <2>3 DEF Held, Asked, OneMore
<1>8. vis'[t] \subseteq Ids(resultset[t])'
  BY <1>3, <1>4, <1>6 DEF Ids
<1>9. Scored(t)'
  BY <1>3, <1>6 DEF Scored, Dist
<1>10. DroppedFar(t)'
  BY <1>8 DEF DroppedFar
<1>11. RoomUsed(t)'
  BY <1>3, <1>8 DEF RoomUsed, Opened
<1>12. BoundCovers(t)' /\ Emptied(t)'
  BY <1>3, <1>7 DEF BoundCovers, Emptied
<1>13. Orderly(t)'
  BY <1>3, <1>9, <1>10, <1>11, <1>12 DEF Orderly
<1> QED BY <1>3, <1>5, <1>7, <1>13 DEF Undisturbed

LEMMA ExpandSteady ==
  ASSUME SteadySearches, NEW t \in Thread, Expand(t), Undisturbed(t)
  PROVE  Undisturbed(t)'
<1>1. Searches /\ TypeOK
  BY DEF SteadySearches, Searches
<1>2. PICK v \in expandset[t] :
        /\ expandset'[t] = expandset[t] \ {v} /\ cur'[t] = v
        /\ links'[t] = Seen(hier_adj[v])
  BY <1>1 DEF TypeOK, Expand, Closest
<1>3. /\ pc[t] = "search" /\ links[t] = {} /\ pc' = pc /\ query' = query /\ vis' = vis
      /\ resultset' = resultset /\ hier_adj' = hier_adj
      /\ search_queue_length' = search_queue_length /\ lowerBound' = lowerBound
  BY SetupKept DEF Expand
<1>4. Held(t)' = Held(t) /\ Asked(t)' = Asked(t) /\ OneMore(t)' = OneMore(t)
  BY <1>3 DEF Held, Asked, OneMore
<1>5. ASSUME Orderly(t) PROVE Orderly(t)'
  <2>1. (Starts(query[t]) \cup expandset[t] \subseteq vis[t])'
    BY <1>2, <1>3, <1>5 DEF Orderly
  <2>2. Scored(t)' /\ DroppedFar(t)'
    BY <1>3, <1>5 DEF Orderly, Scored, DroppedFar, Dist
  <2>3. Opened(t) => Opened(t)'
    BY <1>2, <1>3 DEF Opened
  <2>4. RoomUsed(t)'
    BY <1>3, <1>4, <1>5, <2>3 DEF Orderly, RoomUsed
  <2>5. BoundCovers(t)' /\ Emptied(t)'
    BY <1>3, <1>4, <1>5 DEF Orderly, BoundCovers, Emptied
  <2> QED BY <2>1, <2>2, <2>4, <2>5 DEF Orderly
<1> QED BY <1>3, <1>4, <1>5 DEF Undisturbed

LEMMA PassOverSteady ==
  ASSUME SteadySearches, NEW t \in Thread, PassOver(t), Undisturbed(t)
  PROVE  Undisturbed(t)'
<1>1. Searches /\ TypeOK
  BY DEF SteadySearches, Searches
<1>2. PICK j \in links[t] :
        /\ Looking(t, j)
        /\ Neighbour(t, j) \in vis[t] \/ ~Admits(t, Neighbour(t, j))
        /\ vis' = [vis EXCEPT ![t] = Marked(t, Neighbour(t, j))]
        /\ links' = [links EXCEPT ![t] = @ \ {j}]
  BY DEF PassOver
<1>3. /\ pc[t] = "search" /\ pc' = pc /\ query' = query /\ expandset' = expandset
      /\ resultset' = resultset /\ hier_adj' = hier_adj /\ cur' = cur
      /\ search_queue_length' = search_queue_length /\ lowerBound' = lowerBound
  BY <1>2, SetupKept DEF PassOver, Looking
<1> DEFINE i == Neighbour(t, j)
<1>4. vis'[t] = vis[t] \cup {i} /\ links'[t] = links[t] \ {j}
  BY <1>1, <1>2 DEF TypeOK, Marked
<1>5. Held(t)' = Held(t) /\ Asked(t)' = Asked(t) /\ OneMore(t)' = OneMore(t)
  BY <1>3 DEF Held, Asked, OneMore
<1>6. Active(t) /\ OneMore(t) = 0
  BY <1>3 DEF Active, OneMore
<1>7. i \in Vertex
  BY <1>1, <1>6, NeighbourInside, MembersAreVertices
<1>8. /\ Dist(t) \in [Vertex -> Nat] /\ Held(t) \in Nat /\ Asked(t) \in Nat
      /\ vis[t] \subseteq Vertex /\ lowerBound[t] \in Nat
      /\ \A e \in resultset[t] : e.dist \in Nat
  BY <1>1, <1>6, RunFacts
<1>9. i = hier_adj[cur[t]][j].id
  BY DEF Neighbour
<1>10. i \in vis[t] \/ (Held(t) >= search_queue_length /\ lowerBound[t] <= Dist(t)[i])
  <2>1. CASE i \in vis[t]
    BY <2>1
  <2>2. CASE i \notin vis[t]
    <3>1. ~(Held(t) < search_queue_length) /\ ~(Dist(t)[i] < lowerBound[t])
      BY <1>2, <2>2 DEF Admits, Held
    <3>2. search_queue_length \in Nat /\ Dist(t)[i] \in Nat
      BY <1>1, <1>7, <1>8 DEF TypeOK
    <3> QED BY <1>8, <3>1, <3>2
  <2> QED BY <2>1, <2>2
<1> HIDE DEF i
<1>11. ASSUME Orderly(t), Asked(t) > 2, search_queue_length = Asked(t) PROVE Orderly(t)'
  <2>1. (Starts(query[t]) \cup expandset[t] \subseteq vis[t])'
    BY <1>3, <1>4, <1>11 DEF Orderly
  <2>2. Scored(t)'
    BY <1>3, <1>11 DEF Orderly, Scored, Dist
  <2>3. DroppedFar(t)'
    <3>1. CASE i \in vis[t]
      <4>1. vis'[t] = vis[t]
        BY <1>4, <3>1
      <4> QED BY <1>3, <1>11, <4>1 DEF Orderly, DroppedFar, Dist
    <3>2. CASE i \notin vis[t]
      <4>1. Held(t) > 2
        BY <1>8, <1>10, <1>11, <3>2
      <4>2. \A e \in resultset[t] : e.dist <= lowerBound[t]
        BY <1>3, <1>11, <4>1 DEF Orderly, BoundCovers
      <4>3. lowerBound[t] <= Dist(t)[i] /\ Dist(t)[i] \in Nat
        BY <1>7, <1>8, <1>10, <3>2
      <4>4. \A e \in resultset[t] : e.dist <= Dist(t)[i]
        BY <1>8, <4>2, <4>3
      <4>5. \A v \in vis[t] \ Ids(resultset[t]) :
              /\ lowerBound[t] <= Dist(t)[v]
              /\ \A e \in resultset[t] : e.dist <= Dist(t)[v]
        BY <1>11 DEF Orderly, DroppedFar
      <4>6. Dist(t)' = Dist(t)
        BY <1>3 DEF Dist
      <4> QED BY <1>3, <1>4, <4>3, <4>4, <4>5, <4>6 DEF DroppedFar
    <3> QED BY <3>1, <3>2
  <2>4. RoomUsed(t)'
    <3> SUFFICES ASSUME Held(t) < Asked(t)
                 PROVE  (vis[t] \subseteq Ids(resultset[t]) /\ Opened(t))'
      BY <1>5, <1>6, <1>8 DEF RoomUsed
    <3>1. i \in vis[t]
      BY <1>8, <1>10, <1>11
    <3>2. vis[t] \subseteq Ids(resultset[t]) /\ Opened(t)
      BY <1>6, <1>8, <1>11 DEF Orderly, RoomUsed
    <3>3. vis'[t] = vis[t]
      BY <1>4, <3>1
    <3>4. Opened(t)'
      BY <1>3, <1>4, <1>9, <3>1, <3>2, <3>3 DEF Opened
    <3> QED BY <1>3, <3>2, <3>3, <3>4
  <2>5. BoundCovers(t)' /\ Emptied(t)'
    BY <1>3, <1>5, <1>11 DEF Orderly, BoundCovers, Emptied
  <2> QED BY <2>1, <2>2, <2>3, <2>4, <2>5 DEF Orderly
<1> QED BY <1>3, <1>5, <1>11 DEF Undisturbed

(* An admitted result is closer than all that was dropped, or nothing was. *)
LEMMA AdmitSteady ==
  ASSUME SteadySearches, NEW t \in Thread, Admit(t), Undisturbed(t)
  PROVE  Undisturbed(t)'
<1>1. Searches /\ TypeOK
  BY DEF SteadySearches, Searches
<1>2. PICK j \in links[t] :
        /\ Looking(t, j) /\ Neighbour(t, j) \notin vis[t]
        /\ Admits(t, Neighbour(t, j))
        /\ vis' = [vis EXCEPT ![t] = Marked(t, Neighbour(t, j))]
        /\ expandset' = [expandset EXCEPT ![t] = @ \cup {Neighbour(t, j)}]
        /\ resultset' = [resultset EXCEPT ![t] =
                           @ \cup {Entry(query[t], Neighbour(t, j))}]
        /\ pc' = [pc EXCEPT ![t] = "trim"]
        /\ links' = [links EXCEPT ![t] = @ \ {j}]
        /\ query' = query /\ cur' = cur /\ hier_adj' = hier_adj
        /\ search_queue_length' = search_queue_length /\ lowerBound' = lowerBound
  BY SetupKept DEF Admit
<1> DEFINE i == Neighbour(t, j)
<1> DEFINE e == Entry(query[t], i)
<1>3. pc[t] = "search" /\ Active(t) /\ OneMore(t) = 0 /\ Inside(t)
  BY <1>1, <1>2 DEF Looking, Active, OneMore, Searches, Searching
<1>4. /\ vis'[t] = vis[t] \cup {i} /\ expandset'[t] = expandset[t] \cup {i}
      /\ resultset'[t] = resultset[t] \cup {e} /\ pc'[t] = "trim"
      /\ links'[t] = links[t] \ {j}
  BY <1>1, <1>2 DEF TypeOK, Marked
<1>5. i \in Vertex
  BY <1>1, <1>3, NeighbourInside, MembersAreVertices
<1>6. /\ query[t] \in Vertex /\ Dist(t) \in [Vertex -> Nat]
      /\ IsFiniteSet(resultset[t]) /\ Held(t) \in Nat /\ Asked(t) \in Nat
      /\ vis[t] \subseteq Vertex /\ lowerBound[t] \in Nat
      /\ \A f \in resultset[t] : f.dist \in Nat
  BY <1>1, <1>3, RunFacts
<1>7. e.id = i /\ ~e.own /\ e.dist = Dist(t)[i]
  BY DEF Entry, Dist
<1>8. i \notin vis[t] /\ i = hier_adj[cur[t]][j].id
  BY <1>2 DEF Neighbour
<1>9. Held(t) < search_queue_length \/ Dist(t)[i] < lowerBound[t]
  BY <1>2 DEF Admits, Held
<1> HIDE DEF i, e
<1>10. e \notin resultset[t]
  BY <1>3, <1>7, <1>8 DEF Inside
<1>11. Cardinality(resultset[t] \cup {e}) = Held(t) + 1
  BY <1>6, <1>10, FS_AddElement DEF Held
<1>12. Held(t)' = Held(t) + 1 /\ Asked(t)' = Asked(t) /\ OneMore(t)' = 1
  BY <1>2, <1>4, <1>11 DEF Held, Asked, OneMore
<1>13. Dist(t)' = Dist(t)
  BY <1>2 DEF Dist
<1>14. Ids(resultset[t])' = Ids(resultset[t]) \cup {i}
  BY <1>4, <1>7 DEF Ids
<1>15. ASSUME Orderly(t), search_queue_length = Asked(t) PROVE Orderly(t)'
  <2>1. (Starts(query[t]) \cup expandset[t] \subseteq vis[t])'
    BY <1>2, <1>4, <1>15 DEF Orderly
  <2>2. Scored(t)'
    <3>1. \A f \in resultset[t] :
            IF f.own THEN f.id = query[t] /\ f.dist = 0 ELSE f.dist = Dist(t)[f.id]
      BY <1>15 DEF Orderly, Scored
    <3> QED BY <1>2, <1>4, <1>7, <1>13, <3>1 DEF Scored
  <2>3. \A v \in vis[t] \ Ids(resultset[t]) :
          /\ lowerBound[t] <= Dist(t)[v]
          /\ \A f \in resultset[t] : f.dist <= Dist(t)[v]
    BY <1>15 DEF Orderly, DroppedFar
  <2>4. ASSUME NEW v \in vis[t] \ Ids(resultset[t]) PROVE e.dist <= Dist(t)[v]
    <3>1. ~(vis[t] \subseteq Ids(resultset[t]))
      BY <2>4
    <3>2. ~(Held(t) < Asked(t))
      BY <1>3, <1>6, <1>15, <3>1 DEF Orderly, RoomUsed
    <3>3. Dist(t)[i] < lowerBound[t]
      BY <1>9, <1>15, <3>2
    <3>4. lowerBound[t] <= Dist(t)[v]
      BY <2>3
    <3>5. Dist(t)[i] \in Nat /\ Dist(t)[v] \in Nat
      BY <1>5, <1>6
    <3> QED BY <1>6, <1>7, <3>3, <3>4, <3>5
  <2>5. DroppedFar(t)'
    <3>1. \A v \in vis[t] \ Ids(resultset[t]) :
            /\ lowerBound[t] <= Dist(t)[v]
            /\ \A f \in resultset[t] \cup {e} : f.dist <= Dist(t)[v]
      BY <2>3, <2>4
    <3>2. (vis[t] \ Ids(resultset[t]))' \subseteq vis[t] \ Ids(resultset[t])
      BY <1>4, <1>14
    <3> QED BY <1>2, <1>4, <1>13, <3>1, <3>2 DEF DroppedFar
  <2>6. RoomUsed(t)'
    <3> SUFFICES ASSUME Held(t) < Asked(t)
                 PROVE  (vis[t] \subseteq Ids(resultset[t]) /\ Opened(t))'
      BY <1>6, <1>12 DEF RoomUsed
    <3>1. vis[t] \subseteq Ids(resultset[t]) /\ Opened(t)
      BY <1>3, <1>6, <1>15 DEF Orderly, RoomUsed
    <3>2. Opened(t)'
      BY <1>2, <1>4, <1>8, <3>1 DEF Opened
    <3> QED BY <1>4, <1>14, <3>1, <3>2
  <2>7. BoundCovers(t)' /\ Emptied(t)'
    BY <1>4 DEF BoundCovers, Emptied
  <2> QED BY <2>1, <2>2, <2>5, <2>6, <2>7 DEF Orderly
<1>16. /\ search_queue_length = Asked(t)
       /\ Held(t) <= (IF Asked(t) > 2 THEN Asked(t) ELSE 2) + OneMore(t)
       /\ Asked(t) > 2 => Orderly(t)
  BY DEF Undisturbed
<1>17. Held(t)' <= (IF Asked(t)' > 2 THEN Asked(t)' ELSE 2) + OneMore(t)'
  BY <1>3, <1>6, <1>12, <1>16
<1> QED BY <1>2, <1>12, <1>15, <1>16, <1>17 DEF Undisturbed

(* A trim drops a farthest result and leaves lowerBound at the new         *)
(* farthest.                                                               *)
LEMMA TrimSteady ==
  ASSUME SteadySearches, NEW t \in Thread, Trim(t), Undisturbed(t)
  PROVE  Undisturbed(t)'
<1>1. Searches /\ TypeOK
  BY DEF SteadySearches, Searches
<1>2. PICK S \in Shortened(resultset[t]) :
        /\ resultset' = [resultset EXCEPT ![t] = S]
        /\ lowerBound' = [lowerBound EXCEPT ![t] = Bound(@, S)]
  BY DEF Trim
<1>3. /\ pc[t] = "trim" /\ pc' = [pc EXCEPT ![t] = "search"]
      /\ UNCHANGED <<setup, search_queue_length, query, vis, expandset, cur, links>>
      /\ hier_adj' = hier_adj
  BY SetupKept DEF Trim
<1>4. Active(t) /\ OneMore(t) = 1
  BY <1>3 DEF Active, OneMore
<1>5. /\ Dist(t) \in [Vertex -> Nat] /\ query[t] \in Vertex
      /\ IsFiniteSet(resultset[t]) /\ Held(t) \in Nat /\ Asked(t) \in Nat
      /\ Held(t) >= 3 /\ vis[t] \subseteq Vertex
      /\ \A f \in resultset[t] : f.dist \in Nat /\ f.id \in Vertex /\ f.own \in BOOLEAN
  BY <1>1, <1>4, RunFacts
<1>6. S \subseteq resultset[t] /\ S # {}
  BY <1>1, <1>2, <1>3, ShortenedIsPart
<1>7. /\ resultset'[t] = S /\ lowerBound'[t] = Bound(lowerBound[t], S)
      /\ pc'[t] = "search"
  BY <1>1, <1>2, <1>3 DEF TypeOK
<1>8. PICK far \in S : lowerBound'[t] = far.dist /\ \A f \in S : f.dist <= far.dist
  <2> DEFINE E == [dist : Nat, id : Vertex, own : BOOLEAN]
  <2>1. IsFiniteSet(S)
    BY <1>5, <1>6, FS_Subset
  <2>2. resultset \in [Thread -> SUBSET E]
    BY <1>1 DEF TypeOK
  <2>3. S \subseteq E
    <3> HIDE DEF E
    <3> QED BY <1>6, <2>2
  <2>4. Farthest(S) # {}
    BY <1>6, <2>1, <2>3, FarthestExists
  <2>5. (CHOOSE f \in Farthest(S) : TRUE) \in Farthest(S)
    BY <2>4
  <2> QED BY <1>6, <1>7, <2>5 DEF Bound, Farthest
<1>9. Asked(t)' = Asked(t) /\ Dist(t)' = Dist(t) /\ OneMore(t)' = 0
  BY <1>3, <1>7 DEF Asked, Dist, OneMore
<1>10. /\ search_queue_length = Asked(t)
       /\ Held(t) <= (IF Asked(t) > 2 THEN Asked(t) ELSE 2) + 1
       /\ Asked(t) > 2 => Orderly(t)
  BY <1>4 DEF Undisturbed
<1>11. \/ /\ Held(t) > Asked(t)
          /\ Held(t)' = Held(t) - 1
          /\ \E f \in resultset[t] : S = resultset[t] \ {f}
               /\ \A g \in resultset[t] : g.dist <= f.dist
       \/ Held(t) <= Asked(t) /\ S = resultset[t] /\ Held(t)' = Held(t)
  <2>1. CASE Trims(resultset[t])
    <3>1. PICK f \in resultset[t] :
            S = resultset[t] \ {f} /\ \A g \in resultset[t] : g.dist <= f.dist
      BY <1>2, <2>1 DEF Shortened, Farthest
    <3>2. Cardinality(S) = Held(t) - 1
      BY <1>5, <3>1, FS_RemoveElement DEF Held
    <3>3. Held(t) > Asked(t)
      BY <1>10, <2>1 DEF Trims, Held
    <3>4. Held(t)' = Held(t) - 1
      BY <1>7, <3>2 DEF Held
    <3> QED BY <3>1, <3>3, <3>4
  <2>2. CASE ~Trims(resultset[t])
    <3>1. S = resultset[t]
      BY <1>2, <2>2 DEF Shortened
    <3>2. ~(Held(t) > Asked(t))
      BY <1>10, <2>2 DEF Trims, Held
    <3>3. Held(t)' = Held(t)
      BY <1>7, <3>1 DEF Held
    <3> QED BY <1>5, <3>1, <3>2, <3>3
  <2> QED BY <2>1, <2>2
<1>12. ASSUME Orderly(t) PROVE Orderly(t)'
  <2>1. (Starts(query[t]) \cup expandset[t] \subseteq vis[t])'
    BY <1>3, <1>12 DEF Orderly
  <2>2. \A f \in resultset[t] :
          IF f.own THEN f.id = query[t] /\ f.dist = 0 ELSE f.dist = Dist(t)[f.id]
    BY <1>12 DEF Orderly, Scored
  <2>3. Scored(t)'
    BY <1>3, <1>6, <1>7, <1>9, <2>2 DEF Scored
  <2>4. ASSUME NEW v \in vis[t] \ Ids(S), NEW f \in S PROVE f.dist <= Dist(t)[v]
    <3>1. CASE v \notin Ids(resultset[t])
      BY <1>6, <1>12, <2>4, <3>1 DEF Orderly, DroppedFar
    <3>2. CASE v \in Ids(resultset[t])
      <4>1. PICK e \in resultset[t] : e.id = v
        BY <3>2 DEF Ids
      <4>2. e \notin S
        BY <2>4, <4>1 DEF Ids
      <4>3. f.dist <= e.dist
        BY <1>6, <1>11, <4>1, <4>2
      <4>4. e.dist <= Dist(t)[v]
        BY <1>5, <2>2, <4>1
      <4> QED BY <1>5, <1>6, <4>1, <4>3, <4>4
    <3> QED BY <3>1, <3>2
  <2>5. DroppedFar(t)'
    BY <1>3, <1>7, <1>8, <1>9, <2>4 DEF DroppedFar
  <2>6. RoomUsed(t)'
    <3> SUFFICES ASSUME Held(t)' < Asked(t)
                 PROVE  (vis[t] \subseteq Ids(resultset[t]) /\ Opened(t))'
      BY <1>5, <1>9 DEF RoomUsed
    <3>1. S = resultset[t] /\ Held(t) < Asked(t)
      BY <1>5, <1>11
    <3>2. vis[t] \subseteq Ids(resultset[t]) /\ Opened(t)
      BY <1>4, <1>5, <1>12, <3>1 DEF Orderly, RoomUsed
    <3>3. Opened(t)'
      BY <1>3, <3>2 DEF Opened
    <3> QED BY <1>3, <1>7, <3>1, <3>2, <3>3
  <2>7. BoundCovers(t)' /\ Emptied(t)'
    BY <1>7, <1>8 DEF BoundCovers, Emptied
  <2> QED BY <2>1, <2>3, <2>5, <2>6, <2>7 DEF Orderly
<1>13. Held(t)' <= (IF Asked(t)' > 2 THEN Asked(t)' ELSE 2) + OneMore(t)'
  BY <1>5, <1>9, <1>10, <1>11
<1> QED BY <1>3, <1>9, <1>10, <1>12, <1>13 DEF Undisturbed

(* A search that stops with room has nothing left to expand.               *)
LEMMA StopSteady ==
  ASSUME SteadySearches, NEW t \in Thread, Stop(t), Undisturbed(t)
  PROVE  Undisturbed(t)'
<1>1. Searches /\ TypeOK
  BY DEF SteadySearches, Searches
<1>2. /\ pc[t] = "search" /\ links[t] = {} /\ \A v \in Closest(t) : Beyond(t, v)
      /\ hier_adj' = hier_adj /\ search_queue_length' = search_queue_length
      /\ query' = query /\ vis' = vis /\ expandset' = expandset
      /\ resultset' = resultset /\ lowerBound' = lowerBound /\ cur' = cur
      /\ links' = links
  BY SetupKept DEF Stop, local
<1>3. Active(t) /\ OneMore(t) = 0 /\ pc'[t] = "post"
  BY <1>1, <1>2 DEF TypeOK, Stop, Active, OneMore
<1>4. Held(t)' = Held(t) /\ Asked(t)' = Asked(t) /\ OneMore(t)' = OneMore(t)
  BY <1>2, <1>3 DEF Held, Asked, OneMore
<1>5. /\ query[t] \in Vertex /\ Dist(t) \in [Vertex -> Nat]
      /\ IsFiniteSet(resultset[t]) /\ Held(t) \in Nat /\ Asked(t) \in Nat
      /\ expandset[t] \subseteq Vertex /\ lowerBound[t] \in Nat
      /\ \A f \in resultset[t] : f.dist \in Nat /\ f.id \in Vertex /\ f.own \in BOOLEAN
  BY <1>1, <1>3, RunFacts
<1>6. ASSUME Orderly(t), Held(t) > 2, Held(t) < Asked(t) PROVE expandset[t] = {}
  <2> SUFFICES ASSUME expandset[t] # {} PROVE FALSE
    OBVIOUS
  <2>1. \A e \in resultset[t] : e.dist <= lowerBound[t]
    BY <1>2, <1>6 DEF Orderly, BoundCovers
  <2>2. expandset[t] \subseteq Ids(resultset[t])
    BY <1>3, <1>5, <1>6 DEF Orderly, RoomUsed
  <2>3. PICK f \in resultset[t] : ~f.own
    <3> SUFFICES ASSUME \A f \in resultset[t] : f.own PROVE FALSE
      BY <1>5
    <3>1. \A f \in resultset[t] : f.id = query[t] /\ f.dist = 0 /\ f.own = TRUE
      BY <1>5, <1>6 DEF Orderly, Scored
    <3>2. \A f, g \in resultset[t] : f = g
      <4> DEFINE E == [dist : Nat, id : Vertex, own : BOOLEAN]
      <4>1. \A f, g \in E : f.dist = g.dist /\ f.id = g.id /\ f.own = g.own => f = g
        OBVIOUS
      <4>2. resultset \in [Thread -> SUBSET E]
        BY <1>1 DEF TypeOK
      <4>3. resultset[t] \subseteq E
        <5> HIDE DEF E
        <5> QED BY <4>2
      <4> QED BY <3>1, <4>1, <4>3
    <3>3. resultset[t] # {}
      BY <1>5, <1>6, FS_EmptySet DEF Held
    <3>4. PICK f \in resultset[t] : TRUE
      BY <3>3
    <3>5. resultset[t] = {f}
      BY <3>2, <3>4
    <3>6. Held(t) = 1
      BY <3>5, FS_Singleton DEF Held
    <3> QED BY <1>6, <3>6
  <2>4. ASSUME NEW v \in expandset[t] PROVE Dist(t)[v] <= lowerBound[t]
    <3>1. PICK e \in resultset[t] : e.id = v
      BY <2>2, <2>4 DEF Ids
    <3>2. Dist(t)[v] \in Nat
      BY <1>5, <2>4
    <3>3. CASE ~e.own
      <4>1. e.dist = Dist(t)[v]
        BY <1>6, <3>1, <3>3 DEF Orderly, Scored
      <4> QED BY <2>1, <3>1, <4>1
    <3>4. CASE e.own
      <4>1. v = query[t]
        BY <1>6, <3>1, <3>4 DEF Orderly, Scored
      <4>2. f.dist = Dist(t)[f.id] /\ f.id \in Vertex /\ f.dist \in Nat
        BY <1>5, <1>6, <2>3 DEF Orderly, Scored
      <4>3. Dist(t)[v] <= f.dist
        BY <1>5, <4>1, <4>2, QueryIsClosest DEF Dist
      <4> QED BY <1>5, <2>1, <2>3, <3>2, <4>2, <4>3
    <3> QED BY <1>5, <3>1, <3>3, <3>4
  <2>5. Closest(t) # {}
    <3> DEFINE D == {Dist(t)[v] : v \in expandset[t]}
    <3>1. D \in SUBSET Nat /\ D # {}
      BY <1>5
    <3>2. \E d \in D : \A b \in D : d <= b
      <4> HIDE DEF D
      <4> QED BY <3>1, LeastElement
    <3>3. PICK v \in expandset[t] : \A b \in D : Dist(t)[v] <= b
      BY <3>2
    <3>4. v \in Closest(t)
      BY <3>3 DEF Closest
    <3> QED BY <3>4
  <2>6. PICK v \in Closest(t) : TRUE
    BY <2>5
  <2>7. Dist(t)[v] > lowerBound[t] /\ v \in expandset[t]
    BY <1>2, <2>6 DEF Beyond, Closest
  <2>8. Dist(t)[v] <= lowerBound[t] /\ Dist(t)[v] \in Nat
    BY <1>5, <2>4, <2>7
  <2> QED BY <1>5, <2>7, <2>8
<1>7. ASSUME Orderly(t) PROVE Orderly(t)'
  <2>1. (Starts(query[t]) \cup expandset[t] \subseteq vis[t])'
    BY <1>2, <1>7 DEF Orderly
  <2>2. Scored(t)' /\ DroppedFar(t)'
    BY <1>2, <1>7 DEF Orderly, Scored, DroppedFar, Dist
  <2>3. RoomUsed(t)'
    BY <1>2, <1>4, <1>7 DEF Orderly, RoomUsed, Opened
  <2>4. BoundCovers(t)'
    BY <1>2, <1>4, <1>7 DEF Orderly, BoundCovers
  <2>5. Emptied(t)'
    BY <1>2, <1>4, <1>6, <1>7 DEF Emptied
  <2> QED BY <2>1, <2>2, <2>3, <2>4, <2>5 DEF Orderly
<1> QED BY <1>2, <1>4, <1>7 DEF Undisturbed

-----------------------------------------------------------------------------
(* Lengths, quotas and surpluses are fractions of one product.             *)
LEMMA Fractions ==
  ASSUME NEW q \in Vertex
  PROVE  \E N, x \in Nat :
           /\ N = node_num(CurComponent(q)) /\ x = N * R
           /\ L * x \in Nat
           /\ QueueLength(q) = (L * x) \div 1000
           /\ Surplus(q) = (2 * x + 999) \div 1000
           /\ Quota(q) = x \div 100
<1>1. PICK N \in Nat : N = node_num(CurComponent(q))
  BY NodeNumInNat
<1>2. R \in Nat /\ L \in Nat
  BY RetrieveAssumption
<1>3. PICK x \in Nat : x = N * R
  BY <1>2, ProductInNat
<1>4. (L * N) * R = L * x /\ (2 * N) * R = 2 * x
  BY <1>2, <1>3
<1>5. L * x \in Nat
  BY <1>2, ProductInNat
<1> QED BY <1>1, <1>3, <1>4, <1>5 DEF QueueLength, Surplus, Quota

LEMMA ProductMonotone ==
  ASSUME NEW a \in Nat, NEW b \in Nat, NEW c \in Nat, a <= b
  PROVE  a * c <= b * c /\ c * a <= c * b
<1>1. PICK d \in Nat : b = a + d
  BY b - a \in Nat
<1>2. b * c = a * c + d * c
  BY <1>1
<1>3. d * c \in Nat /\ a * c \in Nat /\ b * c \in Nat
  BY ProductInNat
<1>4. a * c <= b * c
  BY <1>2, <1>3
<1>5. c * a = a * c /\ c * b = b * c
  OBVIOUS
<1> QED BY <1>4, <1>5

(* What a full queue holds beyond the surplus is within the quota.         *)
LEMMA SurplusLeavesQuota ==
  ASSUME NEW q \in Vertex, L <= 12
  PROVE  /\ Surplus(q) \in Nat /\ Quota(q) \in Nat
         /\ QueueLength(q) - Surplus(q) <= Quota(q)
<1>1. PICK N, x \in Nat :
        /\ N = node_num(CurComponent(q)) /\ x = N * R
        /\ L * x \in Nat
        /\ QueueLength(q) = (L * x) \div 1000
        /\ Surplus(q) = (2 * x + 999) \div 1000
        /\ Quota(q) = x \div 100
  BY Fractions
<1>2. PICK y \in Nat : y = L * x
  BY <1>1
<1>3. y <= 12 * x
  <2>1. L \in Nat
    BY RetrieveAssumption
  <2>2. L * x <= 12 * x
    BY <2>1, ProductMonotone
  <2> QED BY <1>2, <2>2
<1>4. y \div 1000 - (2 * x + 999) \div 1000 <= x \div 100
  BY <1>3, SMTT(60)
<1>5. (2 * x + 999) \div 1000 \in Nat /\ x \div 100 \in Nat
  BY HundredthsInNat
<1> QED BY <1>1, <1>2, <1>4, <1>5

(* A full queue holds the surplus, ...                                     *)
LEMMA QueueHoldsSurplus ==
  ASSUME NEW q \in Vertex, L >= 3, QueueLength(q) > 2
  PROVE  Surplus(q) <= QueueLength(q)
<1>1. PICK N, x \in Nat :
        /\ N = node_num(CurComponent(q)) /\ x = N * R
        /\ L * x \in Nat
        /\ QueueLength(q) = (L * x) \div 1000
        /\ Surplus(q) = (2 * x + 999) \div 1000
  BY Fractions
<1>2. PICK y \in Nat : y = L * x
  BY <1>1
<1>3. 3 * x <= y
  <2>1. L \in Nat /\ 3 <= L
    BY RetrieveAssumption
  <2>2. 3 * x <= L * x
    BY <2>1, ProductMonotone
  <2> QED BY <1>2, <2>2
<1>4. y \div 1000 > 2 => (2 * x + 999) \div 1000 <= y \div 1000
  BY <1>3, SMTT(60)
<1> QED BY <1>1, <1>2, <1>4

(* ... and so does a component, of which at most all is asked for.         *)
LEMMA ComponentHoldsSurplus ==
  ASSUME NEW q \in Vertex, R <= 100
  PROVE  Surplus(q) <= node_num(CurComponent(q))
<1>1. PICK N, x \in Nat :
        /\ N = node_num(CurComponent(q)) /\ x = N * R
        /\ L * x \in Nat
        /\ QueueLength(q) = (L * x) \div 1000
        /\ Surplus(q) = (2 * x + 999) \div 1000
        /\ Quota(q) = x \div 100
  BY Fractions
<1>2. x <= N * 100
  <2>1. R \in Nat
    BY RetrieveAssumption
  <2>2. N * R <= N * 100
    BY <2>1, ProductMonotone
  <2> QED BY <1>1, <2>2
<1>3. (2 * x + 999) \div 1000 <= N
  BY <1>2, SMTT(60)
<1> QED BY <1>1, <1>3

(* How a search that no other thread disturbs ends.                        *)
LEMMA PostFull ==
  ASSUME Searches, NEW t \in Thread, pc[t] = "post", Undisturbed(t), Asked(t) > 2
  PROVE  \/ Held(t) = Asked(t)
         \/ /\ Reachable(query[t]) \subseteq vis[t]
            /\ vis[t] \subseteq Ids(resultset[t])
         \/ Held(t) <= 2
<1>1. Active(t) /\ OneMore(t) = 0
  BY DEF Active, OneMore
<1>2. Held(t) \in Nat /\ Asked(t) \in Nat
  BY <1>1, RunFacts
<1>3. Orderly(t) /\ Held(t) <= Asked(t)
  BY <1>1, <1>2 DEF Undisturbed
<1>4. links[t] = {}
  BY <1>1 DEF Searches, Searching, Inside
<1> SUFFICES ASSUME Held(t) < Asked(t), Held(t) > 2
             PROVE  /\ Reachable(query[t]) \subseteq vis[t]
                    /\ vis[t] \subseteq Ids(resultset[t])
  BY <1>2, <1>3
<1>5. expandset[t] = {} /\ Starts(query[t]) \subseteq vis[t]
  BY <1>3 DEF Orderly, Emptied
<1>6. vis[t] \subseteq Ids(resultset[t]) /\ Opened(t)
  BY <1>1, <1>2, <1>3 DEF Orderly, RoomUsed
<1>7. \A v \in vis[t] : \A j \in Seen(hier_adj[v]) : hier_adj[v][j].id \in vis[t]
  BY <1>4, <1>5, <1>6 DEF Opened
<1> QED BY <1>5, <1>6, <1>7, ReachableWithin

LEMMA ReachableKept ==
  ASSUME hier_adj' = hier_adj, NEW q
  PROVE  Reachable(q)' = Reachable(q)
BY DEF Reachable

LEMMA PopEmptySteady ==
  ASSUME SteadySearches, NEW t \in Thread, PopEmpty(t), Undisturbed(t)
  PROVE  Covered(t)'
<1>1. Searches /\ TypeOK
  BY DEF SteadySearches, Searches
<1>2. /\ pc[t] = "post" /\ Underflows(t)
      /\ hier_adj' = hier_adj /\ query' = query /\ resultset' = resultset
  BY SetupKept DEF PopEmpty, local
<1>3. Active(t) /\ OneMore(t) = 0
  BY <1>2 DEF Active, OneMore
<1>4. /\ query[t] \in Vertex /\ IsFiniteSet(resultset[t])
      /\ Held(t) \in Nat /\ Asked(t) \in Nat
  BY <1>1, <1>3, RunFacts
<1>5. Surplus(query[t]) > Held(t)
  BY <1>2 DEF Underflows, Held
<1>6. Covered(t)
  <2> DEFINE M == Members(CurComponent(query[t]))
  <2> SUFFICES ASSUME L >= 3, R <= 100, Held(t) > 2, M \subseteq Reachable(query[t])
               PROVE  FALSE
    BY <1>4 DEF Covered, Starved, Held
  <2>1. Asked(t) > 2
    BY <1>3, <1>4 DEF Undisturbed
  <2>2. PICK N, x \in Nat :
          /\ N = node_num(CurComponent(query[t])) /\ x = N * R
          /\ L * x \in Nat
          /\ QueueLength(query[t]) = (L * x) \div 1000
          /\ Surplus(query[t]) = (2 * x + 999) \div 1000
          /\ Quota(query[t]) = x \div 100
    BY <1>4, Fractions
  <2>3. Surplus(query[t]) \in Nat
    BY <2>2, HundredthsInNat
  <2>4. CASE Held(t) = Asked(t)
    <3>1. Surplus(query[t]) <= Asked(t)
      BY <1>4, <2>1, QueueHoldsSurplus DEF Asked
    <3> QED BY <1>4, <1>5, <2>3, <2>4, <3>1
  <2>5. CASE /\ Reachable(query[t]) \subseteq vis[t]
             /\ vis[t] \subseteq Ids(resultset[t])
    <3> DEFINE f == [e \in resultset[t] |-> e.id]
    <3>1. f \in Surjection(resultset[t], Ids(resultset[t]))
      BY DEF Surjection, Ids
    <3>2. /\ IsFiniteSet(Ids(resultset[t]))
          /\ Cardinality(Ids(resultset[t])) <= Held(t)
      BY <1>4, <3>1, FS_Surjection DEF Held
    <3>3. M \subseteq Ids(resultset[t])
      BY <2>5
    <3>4. Cardinality(M) <= Cardinality(Ids(resultset[t])) /\ IsFiniteSet(M)
      BY <3>2, <3>3, FS_Subset
    <3>5. Cardinality(M) \in Nat /\ Cardinality(Ids(resultset[t])) \in Nat
      BY <3>2, <3>4, FS_CardinalityType
    <3>6. Surplus(query[t]) <= Cardinality(M)
      BY <1>4, ComponentHoldsSurplus DEF node_num
    <3> QED BY <1>4, <1>5, <2>3, <3>2, <3>4, <3>5, <3>6
  <2> QED BY <1>1, <1>2, <1>4, <2>1, <2>4, <2>5, PostFull
<1>7. Reachable(query[t])' = Reachable(query[t])
  BY <1>2, ReachableKept
<1> QED BY <1>2, <1>6, <1>7 DEF Covered, Starved

LEMMA PostSteady ==
  ASSUME SteadySearches, NEW t \in Thread, Post(t), Undisturbed(t)
  PROVE  InQuota(answer[t])'
<1>1. Searches /\ TypeOK
  BY DEF SteadySearches, Searches
<1>2. PICK K \in Kept(resultset[t], query[t]) :
        answer' = [answer EXCEPT ![t] =
          [to |-> query[t], kept |-> K,
           returned |-> Returned(work[t][next[t]], {e.id : e \in K})]]
  BY DEF Post
<1>3. pc[t] = "post" /\ ~Underflows(t)
  BY DEF Post
<1>4. Active(t) /\ OneMore(t) = 0
  BY <1>3 DEF Active, OneMore
<1>5. /\ query[t] \in Vertex /\ IsFiniteSet(resultset[t])
      /\ Held(t) \in Nat /\ Asked(t) \in Nat
  BY <1>1, <1>4, RunFacts
<1>6. Held(t) <= IF Asked(t) > 2 THEN Asked(t) ELSE 2
  BY <1>4, <1>5 DEF Undisturbed
<1> DEFINE q == query[t]
<1>7. answer'[t].to = q /\ answer'[t].kept = K
  <2>1. t \in DOMAIN answer
    BY DEF SteadySearches
  <2> QED BY <1>2, <2>1
<1>8. ASSUME L <= 12 PROVE Cardinality(K) <= IF Quota(q) < 2 THEN 2 ELSE Quota(q)
  <2>1. /\ Surplus(q) \in Nat /\ Quota(q) \in Nat
        /\ QueueLength(q) - Surplus(q) <= Quota(q)
    BY <1>5, <1>8, SurplusLeavesQuota
  <2>2. CASE valid_nodes = {}
    <3>1. K \in Nearest(resultset[t], Held(t) - Surplus(q))
      BY <1>2, <2>2 DEF Kept, Held
    <3>2. Cardinality(K) = Held(t) - Surplus(q)
      BY <3>1 DEF Nearest
    <3> QED BY <1>5, <1>6, <2>1, <3>2 DEF Asked
  <2>3. CASE valid_nodes # {} /\ Cardinality(Surviving(resultset[t])) * 100
                                   > node_num(CurComponent(q)) * R
    <3>1. K \in Nearest(Surviving(resultset[t]), Quota(q))
      BY <1>2, <2>3 DEF Kept
    <3>2. Cardinality(K) = Quota(q)
      BY <3>1 DEF Nearest
    <3> QED BY <2>1, <3>2
  <2>4. CASE valid_nodes # {} /\ ~(Cardinality(Surviving(resultset[t])) * 100
                                     > node_num(CurComponent(q)) * R)
    <3>1. K = Surviving(resultset[t])
      BY <1>2, <2>4 DEF Kept
    <3>2. IsFiniteSet(K)
      BY <1>5, <3>1, FS_Subset DEF Surviving
    <3>3. PICK k \in Nat : k = Cardinality(K)
      BY <3>2, FS_CardinalityType
    <3>4. PICK N, x \in Nat :
            /\ N = node_num(CurComponent(q)) /\ x = N * R
            /\ L * x \in Nat
            /\ QueueLength(q) = (L * x) \div 1000
            /\ Surplus(q) = (2 * x + 999) \div 1000
            /\ Quota(q) = x \div 100
      BY <1>5, Fractions
    <3>5. ~(k * 100 > x)
      BY <2>4, <3>1, <3>3, <3>4
    <3>6. k <= x \div 100
      BY <3>5
    <3> QED BY <2>1, <3>3, <3>4, <3>6
  <2> QED BY <2>2, <2>3, <2>4
<1> QED BY <1>7, <1>8 DEF InQuota
-----------------------------------------------------------------------------
LEMMA InitSteady ==
  Init => SteadySearches
<1> SUFFICES ASSUME Init PROVE SteadySearches
  OBVIOUS
<1>1. Searches
  BY InitSearches
<1>2. answer = [t \in Thread |-> answer[t]] /\ \A t \in Thread : answer[t].to = NoQuery
  BY DEF Init, NoAnswer
<1>3. \A t \in Thread : pc[t] = "ready"
  BY DEF Init
<1> QED BY <1>1, <1>2, <1>3 DEF SteadySearches, Idle, Steady, Active, InQuota

(* A thread whose state and whose length stay the same stays steady.       *)
LEMMA SteadyKept ==
  ASSUME NEW t \in Thread, Steady(t),
         search_queue_length' = search_queue_length, hier_adj' = hier_adj,
         pc' = pc, UNCHANGED local, answer' = answer
  PROVE  Steady(t)'
<1>1. Undisturbed(t) => Undisturbed(t)'
  BY DEF local, Undisturbed, Asked, Held, OneMore, Orderly, Scored, DroppedFar,
         RoomUsed, Opened, BoundCovers, Emptied, Dist
<1>2. Covered(t) => Covered(t)'
  <2>1. query' = query /\ resultset' = resultset
    BY DEF local
  <2>2. Reachable(query[t])' = Reachable(query[t])
    BY <2>1, ReachableKept
  <2> QED BY <2>1, <2>2 DEF Covered, Starved
<1> QED BY <1>1, <1>2 DEF Steady, Active

LEMMA StepSteady ==
  ASSUME SteadySearches, NEW t \in Thread, Step(t), Steady(t), Searches'
  PROVE  Steady(t)' /\ answer' = [u \in Thread |-> answer'[u]]
<1>1. TypeOK /\ answer = [u \in Thread |-> answer[u]] /\ pc[t] # "undefined"
  BY DEF SteadySearches, Searches, Step, Undefined
<1>2. CASE Reject(t)
  <2>1. hier_adj' = hier_adj
    BY <1>2, SetupKept DEF Reject
  <2> QED BY <1>1, <1>2, <2>1, SteadyKept DEF Reject
<1>3. CASE \/ Begin(t) \/ Expand(t) \/ PassOver(t) \/ Admit(t)
           \/ Trim(t) \/ Stop(t)
  <2>1. Active(t) => Undisturbed(t)
    BY DEF Steady
  <2>2. Undisturbed(t)'
    <3>1. CASE Begin(t)
      BY <3>1, BeginSteady
    <3>2. CASE Expand(t)
      BY <2>1, <3>2, ExpandSteady DEF Expand, Active
    <3>3. CASE PassOver(t)
      BY <2>1, <3>3, PassOverSteady DEF PassOver, Looking, Active
    <3>4. CASE Admit(t)
      BY <2>1, <3>4, AdmitSteady DEF Admit, Looking, Active
    <3>5. CASE Trim(t)
      BY <2>1, <3>5, TrimSteady DEF Trim, Active
    <3>6. CASE Stop(t)
      BY <2>1, <3>6, StopSteady DEF Stop, Active
    <3> QED BY <1>3, <3>1, <3>2, <3>3, <3>4, <3>5, <3>6
  <2>3. pc'[t] # "undefined"
    BY <1>1, <1>3 DEF TypeOK, Begin, Expand, PassOver, Admit, Trim, Stop
  <2>4. answer' = answer
    BY <1>3 DEF Begin, Expand, PassOver, Admit, Trim, Stop
  <2> QED BY <1>1, <2>2, <2>3, <2>4 DEF Steady
<1>4. CASE Post(t)
  <2>1. Undisturbed(t) /\ pc'[t] = "ready"
    BY <1>1, <1>4 DEF TypeOK, Post, Steady, Active
  <2>2. InQuota(answer[t])'
    BY <1>4, <2>1, PostSteady
  <2>3. answer' = [u \in Thread |-> answer'[u]]
    BY <1>1, <1>4 DEF Post
  <2> QED BY <2>1, <2>2, <2>3 DEF Steady, Active
<1>5. CASE PopEmpty(t)
  <2>1. Undisturbed(t) /\ pc'[t] = "undefined" /\ answer' = answer
    BY <1>1, <1>5 DEF TypeOK, PopEmpty, Steady, Active
  <2>2. Covered(t)'
    BY <1>5, <2>1, PopEmptySteady
  <2> QED BY <1>1, <2>1, <2>2 DEF Steady, Active
<1> QED BY <1>2, <1>3, <1>4, <1>5 DEF Step

LEMMA NextSteady ==
  SteadySearches /\ [Next]_vars => SteadySearches'
<1> SUFFICES ASSUME SteadySearches, [Next]_vars PROVE SteadySearches'
  OBVIOUS
<1>1. Searches /\ TypeOK
  BY DEF SteadySearches, Searches
<1>2. Searches'
  BY <1>1, NextSearches
<1>3. CASE UNCHANGED vars
  <2>1. /\ hier_adj' = hier_adj /\ work' = work /\ pc' = pc /\ UNCHANGED local
        /\ search_queue_length' = search_queue_length /\ answer' = answer
    BY <1>3, SetupKept DEF vars, setup
  <2>2. \A t \in Thread : Alone(t)' => Steady(t)'
    BY <2>1, SteadyKept DEF SteadySearches, Alone
  <2> QED BY <1>2, <2>1, <2>2 DEF SteadySearches, Idle
<1>4. ASSUME NEW u \in Thread, Step(u) PROVE SteadySearches'
  <2>1. work' = work
    BY <1>4 DEF Step, Reject, Begin, Expand, PassOver, Admit, Trim, Stop, Post,
                PopEmpty, setup
  <2>2. work[u] # <<>>
    BY <1>4, StepHasWork
  <2>3. \A t \in Thread : Idle(t)'
    <3>1. \A t \in Thread : t # u => pc'[t] = pc[t]
      BY <1>1, <1>4, OthersKeep
    <3> QED BY <2>1, <2>2, <3>1 DEF SteadySearches, Idle
  <2>4. \A t \in Thread : Alone(t) => t = u
    BY <2>2 DEF Alone
  <2>5. Alone(u) => Steady(u)'
    BY <1>2, <1>4, StepSteady DEF SteadySearches
  <2>6. \A t \in Thread : Alone(t)' => Steady(t)'
    BY <2>1, <2>4, <2>5 DEF Alone
  <2>7. answer' = [t \in Thread |-> answer'[t]]
    BY <1>1, <1>4 DEF SteadySearches, Step, Reject, Begin, Expand, PassOver, Admit,
                      Trim, Stop, Post, PopEmpty
  <2> QED BY <1>2, <2>3, <2>6, <2>7 DEF SteadySearches
<1>5. CASE Batch_Del
  <2>1. /\ hier_adj' = hier_adj /\ work' = work /\ pc' = pc /\ UNCHANGED local
        /\ search_queue_length' = search_queue_length /\ answer' = answer
    BY <1>5 DEF Batch_Del
  <2>2. \A t \in Thread : Alone(t)' => Steady(t)'
    BY <2>1, SteadyKept DEF SteadySearches, Alone
  <2> QED BY <1>2, <2>1, <2>2 DEF SteadySearches, Idle
<1> QED BY <1>3, <1>4, <1>5 DEF Next, Terminated

LEMMA SteadyAlways ==
  Spec => []SteadySearches
BY InitSteady, NextSteady, PTL DEF Spec

LEMMA FinishingSteady ==
  ASSUME SteadySearches, NEW t \in Thread, Finishing(t)
  PROVE  Searches /\ Undisturbed(t) /\ Orderly(t) /\ Asked(t) > 2
BY DEF SteadySearches, Steady, Active, Finishing, Undisturbed, Asked

(* A search whose length no other thread changes drops only what is no     *)
(* closer than all that it keeps: for every metric, every index and every  *)
(* order of equal distances, and although lowerBound starts too low and is *)
(* stale between an admission and the trim.                                *)
THEOREM ClosestKeptCorrect == Spec => []ClosestKept
<1>1. SteadySearches => ClosestKept
  BY FinishingSteady DEF ClosestKept, Orderly, DroppedFar
<1> QED BY SteadyAlways, <1>1, PTL

(* Such a search fills its queue, or visits all that it can reach, or      *)
(* never admitted a result.                                                *)
THEOREM FullOrExhaustedCorrect == Spec => []FullOrExhausted
<1>1. SteadySearches => FullOrExhausted
  <2> SUFFICES ASSUME SteadySearches, NEW t \in Thread, Finishing(t)
               PROVE  \/ Cardinality(resultset[t]) = QueueLength(query[t])
                      \/ Reachable(query[t]) \subseteq vis[t]
                      \/ Starved(t)
    BY DEF FullOrExhausted
  <2>1. pc[t] = "post"
    BY DEF Finishing
  <2> QED BY <2>1, FinishingSteady, PostFull DEF Held, Asked, Starved
<1> QED BY SteadyAlways, <1>1, PTL

(* With L_scale at least 0.3 and r at most 1, the heap of such a search is *)
(* popped beyond its end only if it never admitted a result, or the index  *)
(* does not connect the component.                                         *)
THEOREM PopsCoveredCorrect == Spec => []PopsCovered
<1>1. SteadySearches => PopsCovered
  BY DEF SteadySearches, Steady, Covered, PopsCovered
<1> QED BY SteadyAlways, <1>1, PTL

(* With L_scale at most 1.2, a query whose length no other thread changes  *)
(* returns at most r times the size of its component, or two vertices:     *)
(* with and without deletions, and before the filter.                      *)
THEOREM WithinQuotaCorrect == Spec => []WithinQuota
<1>1. SteadySearches => WithinQuota
  BY DEF SteadySearches, Steady, InQuota, WithinQuota
<1> QED BY SteadyAlways, <1>1, PTL
=============================================================================
