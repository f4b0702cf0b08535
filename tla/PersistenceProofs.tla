------------------------- MODULE PersistenceProofs --------------------------
(***************************************************************************)
(* Proofs about Connective and Persistence, for every graph, part and      *)
(* number of threads: the components are those of the graph and numbered   *)
(* by it alone, and what the loader returns with is what was saved, as far *)
(* as the file goes.                                                       *)
(***************************************************************************)
EXTENDS Persistence, FiniteSetTheorems, Extrema, TLAPS

(* Lists without direction, over the vertices.                             *)
GraphOK ==
  /\ cur_graph_ori_adj \in [Vertex -> SUBSET Vertex]
  /\ \A u, v \in Vertex : u \in cur_graph_ori_adj[v] => v \in cur_graph_ori_adj[u]
  /\ valid_nodes \subseteq Vertex /\ valid_nodes # {}
  /\ core_list \in [Vertex -> Nat]

LEMMA Vertices ==
  IsFiniteSet(Vertex) /\ Cardinality(Vertex) = N /\ Vertex \subseteq Nat /\ N \in Nat \ {0}
BY FS_Interval, ConnectiveAssumption DEF Vertex

LEMMA Layers ==
  ASSUME GraphOK
  PROVE  /\ MaxCore \in Nat /\ layer_num = MaxCore + 1 /\ Layer \subseteq Nat
         /\ \A k : k \in Layer <=> k \in Nat /\ k < layer_num
         /\ \A v \in Vertex : core_list[v] <= MaxCore
         /\ \E v \in Vertex : core_list[v] = MaxCore
<1>1. Range(core_list) = {core_list[v] : v \in Vertex}
  BY DEF GraphOK, Range
<1>2. Range(core_list) \in SUBSET Nat /\ Range(core_list) # {}
  BY <1>1, Vertices DEF GraphOK, Vertex
<1>3. IsFiniteSet(Range(core_list))
  <2>1. IsFiniteSet({core_list[v] : v \in Vertex})
    BY Vertices, FiniteImage
  <2> QED BY <1>1, <2>1
<1>4. \E m \in Range(core_list) : \A n \in Range(core_list) : n <= m
  BY <1>2, <1>3, FiniteHasGreatest
<1>5. MaxCore \in Range(core_list) /\ \A n \in Range(core_list) : n <= MaxCore
  BY <1>4 DEF MaxCore
<1> QED BY <1>1, <1>2, <1>5 DEF layer_num, Layer

-----------------------------------------------------------------------------
(* Components: no closed part of a layer separates two of their members.   *)
LEMMA InType ==
  ASSUME GraphOK, NEW k
  PROVE  In(k) \subseteq Vertex /\ In(k) \subseteq Nat /\ IsFiniteSet(In(k))
<1>1. In(k) \in SUBSET Vertex
  BY DEF In
<1> QED BY <1>1, Vertices, FS_Subset

LEMMA Complement ==
  ASSUME GraphOK, NEW k, NEW S \in SUBSET In(k), Closed(S, k)
  PROVE  Closed(In(k) \ S, k)
BY InType DEF GraphOK, Closed

LEMMA MembersOf ==
  ASSUME GraphOK, NEW k, NEW v \in In(k)
  PROVE  v \in Members(v, k) /\ Members(v, k) \subseteq In(k)
BY DEF Members

LEMMA MembersWithin ==
  ASSUME NEW k, NEW S \in SUBSET In(k), Closed(S, k), NEW v \in S
  PROVE  Members(v, k) \subseteq S
BY DEF Members

LEMMA MembersSymmetric ==
  ASSUME GraphOK, NEW k, NEW v \in In(k), NEW u \in Members(v, k)
  PROVE  v \in Members(u, k)
<1> SUFFICES ASSUME NEW S \in SUBSET In(k), u \in S, Closed(S, k) PROVE v \in S
  BY DEF Members
<1> SUFFICES ASSUME v \notin S PROVE FALSE
  OBVIOUS
<1> DEFINE T == In(k) \ S
<1>1. T \in SUBSET In(k) /\ Closed(T, k) /\ v \in T /\ u \notin T
  BY Complement
<1> HIDE DEF T
<1>2. Members(v, k) \subseteq T
  BY <1>1, MembersWithin
<1> QED BY <1>1, <1>2

LEMMA MembersTransitive ==
  ASSUME NEW k, NEW v, NEW u \in Members(v, k), NEW w \in Members(u, k)
  PROVE  w \in Members(v, k)
BY DEF Members

LEMMA MembersAdjacent ==
  ASSUME NEW k, NEW v \in In(k), NEW u \in cur_graph_ori_adj[v] \cap In(k)
  PROVE  u \in Members(v, k)
BY DEF Members, Closed

(* Whoever is together in a layer is together below it.                    *)
LEMMA MembersBelow ==
  ASSUME GraphOK, NEW k \in Nat, NEW l \in 0 .. k, NEW v \in In(k), NEW u \in Members(v, k)
  PROVE  u \in Members(v, l)
<1>1. In(k) \subseteq In(l)
  BY DEF In, InLayer, GraphOK
<1>2. u \in In(l)
  BY <1>1, MembersOf
<1>3. ASSUME NEW S \in SUBSET In(l), v \in S, Closed(S, l) PROVE u \in S
  <2>1. Closed(S \cap In(k), k)
    BY <1>1, <1>3 DEF Closed
  <2>2. S \cap In(k) \in SUBSET In(k) /\ v \in S \cap In(k)
    BY <1>3
  <2> HIDE DEF In
  <2> QED BY <2>1, <2>2, MembersWithin
<1> QED BY <1>2, <1>3 DEF Members

(* The first vertices of the components, up to n.                          *)
Roots(n, k) == {u \in In(k) : u < n /\ First(u, k)}

LEMMA OneFirst ==
  ASSUME GraphOK, NEW k, NEW r \in In(k), First(r, k), NEW s \in Members(r, k), First(s, k)
  PROVE  r = s
<1>1. s \in In(k) /\ r \in Members(s, k)
  BY MembersOf, MembersSymmetric
<1>2. s <= r /\ r <= s /\ r \in Nat /\ s \in Nat
  BY <1>1, InType DEF First
<1> QED BY <1>2

LEMMA RootsType ==
  ASSUME GraphOK, NEW k, NEW n
  PROVE  IsFiniteSet(Roots(n, k)) /\ Cardinality(Roots(n, k)) \in Nat
<1>1. Roots(n, k) \in SUBSET In(k)
  BY DEF Roots
<1> QED BY <1>1, InType, FS_Subset, FS_CardinalityType

LEMMA RootsBound ==
  ASSUME GraphOK, NEW k, NEW n \in 0 .. N
  PROVE  Cardinality(Roots(n, k)) <= n
<1>1. Roots(n, k) \in SUBSET (0 .. n - 1)
  BY InType DEF Roots
<1>2. IsFiniteSet(0 .. n - 1) /\ Cardinality(0 .. n - 1) = n
  BY FS_Interval
<1> QED BY <1>1, <1>2, FS_Subset

LEMMA RootsNext ==
  ASSUME GraphOK, NEW k, NEW n \in Vertex
  PROVE  /\ n \in In(k) /\ First(n, k) =>
              Cardinality(Roots(n + 1, k)) = Cardinality(Roots(n, k)) + 1
         /\ ~(n \in In(k) /\ First(n, k)) => Roots(n + 1, k) = Roots(n, k)
<1>1. \A u \in In(k) : u < n + 1 <=> u < n \/ u = n
  BY InType, Vertices
<1>2. CASE n \in In(k) /\ First(n, k)
  <2>1. Roots(n + 1, k) = Roots(n, k) \cup {n} /\ n \notin Roots(n, k)
    BY <1>1, <1>2, InType, Vertices DEF Roots
  <2>2. IsFiniteSet(Roots(n, k))
    BY RootsType
  <2> QED BY <1>2, <2>1, <2>2, FS_AddElement
<1>3. CASE ~(n \in In(k) /\ First(n, k))
  BY <1>1, <1>3 DEF Roots
<1> QED BY <1>2, <1>3

LEMMA RootsGrow ==
  ASSUME GraphOK, NEW k, NEW r \in In(k), First(r, k), NEW n \in Nat, r < n
  PROVE  Cardinality(Roots(r, k)) < Cardinality(Roots(n, k))
<1>1. Roots(r, k) \in SUBSET (Roots(n, k) \ {r})
  BY InType DEF Roots
<1>2. r \in Roots(n, k)
  BY DEF Roots
<1>3. IsFiniteSet(Roots(n, k)) /\ Cardinality(Roots(n, k)) \in Nat /\ Cardinality(Roots(r, k)) \in Nat
  BY RootsType
<1>4. /\ IsFiniteSet(Roots(n, k) \ {r})
      /\ Cardinality(Roots(n, k) \ {r}) = Cardinality(Roots(n, k)) - 1
  BY <1>2, <1>3, FS_RemoveElement
<1>5. Cardinality(Roots(r, k)) <= Cardinality(Roots(n, k) \ {r})
  BY <1>1, <1>4, FS_Subset
<1> QED BY <1>3, <1>4, <1>5

(* Components with the same number are one.                                *)
LEMMA SameNumber ==
  ASSUME GraphOK, NEW k, NEW r \in In(k), NEW s \in In(k), First(r, k), First(s, k),
         Cardinality(Roots(r, k)) = Cardinality(Roots(s, k))
  PROVE  r = s
<1>1. r \in Nat /\ s \in Nat
  BY InType
<1>2. Cardinality(Roots(r, k)) \in Nat
  BY RootsType
<1>3. CASE r < s
  BY <1>1, <1>2, <1>3, RootsGrow
<1>4. CASE s < r
  BY <1>1, <1>2, <1>4, RootsGrow
<1> QED BY <1>1, <1>3, <1>4
-----------------------------------------------------------------------------
(* The layers of a vertex, and the types of what is known of each layer.   *)
Indices(v) == IF v \in valid_nodes THEN 0 .. core_list[v] ELSE {}

LabelsOK ==
  /\ compo_l = [v \in Vertex |-> [k \in Indices(v) |-> compo_l[v][k]]]
  /\ \A v \in Vertex : \A k \in Indices(v) : compo_l[v][k] \in 0 .. N - 1

ArraysOK ==
  /\ vis \in [Layer -> SUBSET Vertex] /\ heap \in [Layer -> SUBSET Vertex]
  /\ j \in [Layer -> 0 .. N] /\ cnt \in [Layer -> 0 .. N]
  /\ splist_num \in [Layer -> 0 .. N]
  /\ LabelsOK

(* A layer has one thread at a time, and one that was left is complete.    *)
ThreadsOK ==
  /\ i \in 0 .. layer_num /\ at \in [Thread -> Layer \cup {NoLayer}]
  /\ \A t \in Thread : at[t] # NoLayer => at[t] < i
  /\ \A t, u \in Thread : at[t] = at[u] /\ at[t] # NoLayer => t = u
  /\ \A k \in Layer : k < i /\ (\A t \in Thread : at[t] # k) =>
       heap[k] = {} /\ j[k] = N /\ splist_num[k] = cnt[k]

(* The search of layer k: vertices before j[k] are visited, and what was   *)
(* expanded has no neighbour outside the visited; labels count the first   *)
(* vertices of the components found, the last of which is being searched.  *)
Scan(k) ==
  /\ heap[k] \subseteq vis[k] /\ vis[k] \subseteq In(k)
  /\ \A v \in In(k) : v < j[k] => v \in vis[k]
  /\ \A v \in vis[k] \ heap[k] : cur_graph_ori_adj[v] \cap In(k) \subseteq vis[k]
  /\ cnt[k] = Cardinality(Roots(j[k], k))
  /\ \A v \in vis[k] \ heap[k] : \E r \in Members(v, k) :
       r < j[k] /\ First(r, k) /\ compo_l[v][k] = Cardinality(Roots(r, k))
  /\ heap[k] # {} => /\ j[k] > 0 /\ j[k] - 1 \in In(k) /\ First(j[k] - 1, k)
                     /\ \A v \in heap[k] : j[k] - 1 \in Members(v, k)

LabelInv == GraphOK /\ ArraysOK /\ ThreadsOK /\ \A k \in Layer : Scan(k)

LEMMA GraphKept ==
  ASSUME UNCHANGED graph
  PROVE  /\ \A k : In(k)' = In(k)
         /\ \A v, k : Members(v, k)' = Members(v, k) /\ (First(v, k)' <=> First(v, k))
         /\ \A n, k : Roots(n, k)' = Roots(n, k)
         /\ \A v : Indices(v)' = Indices(v)
         /\ Layer' = Layer /\ layer_num' = layer_num
         /\ (GraphOK => GraphOK')
<1>1. \A k : In(k)' = In(k)
  BY DEF In, InLayer, graph
<1>2. \A v, k : Members(v, k)' = Members(v, k)
  BY <1>1 DEF Members, Closed, graph
<1>3. \A v, k : First(v, k)' <=> First(v, k)
  BY <1>2 DEF First
<1>4. \A n, k : Roots(n, k)' = Roots(n, k)
  BY <1>1, <1>3 DEF Roots
<1>5. Layer' = Layer /\ layer_num' = layer_num
  BY DEF Layer, layer_num, MaxCore, graph
<1>6. (\A v : Indices(v)' = Indices(v)) /\ (GraphOK => GraphOK')
  BY DEF Indices, GraphOK, graph
<1> QED BY <1>1, <1>2, <1>3, <1>4, <1>5, <1>6

LEMMA LayerOf ==
  ASSUME GraphOK, NEW k \in Layer, NEW v \in In(k)
  PROVE  v \in Vertex /\ v \in valid_nodes /\ core_list[v] >= k /\ k \in Indices(v)
BY Layers DEF In, InLayer, Indices, GraphOK

LEMMA InLayerIn == ASSUME NEW k, NEW v \in Vertex PROVE InLayer(v, k) <=> v \in In(k)
BY DEF In

(* A layer in which nothing changes.                                       *)
LEMMA OtherScans ==
  ASSUME UNCHANGED graph, NEW l, Scan(l),
         vis'[l] = vis[l], heap'[l] = heap[l], j'[l] = j[l], cnt'[l] = cnt[l],
         \A v \in In(l) : compo_l'[v][l] = compo_l[v][l]
  PROVE  Scan(l)'
<1>1. vis[l] \subseteq In(l)
  BY DEF Scan
<1>2. cur_graph_ori_adj' = cur_graph_ori_adj
  BY DEF graph
<1> QED BY <1>1, <1>2, GraphKept DEF Scan

(* Writing one label.                                                      *)
LEMMA OneLabel ==
  ASSUME GraphOK, ArraysOK, UNCHANGED graph, NEW k \in Layer, NEW v \in In(k),
         NEW n \in 0 .. N - 1, compo_l' = [compo_l EXCEPT ![v][k] = n]
  PROVE  /\ LabelsOK' /\ compo_l'[v][k] = n
         /\ \A u \in Vertex : \A l \in Indices(u) :
              u # v \/ l # k => compo_l'[u][l] = compo_l[u][l]
<1>1. v \in Vertex /\ k \in Indices(v)
  BY LayerOf
<1>2. DOMAIN compo_l = Vertex /\ \A u \in Vertex : DOMAIN compo_l[u] = Indices(u)
  BY DEF ArraysOK, LabelsOK
<1> DEFINE row == [compo_l[v] EXCEPT ![k] = n]
<1>3. compo_l' = [compo_l EXCEPT ![v] = row]
  OBVIOUS
<1>4. row = [l \in Indices(v) |-> IF l = k THEN n ELSE compo_l[v][l]]
  BY <1>1, <1>2
<1> HIDE DEF row
<1>5. compo_l' = [u \in Vertex |-> IF u = v THEN row ELSE compo_l[u]]
  BY <1>1, <1>2, <1>3 DEF ArraysOK, LabelsOK
<1>6. \A u \in Vertex : compo_l[u] = [l \in Indices(u) |-> compo_l[u][l]]
  BY DEF ArraysOK, LabelsOK
<1>7. \A u \in Vertex : compo_l'[u] = [l \in Indices(u) |-> compo_l'[u][l]]
  BY <1>4, <1>5, <1>6
<1>8. /\ compo_l'[v][k] = n
      /\ \A u \in Vertex : \A l \in Indices(u) :
           u # v \/ l # k => compo_l'[u][l] = compo_l[u][l]
  BY <1>1, <1>4, <1>5
<1>9. compo_l' = [u \in Vertex |-> [l \in Indices(u) |-> compo_l'[u][l]]]
  BY <1>5, <1>7
<1>10. \A u \in Vertex : \A l \in Indices(u) : compo_l'[u][l] \in 0 .. N - 1
  BY <1>8 DEF ArraysOK, LabelsOK
<1> QED BY <1>8, <1>9, <1>10, GraphKept DEF LabelsOK

LEMMA ClaimStep == ASSUME LabelInv, NEW t \in Thread, Claim(t) PROVE LabelInv'
<1>1. UNCHANGED graph /\ UNCHANGED <<vis, heap, j, cnt, splist_num, compo_l>>
  BY DEF Claim
<1>2. i < layer_num /\ at[t] = NoLayer /\ at' = [at EXCEPT ![t] = i] /\ i' = i + 1
  BY DEF Claim
<1>3. i \in Layer /\ i \in Nat /\ layer_num \in Nat /\ NoLayer \notin Layer
  BY <1>2, Layers, ConnectiveAssumption DEF LabelInv, ThreadsOK
<1>4. ThreadsOK'
  <2>1. i' \in 0 .. layer_num /\ at' \in [Thread -> Layer \cup {NoLayer}]
    BY <1>2, <1>3 DEF LabelInv, ThreadsOK
  <2>2. \A u \in Thread : at'[u] = IF u = t THEN i ELSE at[u]
    BY <1>2 DEF LabelInv, ThreadsOK
  <2>3. \A u \in Thread : at[u] # NoLayer => at[u] \in Nat /\ at[u] < i
    BY Layers DEF LabelInv, ThreadsOK
  <2>4. ASSUME NEW u \in Thread, at'[u] # NoLayer PROVE at'[u] < i'
    BY <1>2, <1>3, <2>2, <2>3, <2>4
  <2>5. ASSUME NEW u \in Thread, NEW w \in Thread, at'[u] = at'[w], at'[u] # NoLayer
        PROVE  u = w
    BY <1>3, <2>2, <2>3, <2>5 DEF LabelInv, ThreadsOK
  <2>6. ASSUME NEW k \in Layer, k < i', \A u \in Thread : at'[u] # k
        PROVE  heap[k] = {} /\ j[k] = N /\ splist_num[k] = cnt[k]
    <3>1. k < i
      BY <1>2, <1>3, <2>2, <2>6, Layers DEF LabelInv
    <3>2. \A u \in Thread : at[u] # k
      BY <1>2, <2>2, <2>6, <1>3
    <3> QED BY <3>1, <3>2 DEF LabelInv, ThreadsOK
  <2> QED BY <1>1, <2>1, <2>4, <2>5, <2>6, GraphKept DEF ThreadsOK
<1>5. ArraysOK'
  BY <1>1, GraphKept DEF LabelInv, ArraysOK, LabelsOK
<1>6. \A k \in Layer : Scan(k)'
  BY <1>1, OtherScans DEF LabelInv
<1> QED BY <1>1, <1>4, <1>5, <1>6, GraphKept DEF LabelInv

(* A step within the layer of thread t.                                    *)
LEMMA Within ==
  ASSUME LabelInv, NEW t \in Thread, at[t] # NoLayer
  PROVE  /\ at[t] \in Layer /\ at[t] \in Nat
         /\ \A k \in Layer : k < i /\ (\A u \in Thread : at[u] # k) => k # at[t]
BY Layers DEF LabelInv, ThreadsOK

(* The search of a layer after a step, in terms of the same components.    *)
LEMMA ScanNext ==
  ASSUME UNCHANGED graph, NEW k,
    heap'[k] \subseteq vis'[k], vis'[k] \subseteq In(k),
    \A v \in In(k) : v < j'[k] => v \in vis'[k],
    \A v \in vis'[k] \ heap'[k] : cur_graph_ori_adj[v] \cap In(k) \subseteq vis'[k],
    cnt'[k] = Cardinality(Roots(j'[k], k)),
    \A v \in vis'[k] \ heap'[k] : \E r \in Members(v, k) :
       r < j'[k] /\ First(r, k) /\ compo_l'[v][k] = Cardinality(Roots(r, k)),
    heap'[k] # {} => /\ j'[k] > 0 /\ j'[k] - 1 \in In(k) /\ First(j'[k] - 1, k)
                     /\ \A v \in heap'[k] : j'[k] - 1 \in Members(v, k)
  PROVE  Scan(k)'
<1>1. cur_graph_ori_adj' = cur_graph_ori_adj
  BY DEF graph
<1> QED BY <1>1, GraphKept DEF Scan

LEMMA PassOverStep == ASSUME LabelInv, NEW t \in Thread, PassOver(t) PROVE LabelInv'
<1> PICK k \in Layer : k = at[t]
  BY Within DEF PassOver, Scanning
<1>1. /\ UNCHANGED graph /\ UNCHANGED <<i, at, vis, heap, cnt, splist_num, compo_l>>
      /\ heap[k] = {} /\ j[k] < N
      /\ ~InLayer(j[k], k) \/ j[k] \in vis[k]
      /\ j' = [j EXCEPT ![k] = j[k] + 1]
  BY DEF PassOver, Scanning, Scanned
<1>2. \A l \in Layer : l < i /\ (\A u \in Thread : at[u] # l) => l # k
  OBVIOUS
<1>3. /\ j'[k] = j[k] + 1 /\ \A l \in Layer \ {k} : j'[l] = j[l]
      /\ j[k] \in Vertex /\ j[k] \in Nat /\ j' \in [Layer -> 0 .. N]
  BY <1>1, Vertices DEF LabelInv, ArraysOK, Vertex
<1>4. ThreadsOK'
  BY <1>1, <1>2, <1>3, GraphKept DEF LabelInv, ThreadsOK
<1>5. ArraysOK'
  BY <1>1, <1>3, GraphKept DEF LabelInv, ArraysOK, LabelsOK
<1>6. Scan(k)
  BY DEF LabelInv
<1>7. ~(j[k] \in In(k) /\ First(j[k], k))
  <2> SUFFICES ASSUME j[k] \in In(k), First(j[k], k) PROVE FALSE
    OBVIOUS
  <2>1. j[k] \in vis[k] \ heap[k]
    BY <1>1, <1>3, InLayerIn
  <2>2. PICK r \in Members(j[k], k) : r < j[k]
    BY <2>1, <1>6 DEF Scan
  <2>3. r \in In(k) /\ j[k] <= r
    BY <2>2, MembersOf DEF First, LabelInv
  <2>4. r \in Nat
    BY <2>3, InType DEF LabelInv
  <2> QED BY <2>2, <2>3, <2>4, <1>3
<1>8. Roots(j'[k], k) = Roots(j[k], k)
  BY <1>3, <1>7, RootsNext DEF LabelInv
<1>9. Scan(k)'
  <2>1. \A v \in In(k) : v < j[k] + 1 => v < j[k] \/ v = j[k]
    BY <1>3, InType DEF LabelInv
  <2>2. \A v \in In(k) : v < j[k] + 1 => v \in vis[k]
    BY <1>1, <1>3, <1>6, <2>1, InLayerIn DEF Scan
  <2>3. ASSUME NEW v \in vis[k] \ heap[k]
        PROVE  \E r \in Members(v, k) :
                 r < j'[k] /\ First(r, k) /\ compo_l[v][k] = Cardinality(Roots(r, k))
    <3>1. PICK r \in Members(v, k) :
            r < j[k] /\ First(r, k) /\ compo_l[v][k] = Cardinality(Roots(r, k))
      BY <1>6 DEF Scan
    <3>2. r \in Nat
      <4>1. v \in In(k)
        BY <1>6 DEF Scan
      <4> QED BY <4>1, <3>1, MembersOf, InType DEF LabelInv
    <3>3. r < j'[k]
      BY <1>3, <3>1, <3>2
    <3> QED BY <3>1, <3>3
  <2>4. heap'[k] = heap[k] /\ vis'[k] = vis[k] /\ cnt'[k] = cnt[k] /\ compo_l' = compo_l
    BY <1>1
  <2>5. /\ vis[k] \subseteq In(k) /\ cnt[k] = Cardinality(Roots(j[k], k))
        /\ \A v \in vis[k] \ heap[k] : cur_graph_ori_adj[v] \cap In(k) \subseteq vis[k]
    BY <1>6 DEF Scan
  <2> QED BY <1>1, <1>3, <1>8, <2>2, <2>3, <2>4, <2>5, ScanNext
<1>10. \A l \in Layer \ {k} : Scan(l)'
  BY <1>1, <1>3, OtherScans DEF LabelInv
<1>11. \A l \in Layer : Scan(l)'
  BY <1>9, <1>10
<1> QED BY <1>1, <1>4, <1>5, <1>11, GraphKept DEF LabelInv
(* Numbers of other layers are not touched.                                *)
LEMMA OtherLabels ==
  ASSUME GraphOK, NEW k \in Layer, NEW v \in In(k), NEW l \in Layer, l # k,
         \A u \in Vertex : \A m \in Indices(u) :
           u # v \/ m # k => compo_l'[u][m] = compo_l[u][m]
  PROVE  \A u \in In(l) : compo_l'[u][l] = compo_l[u][l]
BY LayerOf

LEMMA FoundStep == ASSUME LabelInv, NEW t \in Thread, Found(t) PROVE LabelInv'
<1> PICK k \in Layer : k = at[t]
  BY Within DEF Found, Scanning
<1> PICK v \in Vertex : v = j[k]
  <2>1. j[k] \in 0 .. N /\ j[k] < N
    BY DEF Found, Scanning, LabelInv, ArraysOK
  <2> QED BY <2>1, Vertices DEF Vertex
<1>1. /\ UNCHANGED graph /\ UNCHANGED <<i, at, splist_num>>
      /\ heap[k] = {} /\ InLayer(v, k) /\ v \notin vis[k]
      /\ heap' = [heap EXCEPT ![k] = {v}]
      /\ vis' = [vis EXCEPT ![k] = vis[k] \cup {v}]
      /\ compo_l' = [compo_l EXCEPT ![v][k] = cnt[k]]
      /\ cnt' = [cnt EXCEPT ![k] = cnt[k] + 1]
      /\ j' = [j EXCEPT ![k] = v + 1]
  BY DEF Found, Scanning, Scanned, NextNumber
<1>2. \A l \in Layer : l < i /\ (\A u \in Thread : at[u] # l) => l # k
  OBVIOUS
<1>3. v \in In(k) /\ v \in Nat /\ v + 1 \in 0 .. N /\ v \in 0 .. N /\ N \in Nat
  BY <1>1, Vertices, InLayerIn DEF Vertex
<1>4. GraphOK /\ ArraysOK /\ ThreadsOK /\ Scan(k)
  BY DEF LabelInv
<1>5. First(v, k)
  <2> DEFINE T == In(k) \ vis[k]
  <2>1. vis[k] \in SUBSET In(k) /\ Closed(vis[k], k)
    BY <1>1, <1>4 DEF Scan, Closed
  <2>2. Closed(T, k) /\ T \in SUBSET In(k) /\ v \in T
    BY <1>1, <1>3, <1>4, <2>1, Complement
  <2>3. \A u \in T : v <= u
    BY <1>3, <1>4, InType DEF Scan
  <2> HIDE DEF T
  <2>4. Members(v, k) \subseteq T
    BY <2>2, MembersWithin
  <2> QED BY <2>3, <2>4 DEF First
<1>6. cnt[k] = Cardinality(Roots(v, k)) /\ cnt[k] + 1 = Cardinality(Roots(v + 1, k))
  BY <1>3, <1>4, <1>5, RootsNext DEF Scan
<1>7. cnt[k] \in Nat /\ cnt[k] <= v /\ cnt[k] \in 0 .. N - 1 /\ cnt[k] + 1 \in 0 .. N
  BY <1>3, <1>4, <1>6, RootsBound, RootsType, Vertices DEF Vertex
<1>8. /\ heap'[k] = {v} /\ vis'[k] = vis[k] \cup {v} /\ cnt'[k] = cnt[k] + 1 /\ j'[k] = v + 1
      /\ \A l \in Layer \ {k} : /\ heap'[l] = heap[l] /\ vis'[l] = vis[l]
                                /\ cnt'[l] = cnt[l] /\ j'[l] = j[l]
  BY <1>1, <1>4 DEF ArraysOK
<1>9. /\ LabelsOK' /\ compo_l'[v][k] = cnt[k]
      /\ \A u \in Vertex : \A l \in Indices(u) :
           u # v \/ l # k => compo_l'[u][l] = compo_l[u][l]
  <2>1. PICK n \in 0 .. N - 1 : n = cnt[k]
    BY <1>7
  <2>2. UNCHANGED graph /\ compo_l' = [compo_l EXCEPT ![v][k] = n]
    BY <1>1, <2>1
  <2>3. GraphOK /\ ArraysOK /\ v \in In(k)
    BY <1>3, <1>4
  <2>4. LabelsOK'
    BY <2>2, <2>3, OneLabel
  <2>6. compo_l'[v][k] = n
    <3>1. v \in DOMAIN compo_l /\ k \in DOMAIN compo_l[v]
      BY <2>3, LayerOf DEF ArraysOK, LabelsOK
    <3> QED BY <2>2, <3>1
  <2>5. \A u \in Vertex : \A l \in Indices(u) : u # v \/ l # k => compo_l'[u][l] = compo_l[u][l]
    BY <2>2, <2>3, OneLabel
  <2> QED BY <2>1, <2>4, <2>5, <2>6
<1>10. ThreadsOK'
  BY <1>1, <1>2, <1>4, <1>8, GraphKept DEF ThreadsOK
<1>11. ArraysOK'
  <2>1. vis' \in [Layer -> SUBSET Vertex] /\ heap' \in [Layer -> SUBSET Vertex]
    BY <1>1, <1>4 DEF ArraysOK
  <2>2. j' \in [Layer -> 0 .. N] /\ cnt' \in [Layer -> 0 .. N]
    BY <1>1, <1>3, <1>4, <1>7 DEF ArraysOK
  <2>3. splist_num' \in [Layer -> 0 .. N]
    BY <1>1, <1>4 DEF ArraysOK
  <2> QED BY <1>1, <1>9, <2>1, <2>2, <2>3, GraphKept DEF ArraysOK
<1>12. Scan(k)'
  <2>1. heap'[k] \subseteq vis'[k] /\ vis'[k] \subseteq In(k)
    BY <1>3, <1>4, <1>8 DEF Scan
  <2>2. \A u \in In(k) : u < j'[k] => u \in vis'[k]
    <3>1. \A u \in In(k) : u < v + 1 => u < v \/ u = v
      BY <1>3, <1>4, InType
    <3> QED BY <1>4, <1>8, <3>1 DEF Scan
  <2>3. vis'[k] \ heap'[k] = vis[k] \ heap[k]
    BY <1>1, <1>8
  <2>4. \A u \in vis'[k] \ heap'[k] : cur_graph_ori_adj[u] \cap In(k) \subseteq vis'[k]
    BY <1>4, <1>8, <2>3 DEF Scan
  <2>5. cnt'[k] = Cardinality(Roots(j'[k], k))
    BY <1>6, <1>8
  <2>6. ASSUME NEW u \in vis'[k] \ heap'[k]
        PROVE  \E r \in Members(u, k) :
                 r < j'[k] /\ First(r, k) /\ compo_l'[u][k] = Cardinality(Roots(r, k))
    <3>1. PICK r \in Members(u, k) :
            r < v /\ First(r, k) /\ compo_l[u][k] = Cardinality(Roots(r, k))
      BY <1>4, <2>3 DEF Scan
    <3>2. u \in In(k) /\ u # v
      BY <1>1, <1>4, <2>3 DEF Scan
    <3>3. r \in Nat
      BY <3>1, <3>2, <1>4, MembersOf, InType
    <3>4. compo_l'[u][k] = compo_l[u][k]
      BY <1>4, <1>9, <3>2, LayerOf
    <3> QED BY <1>3, <1>8, <3>1, <3>3, <3>4
  <2>7. /\ j'[k] > 0 /\ j'[k] - 1 \in In(k) /\ First(j'[k] - 1, k)
        /\ \A u \in heap'[k] : j'[k] - 1 \in Members(u, k)
    <3>1. j'[k] - 1 = v
      BY <1>3, <1>8
    <3> QED BY <1>3, <1>4, <1>5, <1>8, <3>1, MembersOf
  <2> QED BY <1>1, <2>1, <2>2, <2>4, <2>5, <2>6, <2>7, ScanNext
<1>13. ASSUME NEW l \in Layer, l # k PROVE Scan(l)'
  <2>1. \A u \in In(l) : compo_l'[u][l] = compo_l[u][l]
    BY <1>3, <1>4, <1>9, <1>13, OtherLabels
  <2> QED BY <1>1, <1>8, <1>13, <2>1, OtherScans DEF LabelInv
<1>14. \A l \in Layer : Scan(l)'
  BY <1>12, <1>13
<1> QED BY <1>1, <1>4, <1>10, <1>11, <1>14, GraphKept DEF LabelInv
LEMMA GrowStep == ASSUME LabelInv, NEW t \in Thread, Grow(t) PROVE LabelInv'
<1>0. GraphOK /\ ArraysOK /\ ThreadsOK
  BY DEF LabelInv
<1> PICK k \in Layer : k = at[t]
  BY Within DEF Grow
<1>1. Scan(k) /\ heap[k] # {} /\ heap[k] \subseteq vis[k] /\ vis[k] \subseteq In(k)
  BY DEF LabelInv, Scan, Grow
<1>18. PICK v \in In(k) :
         v \in heap[k] /\ v = CHOOSE w \in heap[k] : \A u \in heap[k] : u <= w
  <2>1. heap[k] \in SUBSET Nat /\ IsFiniteSet(heap[k])
    BY <1>0, <1>1, InType, FS_Subset
  <2>2. \E w \in heap[k] : \A u \in heap[k] : u <= w
    BY <1>1, <2>1, FiniteHasGreatest
  <2> QED BY <1>1, <2>2
<1> PICK r \in In(k) : r = j[k] - 1
  BY <1>1 DEF Scan
<1> DEFINE new == Fresh(v, k)
<1>2. /\ UNCHANGED graph /\ UNCHANGED <<i, at, j, cnt, splist_num>>
      /\ compo_l' = [compo_l EXCEPT ![v][k] = cnt[k] - 1]
      /\ heap' = [heap EXCEPT ![k] = (heap[k] \ {v}) \cup new]
      /\ vis' = [vis EXCEPT ![k] = vis[k] \cup new]
  BY <1>18 DEF Grow, Number
<1>3. \A l \in Layer : l < i /\ (\A u \in Thread : at[u] # l) => l # k
  OBVIOUS
<1>4. /\ new \subseteq In(k) /\ new \cap vis[k] = {} /\ new \subseteq cur_graph_ori_adj[v]
      /\ cur_graph_ori_adj[v] \cap In(k) \subseteq vis[k] \cup new
  BY <1>0, InLayerIn, InType DEF Fresh, GraphOK
<1> HIDE DEF new
<1>5. First(r, k) /\ \A u \in heap[k] : r \in Members(u, k)
  BY <1>1 DEF Scan
<1>6. j[k] = r + 1 /\ r \in Nat /\ r \in Vertex /\ r \in 0 .. N
  <2>1. j[k] \in 0 .. N
    BY <1>0 DEF ArraysOK
  <2> QED BY <1>0, <2>1, InType, Vertices DEF Vertex
<1>7. cnt[k] = Cardinality(Roots(r, k)) + 1
  BY <1>0, <1>1, <1>5, <1>6, RootsNext DEF Scan
<1> PICK n \in 0 .. N - 1 : n = cnt[k] - 1 /\ n = Cardinality(Roots(r, k))
  <2>1. Cardinality(Roots(r, k)) \in Nat /\ Cardinality(Roots(r, k)) <= r
    BY <1>0, <1>6, RootsType, RootsBound
  <2>2. r \in Nat /\ r <= N - 1 /\ N \in Nat
    BY <1>6, Vertices DEF Vertex
  <2>3. Cardinality(Roots(r, k)) \in 0 .. N - 1
    BY <2>1, <2>2
  <2>4. Cardinality(Roots(r, k)) = cnt[k] - 1
    BY <1>7, <2>1
  <2> QED BY <2>3, <2>4
<1>8. /\ heap'[k] = (heap[k] \ {v}) \cup new /\ vis'[k] = vis[k] \cup new
      /\ \A l \in Layer \ {k} : heap'[l] = heap[l] /\ vis'[l] = vis[l]
  BY <1>0, <1>2 DEF ArraysOK
<1>9. compo_l' = [compo_l EXCEPT ![v][k] = n]
  BY <1>2
<1>10. \A u \in Vertex : \A l \in Indices(u) : u # v \/ l # k => compo_l'[u][l] = compo_l[u][l]
  <2>1. GraphOK /\ ArraysOK /\ v \in In(k) /\ UNCHANGED graph
    BY <1>0, <1>2
  <2> QED BY <1>9, <2>1, OneLabel
<1>11. LabelsOK'
  <2>1. GraphOK /\ ArraysOK /\ v \in In(k) /\ UNCHANGED graph
    BY <1>0, <1>2
  <2> QED BY <1>9, <2>1, OneLabel
<1>12. compo_l'[v][k] = n
  <2>1. v \in DOMAIN compo_l /\ k \in DOMAIN compo_l[v]
    BY <1>0, LayerOf DEF ArraysOK, LabelsOK
  <2> QED BY <1>9, <2>1
<1>13. ThreadsOK'
  BY <1>0, <1>2, <1>3, <1>8, GraphKept DEF ThreadsOK
<1>14. ArraysOK'
  <2>1. new \subseteq Vertex
    BY <1>0, <1>4, InType
  <2>2. vis' \in [Layer -> SUBSET Vertex] /\ heap' \in [Layer -> SUBSET Vertex]
    BY <1>0, <1>2, <2>1 DEF ArraysOK
  <2>3. /\ j' \in [Layer -> 0 .. N] /\ cnt' \in [Layer -> 0 .. N]
        /\ splist_num' \in [Layer -> 0 .. N]
    BY <1>0, <1>2 DEF ArraysOK
  <2> QED BY <1>2, <1>11, <2>2, <2>3, GraphKept DEF ArraysOK
<1>15. Scan(k)'
  <2>1. heap'[k] \subseteq vis'[k] /\ vis'[k] \subseteq In(k)
    BY <1>1, <1>4, <1>8
  <2>2. \A u \in In(k) : u < j'[k] => u \in vis'[k]
    BY <1>1, <1>2, <1>8 DEF Scan
  <2>3. vis'[k] \ heap'[k] = (vis[k] \ heap[k]) \cup {v}
    <3>1. v \in heap[k] /\ v \in vis[k] /\ v \notin new
      BY <1>1, <1>4, <1>18
    <3>2. ASSUME NEW u PROVE u \in new => u \notin vis[k]
      BY <1>4
    <3>3. ASSUME NEW u
          PROVE  u \in vis'[k] \ heap'[k] <=> u \in (vis[k] \ heap[k]) \cup {v}
      BY <1>1, <1>8, <3>1, <3>2
    <3> QED BY <3>3
  <2>4. \A u \in vis'[k] \ heap'[k] : cur_graph_ori_adj[u] \cap In(k) \subseteq vis'[k]
    BY <1>1, <1>4, <1>8, <2>3 DEF Scan
  <2>5. cnt'[k] = Cardinality(Roots(j'[k], k))
    BY <1>1, <1>2 DEF Scan
  <2>6. ASSUME NEW u \in vis'[k] \ heap'[k]
        PROVE  \E s \in Members(u, k) :
                 s < j'[k] /\ First(s, k) /\ compo_l'[u][k] = Cardinality(Roots(s, k))
    <3>1. CASE u = v
      <4>1. r \in Members(u, k) /\ r < j'[k]
        BY <1>2, <1>5, <1>6, <1>18, <3>1
      <4>2. compo_l'[u][k] = Cardinality(Roots(r, k))
        BY <1>12, <3>1
      <4> QED BY <1>5, <4>1, <4>2
    <3>2. CASE u # v
      <4>1. u \in vis[k] \ heap[k] /\ u \in In(k)
        BY <1>1, <2>3, <3>2
      <4>2. compo_l'[u][k] = compo_l[u][k]
        BY <1>0, <1>10, <3>2, <4>1, LayerOf
      <4>3. PICK s \in Members(u, k) :
              s < j[k] /\ First(s, k) /\ compo_l[u][k] = Cardinality(Roots(s, k))
        BY <1>1, <4>1 DEF Scan
      <4>4. s < j'[k]
        BY <1>2, <4>3
      <4> QED BY <4>2, <4>3, <4>4
    <3> QED BY <3>1, <3>2
  <2>7. ASSUME NEW u \in heap'[k] PROVE r \in Members(u, k)
    <3>1. CASE u \in heap[k]
      BY <1>5, <3>1
    <3>2. CASE u \in new
      <4>1. u \in Members(v, k)
        BY <1>4, <3>2, MembersAdjacent
      <4>2. v \in Members(u, k)
        BY <1>0, <4>1, MembersSymmetric
      <4>3. r \in Members(v, k)
        BY <1>5, <1>18
      <4> QED BY <4>2, <4>3, MembersTransitive
    <3> QED BY <1>8, <3>1, <3>2
  <2>8. /\ j'[k] > 0 /\ j'[k] - 1 \in In(k) /\ First(j'[k] - 1, k)
        /\ \A u \in heap'[k] : j'[k] - 1 \in Members(u, k)
    <3>1. j'[k] - 1 = r /\ j'[k] > 0
      BY <1>2, <1>6
    <3> QED BY <1>5, <2>7, <3>1
  <2> QED BY <1>2, <2>1, <2>2, <2>4, <2>5, <2>6, <2>8, ScanNext
<1>16. ASSUME NEW l \in Layer, l # k PROVE Scan(l)'
  <2>1. \A u \in In(l) : compo_l'[u][l] = compo_l[u][l]
    BY <1>0, <1>10, <1>16, OtherLabels
  <2>2. j'[l] = j[l] /\ cnt'[l] = cnt[l]
    BY <1>2
  <2> QED BY <1>2, <1>8, <1>16, <2>1, <2>2, OtherScans DEF LabelInv
<1>17. \A l \in Layer : Scan(l)'
  BY <1>15, <1>16
<1> QED BY <1>0, <1>2, <1>13, <1>14, <1>17, GraphKept DEF LabelInv

LEMMA FinishStep == ASSUME LabelInv, NEW t \in Thread, Finish(t) PROVE LabelInv'
<1>0. GraphOK /\ ArraysOK /\ ThreadsOK
  BY DEF LabelInv
<1> PICK k \in Layer : k = at[t]
  BY Within DEF Finish
<1>1. /\ UNCHANGED graph /\ UNCHANGED <<i, vis, heap, j, cnt, compo_l>>
      /\ heap[k] = {} /\ j[k] = N
      /\ splist_num' = [splist_num EXCEPT ![k] = cnt[k]]
      /\ at' = [at EXCEPT ![t] = NoLayer]
  BY DEF Finish, Total
<1>2. ArraysOK'
  <2>1. splist_num' \in [Layer -> 0 .. N]
    BY <1>0, <1>1 DEF ArraysOK
  <2>2. LabelsOK'
    BY <1>0, <1>1, GraphKept DEF ArraysOK, LabelsOK
  <2> QED BY <1>0, <1>1, <2>1, <2>2, GraphKept DEF ArraysOK
<1>3. ThreadsOK'
  <2>1. \A u \in Thread : at'[u] = IF u = t THEN NoLayer ELSE at[u]
    BY <1>0, <1>1 DEF ThreadsOK
  <2>2. i' \in 0 .. layer_num /\ at' \in [Thread -> Layer \cup {NoLayer}]
    BY <1>0, <1>1 DEF ThreadsOK
  <2>3. \A u \in Thread : at'[u] # NoLayer => at'[u] < i'
    BY <1>0, <1>1, <2>1 DEF ThreadsOK
  <2>4. \A u, w \in Thread : at'[u] = at'[w] /\ at'[u] # NoLayer => u = w
    BY <1>0, <2>1 DEF ThreadsOK
  <2>5. ASSUME NEW l \in Layer, l < i, \A u \in Thread : at'[u] # l
        PROVE  heap[l] = {} /\ j[l] = N /\ splist_num'[l] = cnt[l]
    <3>1. CASE l = k
      BY <1>0, <1>1, <3>1 DEF ArraysOK
    <3>2. CASE l # k
      <4>1. \A u \in Thread : at[u] # l
        BY <2>1, <2>5, <3>2
      <4> QED BY <1>0, <1>1, <2>5, <3>2, <4>1 DEF ThreadsOK, ArraysOK
    <3> QED BY <3>1, <3>2
  <2> QED BY <1>1, <2>2, <2>3, <2>4, <2>5, GraphKept DEF ThreadsOK
<1>4. \A l \in Layer : Scan(l)'
  BY <1>1, OtherScans DEF LabelInv
<1> QED BY <1>0, <1>1, <1>2, <1>3, <1>4, GraphKept DEF LabelInv
LEMMA LabelStep == ASSUME LabelInv, NEW t \in Thread, Step(t) PROVE LabelInv'
BY ClaimStep, PassOverStep, FoundStep, GrowStep, FinishStep DEF Step

LEMMA LabelKept ==
  ASSUME LabelInv, UNCHANGED graph,
         UNCHANGED <<i, at, vis, heap, j, cnt, splist_num, compo_l>>
  PROVE  LabelInv'
<1>1. ArraysOK'
  BY GraphKept DEF LabelInv, ArraysOK, LabelsOK
<1>2. ThreadsOK'
  BY GraphKept DEF LabelInv, ThreadsOK
<1>3. \A k \in Layer : Scan(k)'
  BY OtherScans DEF LabelInv
<1> QED BY <1>1, <1>2, <1>3, GraphKept DEF LabelInv

(* Before the first step, in a build and in a load.                        *)
Start ==
  /\ i = 0 /\ at = [t \in Thread |-> NoLayer]
  /\ vis = [k \in Layer |-> {}] /\ heap = [k \in Layer |-> {}]
  /\ j = [k \in Layer |-> 0] /\ cnt = [k \in Layer |-> 0]
  /\ splist_num = [k \in Layer |-> 0]
  /\ compo_l = Labels(core_list, valid_nodes)

LEMMA StartInv == GraphOK /\ Start => LabelInv
<1> SUFFICES ASSUME GraphOK, Start PROVE LabelInv
  OBVIOUS
<1>1. ThreadsOK
  <2>1. i \in 0 .. layer_num /\ at \in [Thread -> Layer \cup {NoLayer}]
    BY Layers DEF Start
  <2>2. \A t \in Thread : at[t] = NoLayer
    BY DEF Start
  <2>3. \A k \in Layer : ~(k < i)
    BY Layers DEF Start
  <2> QED BY <2>1, <2>2, <2>3 DEF ThreadsOK
<1>2. LabelsOK
  <2>1. compo_l = [v \in Vertex |-> [k \in Indices(v) |-> 0]]
    BY DEF Start, Labels, Indices
  <2>2. 0 \in 0 .. N - 1
    BY Vertices
  <2> QED BY <2>1, <2>2 DEF LabelsOK
<1>3. ArraysOK
  <2>1. 0 \in 0 .. N
    BY Vertices
  <2> QED BY <1>2, <2>1 DEF ArraysOK, Start
<1>4. ASSUME NEW k \in Layer PROVE Scan(k)
  <2>1. heap[k] = {} /\ vis[k] = {} /\ j[k] = 0 /\ cnt[k] = 0
    BY DEF Start
  <2>2. In(k) \subseteq Nat
    BY InType
  <2>3. Roots(0, k) = {}
    BY <2>2 DEF Roots
  <2>4. Cardinality(Roots(0, k)) = 0
    BY <2>3, FS_EmptySet
  <2> QED BY <2>1, <2>2, <2>4 DEF Scan
<1> QED BY <1>1, <1>3, <1>4 DEF LabelInv

LEMMA InducedOK ==
  ASSUME NEW g, g.adj \in [Vertex -> SUBSET Vertex], g.valid \subseteq Vertex, g.valid # {},
         \A u, v \in Vertex : u \in g.adj[v] => v \in g.adj[u],
         cur_graph_ori_adj = Induced(g), valid_nodes = g.valid,
         core_list \in [Vertex -> Nat]
  PROVE  GraphOK
<1>1. \A v \in Vertex : cur_graph_ori_adj[v] = IF v \in g.valid THEN g.adj[v] \cap g.valid ELSE {}
  BY DEF Induced
<1>2. cur_graph_ori_adj \in [Vertex -> SUBSET Vertex]
  BY DEF Induced
<1>3. \A u, v \in Vertex : u \in cur_graph_ori_adj[v] => v \in cur_graph_ori_adj[u]
  BY <1>1
<1> QED BY <1>2, <1>3 DEF GraphOK

LEMMA InitLabel == Init => LabelInv
<1> SUFFICES ASSUME Init PROVE LabelInv
  OBVIOUS
<1>1. PICK g \in Inputs : cur_graph_ori_adj = Induced(g) /\ valid_nodes = g.valid /\ core_list = g.core
  BY DEF Init
<1>2. GraphOK
  BY <1>1, ConnectiveAssumption, InducedOK
<1>3. Start
  BY DEF Init, Start
<1> QED BY <1>2, <1>3, StartInv
-----------------------------------------------------------------------------
(* When all layers are labelled, a number counts the components that start *)
(* before, and splist_num counts them all.                                 *)
Numbered(compo) ==
  \A k \in Layer : \A v \in In(k) : \E r \in Members(v, k) :
    First(r, k) /\ compo[v][k] = Cardinality(Roots(r, k))

LEMMA Done ==
  ASSUME LabelInv, Labelled
  PROVE  /\ Numbered(compo_l)
         /\ \A k \in Layer : splist_num[k] = Cardinality(Roots(N, k))
<1>1. \A k \in Layer : heap[k] = {} /\ j[k] = N /\ splist_num[k] = cnt[k]
  <2> SUFFICES ASSUME NEW k \in Layer PROVE heap[k] = {} /\ j[k] = N /\ splist_num[k] = cnt[k]
    OBVIOUS
  <2>1. k < i /\ k # NoLayer
    BY Layers, ConnectiveAssumption DEF LabelInv, Labelled
  <2>2. \A t \in Thread : at[t] # k
    BY <2>1 DEF Labelled
  <2> QED BY <2>1, <2>2 DEF LabelInv, ThreadsOK
<1>2. ASSUME NEW k \in Layer, NEW v \in In(k)
      PROVE  \E r \in Members(v, k) : First(r, k) /\ compo_l[v][k] = Cardinality(Roots(r, k))
  <2>1. Scan(k)
    BY DEF LabelInv
  <2>2. v < j[k]
    BY <1>1, LayerOf, Vertices DEF LabelInv, Vertex
  <2>3. v \in vis[k] \ heap[k]
    BY <1>1, <2>1, <2>2 DEF Scan
  <2> QED BY <2>1, <2>3 DEF Scan
<1>3. \A k \in Layer : splist_num[k] = Cardinality(Roots(N, k))
  BY <1>1 DEF LabelInv, Scan
<1> QED BY <1>2, <1>3 DEF Numbered

(* Two numberings of a graph agree.                                        *)
LEMMA OneNumbering ==
  ASSUME GraphOK, NEW k \in Layer, NEW u \in In(k), NEW v \in In(k),
         NEW x \in Members(u, k), First(x, k), NEW y \in Members(v, k), First(y, k)
  PROVE  /\ u \in Members(v, k) => x = y
         /\ Cardinality(Roots(x, k)) = Cardinality(Roots(y, k)) => u \in Members(v, k)
<1>1. x \in In(k) /\ y \in In(k)
  BY MembersOf
<1>2. ASSUME u \in Members(v, k) PROVE x = y
  <2>1. x \in Members(v, k)
    BY <1>2, MembersTransitive
  <2>2. v \in Members(y, k)
    BY MembersSymmetric
  <2>3. x \in Members(y, k)
    BY <2>1, <2>2, MembersTransitive
  <2> QED BY <1>1, <2>3, OneFirst
<1>3. ASSUME Cardinality(Roots(x, k)) = Cardinality(Roots(y, k)) PROVE u \in Members(v, k)
  <2>1. x = y
    BY <1>1, <1>3, SameNumber
  <2>2. u \in Members(x, k)
    BY MembersSymmetric
  <2> QED BY <2>1, <2>2, MembersTransitive
<1> QED BY <1>2, <1>3

LEMMA TogetherOnce ==
  ASSUME GraphOK, NEW compo, Numbered(compo), NEW k \in Layer, NEW u \in In(k), NEW v \in In(k)
  PROVE  compo[u][k] = compo[v][k] <=> u \in Members(v, k)
<1>1. PICK x \in Members(u, k) : First(x, k) /\ compo[u][k] = Cardinality(Roots(x, k))
  BY DEF Numbered
<1>2. PICK y \in Members(v, k) : First(y, k) /\ compo[v][k] = Cardinality(Roots(y, k))
  BY DEF Numbered
<1> QED BY <1>1, <1>2, OneNumbering

LEMMA NestedHolds == LabelInv => Nested
<1> SUFFICES ASSUME LabelInv, Labelled, NEW k \in Layer, NEW l \in 0 .. k,
                    NEW u \in In(k), NEW v \in In(k), compo_l[u][k] = compo_l[v][k]
             PROVE  compo_l[u][l] = compo_l[v][l]
  BY DEF Nested
<1>1. GraphOK /\ Numbered(compo_l)
  BY Done DEF LabelInv
<1>2. k \in Nat /\ l \in Layer
  <2>1. k \in Nat /\ k < layer_num /\ layer_num \in Nat
    BY <1>1, Layers
  <2>2. l \in Nat /\ l < layer_num
    BY <2>1
  <2> QED BY <1>1, <2>1, <2>2, Layers
<1>3. u \in Members(v, k)
  BY <1>1, TogetherOnce
<1>4. u \in Members(v, l)
  BY <1>1, <1>2, <1>3, MembersBelow
<1>5. v \in In(l) /\ u \in In(l)
  <2>1. v \in Members(v, l)
    BY <1>1, <1>2, MembersOf, MembersBelow
  <2> QED BY <1>4, <2>1 DEF Members
<1> QED BY <1>1, <1>2, <1>4, <1>5, TogetherOnce

LEMMA NumbersHold == LabelInv => NumberedByFirst
<1> SUFFICES ASSUME LabelInv, Labelled PROVE NumberedByFirst
  BY DEF NumberedByFirst
<1> QED BY Done DEF NumberedByFirst, Numbered, Roots

(* The arrays of the sizes are made of complete labels, and long enough.   *)
SizesOK ==
  Counted => /\ Labelled
             /\ \A k \in Layer : 0 .. splist_num[k] - 1 \subseteq DOMAIN node_num_per_compo[k]

LEMMA TypeHolds == LabelInv /\ SizesOK => TypeOK
<1> SUFFICES ASSUME LabelInv, SizesOK PROVE TypeOK
  OBVIOUS
<1>1. ASSUME Counted, NEW k \in Layer, NEW v \in In(k)
      PROVE  compo_l[v][k] \in DOMAIN node_num_per_compo[k]
  <2>1. Numbered(compo_l) /\ splist_num[k] = Cardinality(Roots(N, k)) /\ GraphOK
    BY <1>1, Done DEF SizesOK, LabelInv
  <2>2. PICK r \in Members(v, k) : First(r, k) /\ compo_l[v][k] = Cardinality(Roots(r, k))
    BY <2>1 DEF Numbered
  <2>3. r \in In(k) /\ r \in Vertex
    BY <2>1, <2>2, MembersOf, InType
  <2>4. r < N /\ N \in Nat
    BY <2>3, Vertices DEF Vertex
  <2>5. Cardinality(Roots(r, k)) < Cardinality(Roots(N, k))
    BY <2>1, <2>2, <2>3, <2>4, RootsGrow
  <2>6. Cardinality(Roots(r, k)) \in Nat /\ Cardinality(Roots(N, k)) \in Nat
    BY <2>1, RootsType
  <2>7. compo_l[v][k] \in 0 .. splist_num[k] - 1
    BY <2>1, <2>2, <2>5, <2>6
  <2> QED BY <1>1, <2>7 DEF SizesOK
<1>2. \A v \in valid_nodes : compo_l[v] \in [0 .. core_list[v] -> 0 .. N - 1]
  BY DEF LabelInv, GraphOK, ArraysOK, LabelsOK, Indices
<1> QED BY <1>1, <1>2 DEF TypeOK, LabelInv, ArraysOK, ThreadsOK

LEMMA NoStepAfter == ASSUME LabelInv, Labelled PROVE \A t \in Thread : ~Step(t)
<1>1. i \in Nat /\ layer_num \in Nat /\ i = layer_num
  BY Layers DEF LabelInv, ThreadsOK, Labelled
<1> QED BY <1>1 DEF Step, Claim, PassOver, Found, Grow, Finish, Scanning, Labelled

LEMMA CountStep == ASSUME LabelInv, Count PROVE SizesOK'
<1>1. \A k \in Layer : DOMAIN node_num_per_compo'[k] = 0 .. splist_num[k] - 1
  BY DEF Count
<1>2. UNCHANGED graph /\ splist_num' = splist_num /\ i' = i /\ at' = at /\ Labelled
  BY DEF Count
<1>3. Labelled'
  BY <1>2, GraphKept DEF Labelled
<1> QED BY <1>1, <1>2, <1>3, GraphKept DEF SizesOK

LEMMA NextLabel == ASSUME LabelInv, SizesOK, [Next]_vars PROVE LabelInv' /\ SizesOK'
<1>1. ASSUME NEW t \in Thread, Step(t) PROVE LabelInv' /\ SizesOK'
  <2>1. ~Counted
    BY <1>1, NoStepAfter DEF SizesOK
  <2>2. node_num_per_compo' = node_num_per_compo
    BY <1>1 DEF Step, Claim, PassOver, Found, Grow, Finish
  <2> QED BY <1>1, <2>1, <2>2, LabelStep DEF SizesOK, Counted
<1>2. CASE Count
  <2>1. UNCHANGED graph /\ UNCHANGED <<i, at, vis, heap, j, cnt, splist_num, compo_l>>
    BY <1>2 DEF Count
  <2> QED BY <1>2, <2>1, LabelKept, CountStep
<1>3. CASE UNCHANGED vars
  <2>1. UNCHANGED graph /\ UNCHANGED <<i, at, vis, heap, j, cnt, splist_num, compo_l>>
    BY <1>3 DEF vars
  <2>2. node_num_per_compo' = node_num_per_compo
    BY <1>3 DEF vars
  <2>3. SizesOK'
    BY <2>1, <2>2, GraphKept DEF SizesOK, Counted, Labelled
  <2> QED BY <2>1, <2>3, LabelKept
<1> QED BY <1>1, <1>2, <1>3 DEF Next, Terminated

(* The labelling alone: its state has the right types, every component has *)
(* a size, and the components are nested and numbered by their smallest    *)
(* vertices.                                                               *)
THEOREM LabelsCorrect == Spec => [](TypeOK /\ Nested /\ NumberedByFirst)
<1>1. Init => LabelInv /\ SizesOK
  BY InitLabel DEF Init, SizesOK, Counted
<1>2. LabelInv /\ SizesOK /\ [Next]_vars => LabelInv' /\ SizesOK'
  BY NextLabel
<1>3. LabelInv /\ SizesOK => TypeOK /\ Nested /\ NumberedByFirst
  BY TypeHolds, NestedHolds, NumbersHold
<1> QED BY <1>1, <1>2, <1>3, PTL DEF Spec
-----------------------------------------------------------------------------
(* Persistence.  Links, their tags under a numbering, and the sizes that a *)
(* numbering gives.                                                        *)
Link == [tag : Nat, id : Vertex]
Record == [id : Vertex, ori : Nat, size : Nat, links : Seq(Nat)]

TagBy(compo, u, v) ==
  Max({k \in 1 .. MaxCore : InLayer(u, k) /\ InLayer(v, k) /\ compo[u][k] = compo[v][k]} \cup {0})

TagsRight(compo, h) ==
  \A v \in Vertex : \A n \in DOMAIN h[v] : h[v][n].tag = TagBy(compo, h[v][n].id, v)

Known(compo) ==
  Numbered(compo) /\ compo = [v \in Vertex |-> [k \in Indices(v) |-> compo[v][k]]]

Components(k) == 0 .. Cardinality(Roots(N, k)) - 1
SizesOf(compo) ==
  [k \in Layer |-> [c \in Components(k) |->
     Cardinality({v \in Vertex : InLayer(v, k) /\ compo[v][k] = c})]]

ComponentBy(compo, k, c) == {v \in valid_nodes : InLayer(v, k) /\ compo[v][k] = c}
NearBy(compo, k, c) ==
  LET members == ComponentBy(compo, k, c)
  IN  {v \in members : Away(v, members) < Far * Cardinality(valid_nodes)}

EntryRight(compo, p, k, c) ==
  /\ \E v \in In(k) : compo[v][k] = c
  /\ IF p = -1 THEN NearBy(compo, k, c) = {} ELSE p \in In(k) /\ compo[p][k] = c

EntriesRight(compo, e, k) ==
  /\ DOMAIN e = Components(k)
  /\ \A c \in Components(k) : EntryRight(compo, e[c], k, c)

LEMMA NearIs == \A k, c : Near(k, c) = NearBy(compo_l, k, c)
BY DEF Near, NearBy, Component, ComponentBy, InComponent

LEMMA DataKept ==
  ASSUME UNCHANGED graph
  PROVE  /\ (Straight' <=> Straight) /\ MaxCore' = MaxCore
         /\ \A c, h : TagsRight(c, h)' <=> TagsRight(c, h)
         /\ \A c : Known(c)' <=> Known(c)
         /\ \A c : SizesOf(c)' = SizesOf(c)
         /\ \A k : Components(k)' = Components(k)
         /\ \A c, e, k : EntriesRight(c, e, k)' <=> EntriesRight(c, e, k)
<1>1. (Straight' <=> Straight) /\ MaxCore' = MaxCore
  BY DEF graph, Straight, Position, MaxCore
<1>2. \A v, k : InLayer(v, k)' <=> InLayer(v, k)
  BY DEF graph, InLayer
<1>3. \A c, u, v : TagBy(c, u, v)' = TagBy(c, u, v)
  BY <1>1, <1>2 DEF TagBy
<1>4. \A c, h : TagsRight(c, h)' <=> TagsRight(c, h)
  BY <1>3 DEF TagsRight
<1>5. \A c : Known(c)' <=> Known(c)
  BY GraphKept DEF Known, Numbered
<1>6. \A k : Components(k)' = Components(k)
  BY GraphKept DEF Components
<1>7. \A c : SizesOf(c)' = SizesOf(c)
  BY <1>2, <1>6, GraphKept DEF SizesOf
<1>9. \A c, k, n : NearBy(c, k, n)' = NearBy(c, k, n)
  <2>1. valid_nodes' = valid_nodes
    BY DEF graph
  <2>2. \A v, S : Away(v, S)' = Away(v, S)
    BY <2>1 DEF Away
  <2>3. \A c, k, n : ComponentBy(c, k, n)' = ComponentBy(c, k, n)
    BY <1>2, <2>1 DEF ComponentBy
  <2> QED BY <2>1, <2>2, <2>3 DEF NearBy
<1>10. \A c, p, k, n : EntryRight(c, p, k, n)' <=> EntryRight(c, p, k, n)
  BY <1>9, GraphKept DEF EntryRight
<1>8. \A c, e, k : EntriesRight(c, e, k)' <=> EntriesRight(c, e, k)
  BY <1>6, <1>10 DEF EntriesRight
<1> QED BY <1>1, <1>4, <1>5, <1>6, <1>7, <1>8

LEMMA OneKnown == ASSUME GraphOK, NEW c, NEW d, Known(c), Known(d) PROVE c = d
<1>1. ASSUME NEW v \in Vertex, NEW k \in Indices(v) PROVE c[v][k] = d[v][k]
  <2>1. k \in Layer /\ v \in In(k)
    <3>1. v \in valid_nodes /\ k \in Nat /\ k <= core_list[v] /\ core_list[v] \in Nat
      BY <1>1 DEF Indices, GraphOK
    <3>2. core_list[v] <= MaxCore /\ MaxCore \in Nat
      BY Layers
    <3> QED BY <3>1, <3>2 DEF Layer, In, InLayer
  <2>2. PICK r \in Members(v, k) : First(r, k) /\ c[v][k] = Cardinality(Roots(r, k))
    BY <2>1 DEF Known, Numbered
  <2>3. PICK s \in Members(v, k) : First(s, k) /\ d[v][k] = Cardinality(Roots(s, k))
    BY <2>1 DEF Known, Numbered
  <2>4. v \in Members(v, k)
    BY <2>1, MembersOf
  <2>5. r = s
    BY <2>1, <2>2, <2>3, <2>4, OneNumbering
  <2> QED BY <2>2, <2>3, <2>5
<1>2. c = [v \in Vertex |-> [k \in Indices(v) |-> c[v][k]]]
  BY DEF Known
<1>3. d = [v \in Vertex |-> [k \in Indices(v) |-> d[v][k]]]
  BY DEF Known
<1> QED BY <1>1, <1>2, <1>3

LEMMA KnownWhenDone == ASSUME LabelInv, Labelled PROVE Known(compo_l)
BY Done DEF Known, LabelInv, ArraysOK, LabelsOK

LEMMA TagType ==
  ASSUME GraphOK, NEW u, NEW v
  PROVE  CommonLayer(u, v) = TagBy(compo_l, u, v) /\ CommonLayer(u, v) \in Nat
<1> DEFINE T == {k \in 1 .. MaxCore : Together(u, v, k)} \cup {0}
<1>1. MaxCore \in Nat
  BY Layers
<1>2. T \in SUBSET (0 .. MaxCore) /\ T # {}
  BY <1>1
<1>3. CommonLayer(u, v) = Max(T)
  BY DEF CommonLayer
<1>4. CommonLayer(u, v) = TagBy(compo_l, u, v)
  BY DEF CommonLayer, TagBy, Together
<1>9. T \subseteq Nat
  OBVIOUS
<1> HIDE DEF T
<1>5. PICK m \in T : \A n \in T : n <= m
  BY <1>1, <1>2, GreatestElement
<1>6. \E x \in T : \A y \in T : x >= y
  BY <1>1, <1>2, <1>5
<1>7. Max(T) \in T
  BY <1>6 DEF Max
<1>8. Max(T) \in Nat
  BY <1>7, <1>9
<1> QED BY <1>3, <1>4, <1>8

LEMMA TaggedOf ==
  ASSUME GraphOK, NEW v, NEW S, NEW list \in Seq(S)
  PROVE  /\ Tagged(v, list) \in Seq([tag : Nat, id : S]) /\ DOMAIN Tagged(v, list) = DOMAIN list
         /\ Len(Tagged(v, list)) = Len(list)
         /\ \A n \in DOMAIN list : /\ Tagged(v, list)[n].id = list[n]
                                   /\ Tagged(v, list)[n].tag = TagBy(compo_l, list[n], v)
<1>1. DOMAIN list = 1 .. Len(list) /\ Len(list) \in Nat /\ \A n \in DOMAIN list : list[n] \in S
  OBVIOUS
<1>2. Tagged(v, list) = [n \in 1 .. Len(list) |-> [tag |-> CommonLayer(list[n], v), id |-> list[n]]]
  BY <1>1 DEF Tagged
<1>3. \A n \in 1 .. Len(list) : [tag |-> CommonLayer(list[n], v), id |-> list[n]] \in [tag : Nat, id : S]
  BY <1>1, TagType
<1>4. Tagged(v, list) \in [1 .. Len(list) -> [tag : Nat, id : S]]
  BY <1>2, <1>3
<1>5. Tagged(v, list) \in Seq([tag : Nat, id : S]) /\ Len(Tagged(v, list)) = Len(list)
  <2>1. ASSUME NEW T, NEW m \in Nat, NEW s \in [1 .. m -> T] PROVE s \in Seq(T) /\ Len(s) = m
    OBVIOUS
  <2> DEFINE T == [tag : Nat, id : S]
  <2>2. Tagged(v, list) \in [1 .. Len(list) -> T] /\ Len(list) \in Nat
    BY <1>1, <1>4
  <2> HIDE DEF T
  <2>3. Tagged(v, list) \in Seq(T) /\ Len(Tagged(v, list)) = Len(list)
    BY <2>1, <2>2
  <2> QED BY <2>3 DEF T
<1>6. \A n \in 1 .. Len(list) : /\ Tagged(v, list)[n].id = list[n]
                                /\ Tagged(v, list)[n].tag = TagBy(compo_l, list[n], v)
  BY <1>2, TagType
<1> QED BY <1>1, <1>2, <1>5, <1>6

LEMMA TaggedType ==
  ASSUME GraphOK, NEW v, NEW list \in Seq(Vertex)
  PROVE  /\ Tagged(v, list) \in Seq(Link) /\ DOMAIN Tagged(v, list) = DOMAIN list
         /\ Len(Tagged(v, list)) = Len(list)
         /\ \A n \in DOMAIN list : /\ Tagged(v, list)[n].id = list[n]
                                   /\ Tagged(v, list)[n].tag = TagBy(compo_l, list[n], v)
BY TaggedOf DEF Link

-----------------------------------------------------------------------------
(* Entry vertices.  The sum of attributes is a function on the parts of a  *)
(* set: there is one, since the smallest size for which there is none      *)
(* would have one by adding an element to each part.                       *)
Taken(s) == CHOOSE x \in s : TRUE
SumAt(g, s) == IF s = {} THEN 0 ELSE Attr[Taken(s)] + g[s \ {Taken(s)}]
IsSum(g, S) == g = [s \in SUBSET S |-> SumAt(g, s)]

LEMMA Smaller ==
  ASSUME NEW s, IsFiniteSet(s), s # {}
  PROVE  /\ Taken(s) \in s /\ IsFiniteSet(s \ {Taken(s)})
         /\ Cardinality(s) \in Nat /\ Cardinality(s \ {Taken(s)}) \in Nat
         /\ Cardinality(s) = Cardinality(s \ {Taken(s)}) + 1
<1>1. Taken(s) \in s
  BY DEF Taken
<1>2. /\ IsFiniteSet(s \ {Taken(s)})
      /\ Cardinality(s \ {Taken(s)}) = Cardinality(s) - 1
  BY <1>1, FS_RemoveElement
<1>3. Cardinality(s) \in Nat /\ Cardinality(s \ {Taken(s)}) \in Nat
  BY <1>2, FS_CardinalityType
<1> QED BY <1>1, <1>2, <1>3

LEMMA SumExists == ASSUME NEW S, IsFiniteSet(S) PROVE \E g : IsSum(g, S)
<1> DEFINE Upto(n) == {s \in SUBSET S : Cardinality(s) <= n}
           Good(n) == \E g : \A s \in Upto(n) : g[s] = SumAt(g, s)
           Bad == {n \in Nat : ~Good(n)}
<1>1. \A s \in SUBSET S : IsFiniteSet(s) /\ Cardinality(s) \in Nat /\ Cardinality(s) <= Cardinality(S)
  BY FS_Subset, FS_CardinalityType
<1>2. Bad = {}
  <2> SUFFICES ASSUME Bad # {} PROVE FALSE
    OBVIOUS
  <2>1. PICK n \in Bad : \A m \in Bad : n <= m
    <3>1. Bad \in SUBSET Nat
      OBVIOUS
    <3> HIDE DEF Bad
    <3> QED BY <3>1, LeastElement
  <2>2. n \in Nat /\ ~Good(n)
    BY <2>1
  <2>3. CASE n = 0
    <3> DEFINE g == [s \in SUBSET S |-> 0]
    <3>1. \A s \in Upto(0) : s = {}
      BY <1>1, FS_EmptySet
    <3>2. \A s \in Upto(0) : g[s] = SumAt(g, s)
      BY <3>1 DEF SumAt
    <3> QED BY <2>2, <2>3, <3>2
  <2>4. CASE n # 0
    <3>1. n - 1 \in Nat /\ Good(n - 1)
      BY <2>1, <2>2, <2>4
    <3>2. PICK g : \A s \in Upto(n - 1) : g[s] = SumAt(g, s)
      BY <3>1
    <3> DEFINE h == [s \in SUBSET S |-> SumAt(g, s)]
    <3>3. ASSUME NEW s \in Upto(n) PROVE h[s] = SumAt(h, s)
      <4>1. CASE s = {}
        BY <4>1 DEF SumAt
      <4>2. CASE s # {}
        <5> DEFINE rest == s \ {Taken(s)}
        <5>1. rest \in SUBSET S /\ Cardinality(rest) <= n - 1
          BY <1>1, <2>2, <4>2, Smaller
        <5>2. h[rest] = SumAt(g, rest) /\ g[rest] = SumAt(g, rest)
          BY <3>2, <5>1
        <5>3. h[s] = Attr[Taken(s)] + g[rest]
          BY <4>2 DEF SumAt
        <5>4. SumAt(h, s) = Attr[Taken(s)] + h[rest]
          BY <4>2 DEF SumAt
        <5> QED BY <5>2, <5>3, <5>4
      <4> QED BY <4>1, <4>2
    <3> HIDE DEF h
    <3> QED BY <2>2, <3>3
  <2> QED BY <2>3, <2>4
<1>3. Cardinality(S) \in Nat /\ Good(Cardinality(S))
  BY <1>2, FS_CardinalityType
<1>4. PICK g : \A s \in SUBSET S : g[s] = SumAt(g, s)
  BY <1>1, <1>3
<1> DEFINE h == [s \in SUBSET S |-> g[s]]
<1>5. ASSUME NEW s \in SUBSET S PROVE h[s] = SumAt(h, s)
  <2>1. CASE s = {}
    BY <1>4, <2>1 DEF SumAt
  <2>2. CASE s # {}
    <3>1. s \ {Taken(s)} \in SUBSET S
      OBVIOUS
    <3>2. h[s] = g[s] /\ h[s \ {Taken(s)}] = g[s \ {Taken(s)}]
      BY <3>1
    <3> QED BY <1>4, <2>2, <3>2 DEF SumAt
  <2> QED BY <2>1, <2>2
<1>6. h = [s \in SUBSET S |-> SumAt(h, s)]
  BY <1>5
<1> QED BY <1>6 DEF IsSum

LEMMA SumType ==
  ASSUME NEW S, IsFiniteSet(S), \A v \in S : Attr[v] \in Nat
  PROVE  MapThenSumSet(LAMBDA v : Attr[v], S) \in Nat
<1> DEFINE g == CHOOSE f : IsSum(f, S)
<1>1. MapThenSumSet(LAMBDA v : Attr[v], S) = g[S]
  BY DEF MapThenSumSet, MapThenFoldSet, IsSum, SumAt, Taken
<1>2. \A s \in SUBSET S : g[s] = SumAt(g, s)
  <2>1. IsSum(g, S)
    BY SumExists
  <2> HIDE DEF g
  <2> QED BY <2>1 DEF IsSum
<1> HIDE DEF g
<1> DEFINE Bad == {n \in Nat : \E s \in SUBSET S : Cardinality(s) = n /\ g[s] \notin Nat}
<1>3. \A s \in SUBSET S : IsFiniteSet(s) /\ Cardinality(s) \in Nat
  BY FS_Subset, FS_CardinalityType
<1>4. Bad = {}
  <2> SUFFICES ASSUME Bad # {} PROVE FALSE
    OBVIOUS
  <2>1. PICK n \in Bad : \A m \in Bad : n <= m
    <3>1. Bad \in SUBSET Nat
      OBVIOUS
    <3> HIDE DEF Bad
    <3> QED BY <3>1, LeastElement
  <2>2. PICK s \in SUBSET S : Cardinality(s) = n /\ g[s] \notin Nat
    BY <2>1
  <2>3. s # {}
    BY <1>2, <2>2 DEF SumAt
  <2> DEFINE rest == s \ {Taken(s)}
  <2>4. /\ Taken(s) \in S /\ rest \in SUBSET S /\ Cardinality(rest) \in Nat
        /\ n = Cardinality(rest) + 1
    BY <1>3, <2>2, <2>3, Smaller
  <2>5. g[s] = Attr[Taken(s)] + g[rest]
    BY <1>2, <2>3 DEF SumAt
  <2>6. g[rest] \in Nat
    <3>1. Cardinality(rest) \notin Bad
      <4>1. ~(n <= Cardinality(rest))
        BY <2>4
      <4> QED BY <2>1, <4>1
    <3> QED BY <2>4, <3>1
  <2> QED BY <2>2, <2>4, <2>5, <2>6
<1> QED BY <1>1, <1>3, <1>4

(* Every number below the number of components is one's.                   *)
LEMMA EveryNumber ==
  ASSUME GraphOK, NEW k, NEW c \in Components(k)
  PROVE  \E r \in In(k) : First(r, k) /\ Cardinality(Roots(r, k)) = c
<1> DEFINE T == {n \in 0 .. N : Cardinality(Roots(n, k)) > c}
<1>1. c \in Nat /\ \A n : Cardinality(Roots(n, k)) \in Nat
  BY RootsType DEF Components
<1>2. N \in T
  BY <1>1, Vertices DEF Components
<1>3. PICK n \in T : \A m \in T : n <= m
  <2>1. T \in SUBSET Nat
    OBVIOUS
  <2> HIDE DEF T
  <2> QED BY <1>2, <2>1, LeastElement
<1>4. n # 0
  <2>1. Cardinality(Roots(0, k)) <= 0
    BY RootsBound, Vertices
  <2> QED BY <1>1, <1>3, <2>1
<1>5. n - 1 \in Vertex /\ n \in Nat /\ (n - 1) + 1 = n
  BY <1>3, <1>4, Vertices DEF Vertex
<1>6. n - 1 \notin T /\ n - 1 \in 0 .. N
  BY <1>3, <1>5, Vertices DEF Vertex
<1>7. Cardinality(Roots(n - 1, k)) <= c /\ Cardinality(Roots(n, k)) > c
  BY <1>1, <1>3, <1>6
<1> DEFINE r == n - 1
<1>8. r \in Vertex /\ r + 1 = n
  BY <1>5
<1> HIDE DEF r
<1>9. /\ r \in In(k) /\ First(r, k) =>
           Cardinality(Roots(n, k)) = Cardinality(Roots(r, k)) + 1
      /\ ~(r \in In(k) /\ First(r, k)) => Roots(n, k) = Roots(r, k)
  BY <1>8, RootsNext
<1>10. Cardinality(Roots(r, k)) <= c
  BY <1>7 DEF r
<1> QED BY <1>1, <1>7, <1>9, <1>10

(* The entry vertices of a layer, when all layers are labelled.            *)
LEMMA EntryPoints ==
  ASSUME LabelInv, Labelled, NEW k \in Layer
  PROVE  EntriesRight(compo_l, EnterPoints(k), k)
<1>1. GraphOK /\ Numbered(compo_l) /\ splist_num[k] = Cardinality(Roots(N, k))
  BY Done DEF LabelInv
<1>2. ASSUME NEW c \in Components(k) PROVE EntryRight(compo_l, Find_Enter_Pt(k, c), k, c)
  <2>1. \E v \in In(k) : compo_l[v][k] = c
    <3>1. PICK r \in In(k) : First(r, k) /\ Cardinality(Roots(r, k)) = c
      BY <1>1, EveryNumber
    <3>2. PICK s \in Members(r, k) : First(s, k) /\ compo_l[r][k] = Cardinality(Roots(s, k))
      BY <1>1 DEF Numbered
    <3>3. r = s
      BY <1>1, <3>1, <3>2, OneFirst
    <3> QED BY <3>1, <3>2, <3>3
  <2> DEFINE members == Component(k, c)
             near == Near(k, c)
             away == [v \in near |-> Away(v, members)]
             closest == {v \in near : \A u \in near : away[v] <= away[u]}
  <2>2. /\ members \in SUBSET Vertex /\ near \in SUBSET members
        /\ \A v \in members : v \in In(k) /\ compo_l[v][k] = c
    BY <1>1 DEF Component, Near, InComponent, In, GraphOK
  <2>3. Find_Enter_Pt(k, c) = IF near = {} THEN -1 ELSE Min(closest)
    BY DEF Find_Enter_Pt
  <2>4. CASE near = {}
    BY <2>1, <2>3, <2>4, NearIs DEF EntryRight
  <2>5. CASE near # {}
    <3>1. ASSUME NEW v \in near PROVE Away(v, members) \in Nat
      <4>1. IsFiniteSet(members) /\ IsFiniteSet(valid_nodes)
        BY <1>1, <2>2, Vertices, FS_Subset DEF GraphOK
      <4>2. SumAttr(members) \in Nat
        <5>1. \A u \in members : Attr[u] \in Nat
          BY <2>2, PersistenceAssumption
        <5> HIDE DEF members
        <5> QED BY <4>1, <5>1, SumType DEF SumAttr
      <4>3. Cardinality(valid_nodes) \in Nat /\ Attr[v] \in Nat
        BY <2>2, <4>1, FS_CardinalityType, PersistenceAssumption
      <4>4. Cardinality(valid_nodes) * Attr[v] \in Nat
        BY <4>3
      <4> HIDE DEF members
      <4> QED BY <4>2, <4>4 DEF Away
    <3> DEFINE D == {away[v] : v \in near}
    <3>2. D \in SUBSET Nat /\ D # {}
      BY <2>5, <3>1
    <3>3. PICK d \in D : \A e \in D : d <= e
      <4> HIDE DEF D
      <4> QED BY <3>2, LeastElement
    <3>4. closest # {}
      <4>1. PICK v \in near : d = away[v]
        BY <3>3
      <4> QED BY <3>3, <4>1
    <3>5. closest \in SUBSET Nat /\ closest \subseteq members
      BY <2>2, Vertices
    <3> HIDE DEF closest
    <3>6. Min(closest) \in closest
      <4>1. \E x \in closest : \A y \in closest : x <= y
        BY <3>4, <3>5, LeastElement
      <4> QED BY <4>1 DEF Min
    <3>7. Find_Enter_Pt(k, c) \in members /\ Find_Enter_Pt(k, c) # -1
      <4>1. Find_Enter_Pt(k, c) = Min(closest)
        BY <2>3, <2>5
      <4>2. Min(closest) \in members /\ Min(closest) \in Nat
        BY <3>5, <3>6
      <4>3. \A x \in Nat : x # -1
        OBVIOUS
      <4> QED BY <4>1, <4>2, <4>3
    <3> QED BY <2>1, <2>2, <3>7 DEF EntryRight
  <2> QED BY <2>4, <2>5
<1>3. EnterPoints(k) = [c \in Components(k) |-> Find_Enter_Pt(k, c)]
  BY <1>1 DEF EnterPoints, Components
<1> QED BY <1>2, <1>3 DEF EntriesRight
-----------------------------------------------------------------------------
(* While the index is built: the graph is the one to be saved, every layer *)
(* that is done has its entry vertices, and the tags are those of the      *)
(* labels if the positions are the ids.                                    *)
BuildInv ==
  /\ cur_graph_ori_adj = Induced(saved.graph) /\ valid_nodes = saved.graph.valid
  /\ cnns_2_ori = saved.graph.ori
  /\ layer \in -1 .. layer_num
  /\ layer = -1 => hier_adj = [v \in Vertex |-> <<>>]
  /\ layer >= 0 => Counted
  /\ Counted => node_num_per_compo = SizesOf(compo_l)
  /\ hier_adj \in [Vertex -> Seq(Link)]
  /\ layer >= 0 => sp_l_list = [k \in Layer |-> sp_l_list[k]]
  /\ \A k \in Layer : k < layer => EntriesRight(compo_l, sp_l_list[k], k)
  /\ Straight => TagsRight(compo_l, hier_adj)

(* The saved index, as far as it reached the file: every record is of its  *)
(* vertex, and has the first of its links.                                 *)
Began(r, v) ==
  /\ r.id = v /\ r.ori = saved.graph.ori[v + 1]
  /\ r.size = Len(saved.links[v]) /\ Len(r.links) <= r.size
  /\ \A n \in 1 .. Len(r.links) : r.links[n] = Bytes(saved.links[v][n].id)

Written(v) == Began(file.lists[v + 1], v)

FileInv ==
  /\ saved.links \in [Vertex -> Seq(Link)]
  /\ \A k \in DOMAIN saved.entries : \E m \in Nat : DOMAIN saved.entries[k] = 0 .. m - 1
  /\ file = [entries |-> saved.entries, size |-> N, core |-> file.core, lists |-> file.lists]
  /\ file.core \in [Vertex -> Nat] /\ \A v \in Vertex : file.core[v] \in {saved.core[v], 0}
  /\ file.lists \in Seq(Record) /\ Len(file.lists) \in 0 .. N
  /\ file.lists # <<>> => file.core = saved.core
  /\ \A v \in Vertex : v < Len(file.lists) => Written(v)

(* What was saved is right for the graph that it was saved for.            *)
SavedFits ==
  /\ Known(saved.compo) /\ saved.sizes = SizesOf(saved.compo)
  /\ \A k \in Layer : EntriesRight(saved.compo, saved.entries[k], k)
  /\ Straight => TagsRight(saved.compo, saved.links)

SaveInv ==
  /\ GraphGiven /\ cnns_2_ori = saved.graph.ori
  /\ Labelled /\ hier_adj = saved.links
  /\ stage = "save" => file.core = saved.core

RelabelInv ==
  hier_adj = [v \in Vertex |-> <<>>] /\ layer = 0 /\ node_num_per_compo = <<>>

(* A list begins with the links of its record, and has no others unless    *)
(* something was read behind the end of the file.                          *)
Begins(h, r, v) ==
  /\ Len(h) >= r.size /\ (layer <= Len(file.lists) => Len(h) = r.size)
  /\ \A n \in 1 .. Len(r.links) :
       h[n].id = r.links[n] /\ h[n].tag = TagBy(compo_l, r.links[n], v)

Kept(v) ==
  cnns_2_ori[v + 1] = saved.graph.ori[v + 1] /\ Begins(hier_adj[v], file.lists[v + 1], v)

(* The first lists are read.                                               *)
ReadInv ==
  /\ Labelled /\ layer \in 0 .. N /\ sp_l_list = file.entries
  /\ hier_adj \in [Vertex -> Seq(Link)]
  /\ \A v \in Vertex :
       /\ v >= layer /\ layer <= Len(file.lists) => hier_adj[v] = <<>>
       /\ v < layer /\ v < Len(file.lists) => Kept(v)
  /\ GraphGiven => node_num_per_compo = SizesOf(compo_l)

Filed == stage \in {"save", "cut", "relabel", "read"}
StageInv ==
  /\ stage \in {"label", "save", "cut", "relabel", "read", "refused", "undefined"}
  /\ cnns_2_ori \in Seq(Nat) /\ Len(cnns_2_ori) = N /\ saved.graph \in Inputs
  /\ stage = "label" => BuildInv
  /\ Filed => FileInv /\ Layer \subseteq DOMAIN saved.entries /\ (GraphGiven => SavedFits)
  /\ stage \in {"save", "cut"} => SaveInv
  /\ stage \in {"relabel", "read"} => core_list = file.core
  /\ stage = "relabel" => RelabelInv
  /\ stage = "read" => ReadInv

IndexInv == LabelInv /\ SizesOK /\ StageInv

LEMMA VarsKept ==
  ASSUME LabelInv, SizesOK, UNCHANGED vars PROVE LabelInv' /\ SizesOK' /\ UNCHANGED graph
BY NextLabel DEF vars

LEMMA CountedKept ==
  ASSUME LabelInv, SizesOK, Counted, Next PROVE UNCHANGED vars
BY NoStepAfter DEF SizesOK, Next, Count, Terminated

LEMMA LabelAction == ASSUME IndexInv, Label PROVE IndexInv'
<1>1. /\ stage = "label" /\ Next
      /\ UNCHANGED <<stage, cnns_2_ori, layer, sp_l_list, hier_adj, file, saved>>
  BY DEF Label, index
<1>2. LabelInv' /\ SizesOK'
  BY <1>1, NextLabel DEF IndexInv
<1>3. BuildInv
  BY <1>1 DEF IndexInv, StageInv
<1>4. BuildInv'
  <2>1. CASE Counted
    <3>1. UNCHANGED vars
      BY <1>1, <2>1, CountedKept DEF IndexInv
    <3>2. UNCHANGED graph /\ compo_l' = compo_l /\ node_num_per_compo' = node_num_per_compo
      BY <3>1 DEF vars
    <3>3. Counted' <=> Counted
      BY <3>2 DEF Counted
    <3> QED BY <1>1, <1>3, <3>2, <3>3, DataKept, GraphKept DEF BuildInv, graph
  <2>2. CASE ~Counted
    <3>1. UNCHANGED graph
      BY <1>1 DEF Next, Step, Claim, PassOver, Found, Grow, Finish, Count, Terminated, vars
    <3>2. layer = -1
      BY <1>3, <2>2, Layers DEF BuildInv, IndexInv, LabelInv
    <3>3. hier_adj = [v \in Vertex |-> <<>>]
      BY <1>3, <3>2 DEF BuildInv
    <3>4. ASSUME Counted' PROVE node_num_per_compo' = SizesOf(compo_l')
      <4>1. Count
        BY <1>1, <2>2, <3>4 DEF Next, Step, Claim, PassOver, Found, Grow, Finish, Terminated, Counted
      <4>2. \A k \in Layer : 0 .. splist_num[k] - 1 = Components(k)
        BY <4>1, Done DEF Count, Components, IndexInv
      <4>3. compo_l' = compo_l
        BY <4>1 DEF Count
      <4>4. node_num_per_compo' =
              [k \in Layer |-> [c \in 0 .. splist_num[k] - 1 |->
                 Cardinality({v \in Vertex : InLayer(v, k) /\ compo_l[v][k] = c})]]
        BY <4>1 DEF Count
      <4> QED BY <4>2, <4>3, <4>4 DEF SizesOf
    <3>5. \A k \in Layer : ~(k < layer)
      BY <3>2, Layers DEF IndexInv, LabelInv
    <3>6. TagsRight(compo_l', hier_adj)
      BY <3>3 DEF TagsRight
    <3> QED BY <1>1, <1>3, <3>1, <3>2, <3>4, <3>5, <3>6, DataKept, GraphKept DEF BuildInv, graph
  <2> QED BY <2>1, <2>2
<1> QED BY <1>1, <1>2, <1>4 DEF IndexInv, StageInv, Filed

LEMMA ChoiceType ==
  ASSUME NEW v \in Vertex, NEW k, NEW seen \in SUBSET Vertex
  PROVE  Choice(v, k, seen) \in Seq(Vertex)
<1> DEFINE fit == {u \in Vertex : u # v /\ Together(u, v, k)} \ seen
<1>1. fit \in SUBSET Vertex /\ Choice(v, k, seen) = Chosen(v, fit, seen)
  BY DEF Choice
<1> HIDE DEF fit
<1>2. Chosen(v, fit, seen) \in Seq(fit)
  BY <1>1, PersistenceAssumption
<1> QED BY <1>1, <1>2

LEMMA ViewType ==
  ASSUME NEW k, NEW v \in Vertex, hier_adj[v] \in Seq(Link) PROVE View(v, k) \in SUBSET Vertex
<1>1. \A n \in DOMAIN hier_adj[v] : hier_adj[v][n] \in Link
  OBVIOUS
<1>2. \A n \in DOMAIN hier_adj[v] : hier_adj[v][n].id \in Vertex
  BY <1>1 DEF Link
<1> QED BY <1>2 DEF View, Seen

LEMMA StraightAt == ASSUME Straight, NEW p \in valid_nodes PROVE At(p) = p
BY DEF Straight, At

LEMMA BuildFirstAction == ASSUME IndexInv, BuildFirst PROVE IndexInv'
<1>1. /\ stage = "label" /\ Counted /\ UNCHANGED <<vars, stage, cnns_2_ori, file, saved>>
      /\ sp_l_list' = [k \in Layer |-> IF k = 0 THEN EnterPoints(0) ELSE <<>>]
      /\ hier_adj' = [p \in Vertex |->
           IF p < Cardinality(valid_nodes)
           THEN Tagged(At(p), IF p \in valid_nodes THEN Choice(p, 0, {}) ELSE <<>>)
           ELSE <<>>]
      /\ layer' = IF Whole THEN 1 ELSE 0
  BY DEF BuildFirst
<1>2. LabelInv /\ SizesOK /\ Labelled /\ GraphOK /\ BuildInv
  BY <1>1 DEF IndexInv, SizesOK, StageInv, LabelInv
<1>3. LabelInv' /\ SizesOK' /\ UNCHANGED graph
  BY <1>1, <1>2, VarsKept
<1>4. 0 \in Layer /\ layer_num >= 1 /\ layer_num \in Nat
  BY <1>2, Layers
<1>5. ASSUME NEW p \in Vertex
      PROVE  hier_adj'[p] = <<>> \/ \E list \in Seq(Vertex) :
               hier_adj'[p] = Tagged(At(p), list) /\ (p \in valid_nodes \/ list = <<>>)
  <2>1. CASE p < Cardinality(valid_nodes) /\ p \in valid_nodes
    <3>1. hier_adj'[p] = Tagged(At(p), Choice(p, 0, {}))
      BY <1>1, <2>1
    <3>2. Choice(p, 0, {}) \in Seq(Vertex)
      BY ChoiceType
    <3> QED BY <2>1, <3>1, <3>2
  <2>2. CASE p < Cardinality(valid_nodes) /\ p \notin valid_nodes
    <3>1. hier_adj'[p] = Tagged(At(p), <<>>)
      BY <1>1, <2>2
    <3>2. <<>> \in Seq(Vertex)
      OBVIOUS
    <3> QED BY <3>1, <3>2
  <2>3. CASE ~(p < Cardinality(valid_nodes))
    BY <1>1, <2>3
  <2> QED BY <2>1, <2>2, <2>3
<1>6. hier_adj' \in [Vertex -> Seq(Link)]
  <2>1. \A p \in Vertex : hier_adj'[p] \in Seq(Link)
    <3>1. <<>> \in Seq(Link)
      OBVIOUS
    <3> QED BY <1>2, <1>5, <3>1, TaggedType
  <2> QED BY <1>1, <2>1
<1>7. ASSUME Straight PROVE TagsRight(compo_l, hier_adj')
  <2> SUFFICES ASSUME NEW p \in Vertex, NEW n \in DOMAIN hier_adj'[p]
               PROVE  hier_adj'[p][n].tag = TagBy(compo_l, hier_adj'[p][n].id, p)
    BY DEF TagsRight
  <2>1. PICK list \in Seq(Vertex) :
          hier_adj'[p] = Tagged(At(p), list) /\ (p \in valid_nodes \/ list = <<>>)
    BY <1>5
  <2>2. n \in DOMAIN list
    BY <1>2, <2>1, TaggedType
  <2>3. At(p) = p
    BY <1>7, <2>1, <2>2, StraightAt
  <2> QED BY <1>2, <2>1, <2>2, <2>3, TaggedType
<1>8. \A k \in Layer : k < layer' => EntriesRight(compo_l, sp_l_list'[k], k)
  <2>1. EntriesRight(compo_l, EnterPoints(0), 0)
    BY <1>2, <1>4, EntryPoints
  <2>2. \A k \in Layer : k < layer' => k = 0
    BY <1>1, <1>2, Layers
  <2> QED BY <1>1, <2>1, <2>2
<1>9. /\ compo_l' = compo_l /\ node_num_per_compo' = node_num_per_compo /\ Counted'
      /\ cur_graph_ori_adj' = cur_graph_ori_adj /\ valid_nodes' = valid_nodes
  BY <1>1 DEF vars, graph, Counted
<1>10. layer' \in -1 .. layer_num /\ layer' # -1
  BY <1>1, <1>4
<1>11. sp_l_list' = [k \in Layer |-> sp_l_list'[k]]
  BY <1>1
<1>12. BuildInv'
  BY <1>1, <1>2, <1>3, <1>6, <1>7, <1>8, <1>9, <1>10, <1>11, DataKept, GraphKept DEF BuildInv
<1> QED BY <1>1, <1>3, <1>12 DEF IndexInv, StageInv, Filed

LEMMA BuildLayerAction == ASSUME IndexInv, BuildLayer PROVE IndexInv'
<1>1. /\ stage = "label" /\ layer \in Layer /\ UNCHANGED <<vars, stage, cnns_2_ori, file, saved>>
      /\ sp_l_list' = [sp_l_list EXCEPT ![layer] = EnterPoints(layer)]
      /\ hier_adj' = [v \in Vertex |->
           IF InLayer(v, layer)
           THEN hier_adj[v] \o Tagged(v, Choice(v, layer, View(v, layer)))
           ELSE hier_adj[v]]
      /\ layer' = layer + 1
  BY DEF BuildLayer
<1>2. LabelInv /\ SizesOK /\ GraphOK /\ BuildInv
  BY <1>1 DEF IndexInv, StageInv, LabelInv
<1>3. layer \in Nat /\ layer < layer_num /\ layer_num \in Nat
  BY <1>1, <1>2, Layers
<1>4. Counted /\ Labelled
  BY <1>2, <1>3 DEF BuildInv, SizesOK
<1>5. LabelInv' /\ SizesOK' /\ UNCHANGED graph
  BY <1>1, <1>2, VarsKept
<1>6. ASSUME NEW v \in Vertex
      PROVE  /\ hier_adj'[v] \in Seq(Link)
             /\ Straight => \A n \in DOMAIN hier_adj'[v] :
                  hier_adj'[v][n].tag = TagBy(compo_l, hier_adj'[v][n].id, v)
  <2> DEFINE list == Choice(v, layer, View(v, layer))
  <2>1. hier_adj[v] \in Seq(Link)
    BY <1>2 DEF BuildInv
  <2>2. list \in Seq(Vertex)
    BY <2>1, ViewType, ChoiceType
  <2>3. Straight => \A n \in DOMAIN hier_adj[v] :
          hier_adj[v][n].tag = TagBy(compo_l, hier_adj[v][n].id, v)
    BY <1>2 DEF BuildInv, TagsRight
  <2>4. hier_adj'[v] = hier_adj[v] \o Tagged(v, list) \/ hier_adj'[v] = hier_adj[v]
    BY <1>1
  <2> HIDE DEF list
  <2> DEFINE added == Tagged(v, list)
  <2>5. added \in Seq(Link) /\ \A n \in DOMAIN added : added[n].tag = TagBy(compo_l, added[n].id, v)
    BY <1>2, <2>2, TaggedType
  <2> HIDE DEF added
  <2>6. CASE hier_adj'[v] = hier_adj[v] \o added
    <3> DEFINE h == hier_adj[v]
    <3>1. h \in Seq(Link) /\ h \o added \in Seq(Link)
      BY <2>1, <2>5
    <3> HIDE DEF h
    <3>2. ASSUME NEW n \in DOMAIN (h \o added)
          PROVE  \/ n \in DOMAIN h /\ (h \o added)[n] = h[n]
                 \/ n - Len(h) \in DOMAIN added /\ (h \o added)[n] = added[n - Len(h)]
      BY <2>5, <3>1, <3>2
    <3> QED BY <2>3, <2>5, <2>6, <3>1, <3>2 DEF h
  <2>7. CASE hier_adj'[v] = hier_adj[v]
    BY <2>1, <2>3, <2>7
  <2> QED BY <2>4, <2>6, <2>7 DEF added
<1>7. hier_adj' \in [Vertex -> Seq(Link)] /\ (Straight => TagsRight(compo_l, hier_adj'))
  BY <1>1, <1>6 DEF TagsRight
<1>8. \A k \in Layer : sp_l_list'[k] = IF k = layer THEN EnterPoints(layer) ELSE sp_l_list[k]
  BY <1>1, <1>2, <1>3 DEF BuildInv
<1>9. sp_l_list' = [k \in Layer |-> sp_l_list'[k]]
  <2>1. sp_l_list = [k \in Layer |-> sp_l_list[k]]
    BY <1>2, <1>3 DEF BuildInv
  <2>2. DOMAIN sp_l_list = Layer
    BY <2>1
  <2>3. sp_l_list' = [k \in Layer |-> IF k = layer THEN EnterPoints(layer) ELSE sp_l_list[k]]
    BY <1>1, <2>2
  <2> QED BY <2>3
<1>10. ASSUME NEW k \in Layer, k < layer' PROVE EntriesRight(compo_l, sp_l_list'[k], k)
  <2>1. CASE k = layer
    BY <1>1, <1>2, <1>4, <1>8, <2>1, EntryPoints
  <2>2. CASE k # layer
    <3>1. k < layer
      BY <1>1, <1>2, <1>3, <1>10, <2>2, Layers
    <3> QED BY <1>2, <1>8, <2>2, <3>1 DEF BuildInv
  <2> QED BY <2>1, <2>2
<1>11. /\ compo_l' = compo_l /\ node_num_per_compo' = node_num_per_compo /\ Counted'
       /\ cur_graph_ori_adj' = cur_graph_ori_adj /\ valid_nodes' = valid_nodes
  BY <1>1, <1>4 DEF vars, graph, Counted
<1>12. layer' \in -1 .. layer_num /\ layer' # -1
  BY <1>1, <1>3
<1>13. BuildInv'
  <2>1. /\ cur_graph_ori_adj = Induced(saved.graph) /\ valid_nodes = saved.graph.valid
        /\ cnns_2_ori = saved.graph.ori /\ (Counted => node_num_per_compo = SizesOf(compo_l))
    BY <1>2 DEF BuildInv
  <2>2. saved' = saved /\ cnns_2_ori' = cnns_2_ori
    BY <1>1
  <2>3. layer' \in -1 .. layer_num /\ layer' # -1 /\ layer_num' = layer_num
    BY <1>5, <1>12, GraphKept
  <2>4. node_num_per_compo' = SizesOf(compo_l')
    BY <1>4, <1>11, <2>1
  <2> QED BY <1>5, <1>7, <1>9, <1>10, <1>11, <2>1, <2>2, <2>3, <2>4, DataKept, GraphKept
          DEF BuildInv
<1> QED BY <1>1, <1>5, <1>13 DEF IndexInv, StageInv, Filed

LEMMA BuildFailsAction == ASSUME IndexInv, BuildFails PROVE IndexInv'
<1>1. stage' = "undefined" /\ UNCHANGED <<vars, cnns_2_ori, saved>>
  BY DEF BuildFails, Undefined
<1>2. LabelInv' /\ SizesOK'
  BY <1>1, VarsKept DEF IndexInv
<1> QED BY <1>1, <1>2 DEF IndexInv, StageInv, Filed

LEMMA SaveAction == ASSUME IndexInv, Save PROVE IndexInv'
<1> PICK n \in 0 .. N :
      /\ file' = [entries |-> sp_l_list, size |-> N, lists |-> <<>>,
                  core |-> [v \in Vertex |-> IF v < n THEN core_list[v] ELSE 0]]
      /\ stage' = IF n = N THEN "save" ELSE "cut"
  BY DEF Save
<1>1. /\ stage = "label" /\ layer = layer_num /\ UNCHANGED <<vars, cnns_2_ori, layer, sp_l_list, hier_adj>>
      /\ saved' = [graph |-> saved.graph, entries |-> sp_l_list, core |-> core_list,
                   links |-> hier_adj, compo |-> compo_l, sizes |-> node_num_per_compo]
  BY DEF Save, index
<1>2. LabelInv /\ SizesOK /\ GraphOK /\ BuildInv
  BY <1>1 DEF IndexInv, StageInv, LabelInv
<1>3. layer \in Nat /\ layer_num \in Nat /\ \A k \in Layer : k < layer
  BY <1>1, <1>2, Layers
<1>4. Counted /\ Labelled
  BY <1>2, <1>3 DEF BuildInv, SizesOK
<1>5. LabelInv' /\ SizesOK' /\ UNCHANGED graph
  BY <1>1, <1>2, VarsKept
<1>6. /\ saved'.graph = saved.graph /\ saved'.entries = sp_l_list /\ saved'.core = core_list
      /\ saved'.links = hier_adj /\ saved'.compo = compo_l /\ saved'.sizes = node_num_per_compo
  BY <1>1
<1>7. /\ compo_l' = compo_l /\ core_list' = core_list /\ valid_nodes' = valid_nodes
      /\ cur_graph_ori_adj' = cur_graph_ori_adj /\ i' = i /\ at' = at
  BY <1>1 DEF vars, graph
<1>8. DOMAIN sp_l_list = Layer
  <2>1. sp_l_list = [k \in Layer |-> sp_l_list[k]]
    BY <1>2, <1>3 DEF BuildInv
  <2> QED BY <2>1
<1>9. FileInv'
  <2>1. saved'.links \in [Vertex -> Seq(Link)]
    BY <1>2, <1>6 DEF BuildInv
  <2>2. ASSUME NEW k \in DOMAIN saved'.entries
        PROVE \E m \in Nat : DOMAIN saved'.entries[k] = 0 .. m - 1
    <3>1. k \in Layer /\ DOMAIN sp_l_list[k] = Components(k)
      BY <1>2, <1>3, <1>6, <1>8 DEF BuildInv, EntriesRight
    <3> QED BY <1>2, <1>6, <3>1, RootsType DEF Components
  <2>3. /\ file'.lists = <<>> /\ file'.core = [v \in Vertex |-> IF v < n THEN core_list[v] ELSE 0]
        /\ file' = [entries |-> saved'.entries, size |-> N, core |-> file'.core, lists |-> file'.lists]
    BY <1>6
  <2>4. <<>> \in Seq(Record) /\ Len(<<>>) = 0 /\ 0 \in 0 .. N
    BY Vertices
  <2>5. \A v \in Vertex : ~(v < Len(file'.lists))
    BY <2>3, <2>4, Vertices
  <2>6. /\ file'.core \in [Vertex -> Nat]
        /\ \A v \in Vertex : file'.core[v] \in {saved'.core[v], 0}
    BY <1>2, <1>6, <2>3 DEF GraphOK
  <2> QED BY <2>1, <2>2, <2>3, <2>4, <2>5, <2>6 DEF FileInv
<1>10. SavedFits'
  <2>1. Known(compo_l)
    BY <1>2, <1>4, KnownWhenDone
  <2>2. /\ node_num_per_compo = SizesOf(compo_l)
        /\ \A k \in Layer : EntriesRight(compo_l, sp_l_list[k], k)
        /\ Straight => TagsRight(compo_l, hier_adj)
    BY <1>2, <1>3, <1>4 DEF BuildInv
  <2> QED BY <1>5, <1>6, <2>1, <2>2, DataKept, GraphKept DEF SavedFits
<1>11. SaveInv'
  <2>1. Labelled'
    BY <1>4, <1>5, <1>7, GraphKept DEF Labelled
  <2>2. GraphGiven'
    BY <1>2, <1>6, <1>7 DEF BuildInv, GraphGiven
  <2>3. ASSUME stage' = "save" PROVE file'.core = saved'.core
    <3>1. n = N
      BY <2>3
    <3>2. \A v \in Vertex : v < n
      BY <3>1, Vertices DEF Vertex
    <3>3. file'.core = [v \in Vertex |-> IF v < n THEN core_list[v] ELSE 0]
      OBVIOUS
    <3>4. file'.core = [v \in Vertex |-> core_list[v]]
      BY <3>2, <3>3
    <3> QED BY <1>2, <1>6, <3>4 DEF GraphOK
  <2> QED BY <1>1, <1>2, <1>6, <2>1, <2>2, <2>3 DEF SaveInv, BuildInv
<1>12. Layer' \subseteq DOMAIN saved'.entries
  BY <1>5, <1>6, <1>8, GraphKept
<1>13. stage' \in {"save", "cut"}
  OBVIOUS
<1> QED BY <1>1, <1>2, <1>5, <1>6, <1>9, <1>10, <1>11, <1>12, <1>13 DEF IndexInv, StageInv, Filed

LEMMA SavedIds ==
  ASSUME saved.graph \in Inputs PROVE saved.graph.ori \in Seq(Nat) /\ Len(saved.graph.ori) = N
BY PersistenceAssumption

LEMMA BytesType == ASSUME NEW u \in Vertex PROVE Bytes(u) \in Nat /\ Back(Bytes(u), u)
<1>1. u \in Nat /\ Width \in Nat /\ Width > 0
  BY Vertices, PersistenceAssumption
<1>2. u % Width \in Nat /\ u % Width < Width /\ (u < Width => u % Width = u)
  BY <1>1
<1> QED BY <1>1, <1>2 DEF Bytes, Back

(* Actions that leave the graph and what was saved.                        *)
LEMMA FitsKept ==
  ASSUME UNCHANGED graph, saved' = saved
  PROVE  (SavedFits' <=> SavedFits) /\ (GraphGiven' <=> GraphGiven)
BY DataKept, GraphKept DEF SavedFits, GraphGiven, graph

LEMMA FileKept == ASSUME UNCHANGED <<saved, file>> PROVE (FileInv' <=> FileInv)
BY DEF FileInv, Written, Began

LEMMA SaveVertexAction == ASSUME IndexInv, SaveVertex PROVE IndexInv'
<1> DEFINE v == Len(file.lists)
           size == Len(hier_adj[v])
<1> PICK n \in 0 .. size :
      /\ file' = [file EXCEPT !.lists = Append(@,
                    [id |-> v, ori |-> cnns_2_ori[v + 1], size |-> size,
                     links |-> [m \in 1 .. n |-> Bytes(hier_adj[v][m].id)]])]
      /\ stage' = IF n = size THEN "save" ELSE "cut"
  BY DEF SaveVertex
<1> DEFINE ids == [m \in 1 .. n |-> Bytes(hier_adj[v][m].id)]
           r == [id |-> v, ori |-> cnns_2_ori[v + 1], size |-> size, links |-> ids]
           lists == file.lists
           longer == Append(lists, r)
<1>1. /\ stage = "save" /\ v < N
      /\ UNCHANGED <<vars, cnns_2_ori, layer, sp_l_list, hier_adj, saved>>
  BY DEF SaveVertex, index
<1>2. /\ LabelInv /\ SizesOK /\ FileInv /\ SaveInv /\ SavedFits /\ saved.graph \in Inputs
      /\ Layer \subseteq DOMAIN saved.entries /\ file.core = saved.core
  BY <1>1 DEF IndexInv, StageInv, SaveInv, Filed
<1>3. LabelInv' /\ SizesOK' /\ UNCHANGED graph
  BY <1>1, <1>2, VarsKept
<1>4. v \in Vertex /\ v \in 0 .. N /\ v + 1 \in 0 .. N /\ v + 1 \in 1 .. N
  BY <1>1, <1>2, Vertices DEF FileInv, Vertex
<1>5. hier_adj = saved.links /\ cnns_2_ori = saved.graph.ori /\ hier_adj[v] \in Seq(Link)
  BY <1>2, <1>4 DEF SaveInv, FileInv
<1>6. size \in Nat /\ n \in Nat /\ n <= size
  BY <1>5
<1>7. \A m \in 1 .. n : Bytes(hier_adj[v][m].id) \in Nat
  <2>1. ASSUME NEW m \in 1 .. n PROVE hier_adj[v][m] \in Link
    BY <1>5, <1>6
  <2> QED BY <2>1, BytesType DEF Link
<1>8. ids \in Seq(Nat) /\ Len(ids) = n /\ \A m \in 1 .. n : ids[m] = Bytes(hier_adj[v][m].id)
  <2>1. ids \in [1 .. n -> Nat]
    BY <1>7
  <2> QED BY <1>6, <2>1
<1>9. r \in Record
  <2>1. cnns_2_ori[v + 1] \in Nat
    <3>1. cnns_2_ori \in Seq(Nat) /\ Len(cnns_2_ori) = N
      BY <1>2, <1>5, SavedIds
    <3> HIDE DEF v
    <3> QED BY <1>4, <3>1
  <2> HIDE DEF ids, v, size
  <2> QED BY <1>4, <1>6, <1>8, <2>1 DEF Record
<1>10. r.id = v /\ r.ori = saved.graph.ori[v + 1] /\ r.size = Len(saved.links[v]) /\ r.links = ids
  BY <1>5
<1>11. Began(r, v)
  <2>1. Len(r.links) <= r.size /\ \A m \in 1 .. Len(r.links) : r.links[m] = Bytes(saved.links[v][m].id)
    <3> HIDE DEF ids
    <3> QED BY <1>5, <1>6, <1>8, <1>10
  <2> HIDE DEF r
  <2> QED BY <1>10, <2>1 DEF Began
<1>12. file' = [entries |-> saved.entries, size |-> N, core |-> saved.core, lists |-> longer]
  <2>1. file = [entries |-> saved.entries, size |-> N, core |-> saved.core, lists |-> lists]
    BY <1>2 DEF FileInv
  <2>2. file' = [file EXCEPT !.lists = longer]
    OBVIOUS
  <2> HIDE DEF longer, lists
  <2> QED BY <2>1, <2>2
<1>13. lists \in Seq(Record) /\ v = Len(lists) /\ \A u \in Vertex : u < v => Began(lists[u + 1], u)
  BY <1>2 DEF FileInv, Written
<1> HIDE DEF r
<1>14. FileInv'
  <2>1. longer \in Seq(Record) /\ Len(longer) = v + 1
    BY <1>9, <1>13
  <2>2. ASSUME NEW u \in Vertex, u < v + 1 PROVE Began(longer[u + 1], u)
    <3>1. CASE u = v
      <4>1. longer[v + 1] = r
        BY <1>9, <1>13
      <4> QED BY <1>11, <3>1, <4>1
    <3>2. CASE u # v
      <4>1. u < v /\ u + 1 \in 1 .. Len(lists)
        BY <1>4, <1>13, <2>2, <3>2, Vertices
      <4>2. longer[u + 1] = lists[u + 1]
        BY <1>9, <1>13, <4>1
      <4> QED BY <1>13, <4>1, <4>2
    <3> QED BY <3>1, <3>2
  <2> HIDE DEF longer, lists, v
  <2>3. file'.lists = longer /\ file'.core = saved.core
    BY <1>12
  <2>4. saved' = saved
    BY <1>1
  <2>6. file' = [entries |-> saved'.entries, size |-> N, core |-> file'.core, lists |-> file'.lists]
    BY <1>12, <2>3, <2>4
  <2>7. /\ saved.links \in [Vertex -> Seq(Link)]
        /\ \A k \in DOMAIN saved.entries : \E m \in Nat : DOMAIN saved.entries[k] = 0 .. m - 1
        /\ saved.core \in [Vertex -> Nat]
    BY <1>2 DEF FileInv
  <2>8. /\ file'.core \in [Vertex -> Nat] /\ file'.core = saved'.core
        /\ \A u \in Vertex : file'.core[u] \in {saved'.core[u], 0}
    BY <2>3, <2>4, <2>7
  <2>9. ASSUME NEW u \in Vertex, u < Len(file'.lists) PROVE Written(u)'
    <3>1. Began(longer[u + 1], u)
      BY <2>1, <2>2, <2>3, <2>9
    <3> QED BY <2>3, <2>4, <3>1 DEF Written, Began
  <2>10. file'.lists \in Seq(Record) /\ Len(file'.lists) \in 0 .. N
    BY <1>4, <2>1, <2>3
  <2>11. /\ saved'.links \in [Vertex -> Seq(Link)]
         /\ \A k \in DOMAIN saved'.entries : \E m \in Nat : DOMAIN saved'.entries[k] = 0 .. m - 1
    BY <2>4, <2>7
  <2> QED BY <2>6, <2>8, <2>9, <2>10, <2>11 DEF FileInv
<1>15. SavedFits' /\ GraphGiven'
  BY <1>1, <1>2, <1>3, FitsKept DEF SaveInv
<1>16. SaveInv'
  <2>1. Labelled'
    BY <1>1, <1>2, <1>3, GraphKept DEF SaveInv, Labelled, vars
  <2>2. file'.core = saved'.core
    BY <1>1, <1>12
  <2> QED BY <1>1, <1>5, <1>15, <2>1, <2>2 DEF SaveInv
<1>17. Layer' \subseteq DOMAIN saved'.entries /\ stage' \in {"save", "cut"}
  BY <1>1, <1>2, <1>3, GraphKept
<1> QED BY <1>1, <1>3, <1>14, <1>15, <1>16, <1>17 DEF IndexInv, StageInv, Filed

(* Labels and sizes are as before in every step that leaves them.          *)
LEMMA GivenGraph ==
  ASSUME NEW g, g \in Inputs \/ g \in Foreign
  PROVE  /\ g.adj \in [Vertex -> SUBSET Vertex] /\ g.valid \subseteq Vertex /\ g.valid # {}
         /\ \A u, v \in Vertex : u \in g.adj[v] => v \in g.adj[u]
         /\ g.ori \in Seq(Nat)
BY ConnectiveAssumption, PersistenceAssumption

LEMMA InducedGraph ==
  ASSUME NEW g, g \in Inputs \/ g \in Foreign
  PROVE  /\ Induced(g) \in [Vertex -> SUBSET Vertex]
         /\ \A u, v \in Vertex : u \in Induced(g)[v] => v \in Induced(g)[u]
<1>1. \A v \in Vertex : Induced(g)[v] = IF v \in g.valid THEN g.adj[v] \cap g.valid ELSE {}
  BY DEF Induced
<1>2. Induced(g) \in [Vertex -> SUBSET Vertex]
  BY <1>1, GivenGraph DEF Induced
<1> QED BY <1>1, <1>2, GivenGraph

(* The greatest coreness, for the coreness that the loader reads.          *)
TopCore == MaxCore \in Nat /\ \E v \in Vertex : core_list[v] = MaxCore

LEMMA Top == GraphOK => TopCore
BY Layers DEF TopCore

LEMMA LoadAction ==
  ASSUME IndexInv, NEW g \in {saved.graph} \cup Foreign, Load(g) PROVE IndexInv'
<1>1. stage \in {"save", "cut"} /\ UNCHANGED <<file, saved>>
  BY DEF Load
<1>2. /\ LabelInv /\ SizesOK /\ GraphOK /\ FileInv /\ SaveInv /\ SavedFits
      /\ saved.graph \in Inputs /\ Layer \subseteq DOMAIN saved.entries
  BY <1>1 DEF IndexInv, StageInv, LabelInv, SaveInv, Filed
<1>3. CASE Len(g.ori) # file.size
  <2>1. stage' = "refused" /\ UNCHANGED <<vars, cnns_2_ori>>
    BY <1>3 DEF Load
  <2>2. LabelInv' /\ SizesOK' /\ UNCHANGED graph
    BY <1>2, <2>1, VarsKept
  <2> QED BY <1>1, <2>1, <2>2 DEF IndexInv, StageInv, Filed
<1>4. CASE Len(g.ori) = file.size
  <2>1. /\ stage' = "relabel" /\ cur_graph_ori_adj' = Induced(g) /\ valid_nodes' = g.valid
        /\ cnns_2_ori' = g.ori /\ core_list' = file.core
        /\ i' = 0 /\ at' = at
        /\ vis' = [k \in Layer' |-> {}] /\ heap' = [k \in Layer' |-> {}]
        /\ j' = [k \in Layer' |-> 0] /\ cnt' = [k \in Layer' |-> 0]
        /\ splist_num' = [k \in Layer' |-> 0] /\ node_num_per_compo' = <<>>
        /\ compo_l' = Labels(file.core, g.valid)
        /\ hier_adj' = [v \in Vertex |-> <<>>] /\ layer' = 0
    BY <1>4 DEF Load
  <2>2. file.core \in [Vertex -> Nat] /\ file.size = N
    BY <1>2 DEF FileInv
  <2>3. g \in Inputs \/ g \in Foreign
    BY <1>2
  <2>4. GraphOK'
    BY <2>1, <2>2, <2>3, GivenGraph, InducedGraph DEF GraphOK
  <2>5. at = [t \in Thread |-> NoLayer]
    <3>1. \A t \in Thread : at[t] = NoLayer
      BY <1>2 DEF SaveInv, Labelled
    <3> QED BY <1>2, <3>1 DEF LabelInv, ThreadsOK
  <2>6. Start'
    <3>1. compo_l' = Labels(core_list', valid_nodes')
      BY <2>1
    <3> QED BY <2>1, <2>5, <3>1 DEF Start
  <2>7. LabelInv'
    BY <2>4, <2>6, StartInv, PTL
  <2>8. SizesOK'
    BY <2>1 DEF SizesOK, Counted
  <2>9. FileInv'
    BY <1>1, <1>2, FileKept
  <2>10. ASSUME GraphGiven' PROVE SavedFits'
    <3>1. UNCHANGED graph
      <4>1. core_list' = core_list /\ cur_graph_ori_adj' = cur_graph_ori_adj /\ valid_nodes' = valid_nodes
        BY <1>1, <1>2, <2>10 DEF SaveInv, GraphGiven
      <4> QED BY <4>1 DEF graph
    <3> QED BY <1>1, <1>2, <3>1, FitsKept
  <2>11. Layer' \subseteq DOMAIN saved'.entries
    <3>1. MaxCore \in Nat /\ \A v \in Vertex : core_list[v] <= MaxCore /\ core_list[v] \in Nat
      BY <1>2, Layers DEF GraphOK
    <3>2. MaxCore' \in Nat /\ \E v \in Vertex : core_list'[v] = MaxCore'
      <4>1. TopCore'
        BY <2>4, Top, PTL
      <4> QED BY <4>1 DEF TopCore
    <3>3. \A v \in Vertex : core_list'[v] \in {core_list[v], 0}
      BY <1>2, <2>1 DEF FileInv, SaveInv, GraphGiven
    <3>4. MaxCore' <= MaxCore
      BY <3>1, <3>2, <3>3
    <3>5. 0 .. MaxCore' \subseteq 0 .. MaxCore
      BY <3>1, <3>2, <3>4
    <3> QED BY <1>1, <1>2, <3>5 DEF Layer
  <2>12. RelabelInv'
    BY <2>1 DEF RelabelInv
  <2>13. cnns_2_ori' \in Seq(Nat) /\ Len(cnns_2_ori') = N
    BY <1>4, <2>1, <2>2, <2>3, GivenGraph
  <2>14. core_list' = file'.core
    BY <1>1, <2>1
  <2> QED BY <1>1, <1>2, <2>1, <2>7, <2>8, <2>9, <2>10, <2>11, <2>12, <2>13, <2>14
          DEF IndexInv, StageInv, Filed
<1> QED BY <1>3, <1>4

LEMMA RelabelAction == ASSUME IndexInv, Relabel PROVE IndexInv'
<1> PICK t \in Thread : Step(t)
  BY DEF Relabel
<1>1. stage = "relabel" /\ UNCHANGED <<stage, cnns_2_ori, layer, sp_l_list, hier_adj, file, saved>>
  BY DEF Relabel, index
<1>2. /\ LabelInv /\ SizesOK /\ FileInv /\ (GraphGiven => SavedFits) /\ RelabelInv
      /\ Layer \subseteq DOMAIN saved.entries /\ core_list = file.core
  BY <1>1 DEF IndexInv, StageInv, Filed
<1>3. UNCHANGED graph /\ node_num_per_compo' = node_num_per_compo
  BY DEF Step, Claim, PassOver, Found, Grow, Finish
<1>4. LabelInv'
  BY <1>2, LabelStep
<1>5. RelabelInv' /\ ~Counted'
  BY <1>1, <1>2, <1>3 DEF RelabelInv, Counted
<1>6. FileInv' /\ (GraphGiven' => SavedFits')
  BY <1>1, <1>2, <1>3, FileKept, FitsKept
<1>7. Layer' \subseteq DOMAIN saved'.entries /\ core_list' = file'.core
  BY <1>1, <1>2, <1>3, GraphKept DEF graph
<1> QED BY <1>1, <1>2, <1>4, <1>5, <1>6, <1>7 DEF IndexInv, StageInv, SizesOK, Filed

LEMMA RecountAction == ASSUME IndexInv, Recount PROVE IndexInv'
<1>1. /\ stage = "relabel" /\ Labelled
      /\ UNCHANGED <<graph, i, at, vis, heap, j, cnt, splist_num, compo_l,
                     cnns_2_ori, layer, hier_adj, file, saved>>
  BY DEF Recount
<1>2. /\ LabelInv /\ FileInv /\ (GraphGiven => SavedFits) /\ RelabelInv /\ GraphOK
      /\ Layer \subseteq DOMAIN saved.entries /\ core_list = file.core
  BY <1>1 DEF IndexInv, StageInv, LabelInv, Filed
<1>3. LabelInv' /\ UNCHANGED graph
  BY <1>1, <1>2, LabelKept
<1>4. FileInv' /\ (SavedFits' <=> SavedFits) /\ (GraphGiven' <=> GraphGiven)
  BY <1>1, <1>2, FileKept, FitsKept
<1>5. Labelled' /\ Layer' = Layer /\ core_list' = file'.core
  BY <1>1, <1>2, <1>3, GraphKept DEF Labelled, graph
<1>6. CASE ~ \A k \in Layer : splist_num[k] <= Cardinality(DOMAIN file.entries[k])
  <2>1. stage' = "undefined" /\ node_num_per_compo' = node_num_per_compo
    BY <1>6 DEF Recount
  <2>2. ~Counted'
    BY <1>2, <2>1 DEF RelabelInv, Counted
  <2> QED BY <1>1, <1>3, <2>1, <2>2 DEF IndexInv, StageInv, SizesOK, Filed
<1>7. CASE \A k \in Layer : splist_num[k] <= Cardinality(DOMAIN file.entries[k])
  <2>1. /\ stage' = "read" /\ sp_l_list' = file.entries
        /\ node_num_per_compo' =
             [k \in Layer |-> [c \in DOMAIN file.entries[k] |->
                Cardinality({v \in valid_nodes : InComponent(v, k, c)})]]
    BY <1>7 DEF Recount
  <2>2. SizesOK'
    <3>1. ASSUME NEW k \in Layer PROVE 0 .. splist_num[k] - 1 \subseteq DOMAIN node_num_per_compo'[k]
      <4>1. DOMAIN node_num_per_compo'[k] = DOMAIN file.entries[k]
        BY <2>1
      <4>2. PICK m \in Nat : DOMAIN file.entries[k] = 0 .. m - 1
        <5>1. file.entries = saved.entries /\ k \in DOMAIN saved.entries
          BY <1>2 DEF FileInv
        <5> QED BY <1>2, <5>1 DEF FileInv
      <4>3. Cardinality(0 .. m - 1) = m
        BY FS_Interval
      <4>4. splist_num[k] <= m /\ splist_num[k] \in 0 .. N
        BY <1>2, <1>7, <4>2, <4>3 DEF LabelInv, ArraysOK
      <4> QED BY <4>1, <4>2, <4>4, Vertices
    <3> QED BY <1>1, <1>5, <3>1 DEF SizesOK
  <2>3. ASSUME GraphGiven PROVE node_num_per_compo' = SizesOf(compo_l)
    <3>1. \A k \in Layer : DOMAIN file.entries[k] = Components(k)
      BY <1>2, <2>3 DEF SavedFits, EntriesRight, FileInv
    <3>2. \A k, c : {v \in valid_nodes : InComponent(v, k, c)}
                      = {v \in Vertex : InLayer(v, k) /\ compo_l[v][k] = c}
      BY <1>2 DEF InComponent, InLayer, GraphOK
    <3> QED BY <2>1, <3>1, <3>2 DEF SizesOf
  <2>4. ReadInv'
    <3>1. layer' = 0 /\ 0 \in 0 .. N
      BY <1>1, <1>2, Vertices DEF RelabelInv
    <3>2. hier_adj' \in [Vertex -> Seq(Link)]
      BY <1>1, <1>2 DEF RelabelInv
    <3>3. \A v \in Vertex : hier_adj'[v] = <<>> /\ ~(v < layer')
      BY <1>1, <1>2, <3>1, Vertices DEF RelabelInv
    <3>4. GraphGiven' => node_num_per_compo' = SizesOf(compo_l)'
      BY <1>1, <1>3, <1>4, <2>3, DataKept
    <3> QED BY <1>1, <1>5, <2>1, <3>1, <3>2, <3>3, <3>4 DEF ReadInv
  <2> QED BY <1>1, <1>2, <1>3, <1>4, <1>5, <2>1, <2>2, <2>4 DEF IndexInv, StageInv, Filed
<1> QED BY <1>6, <1>7

(* What is read gives vertices and links of the graph, or is not taken.    *)
LEMMA LinksType ==
  ASSUME FileInv, NEW n \in 1 .. N, NEW r \in Read(n), NEW e, Outcome(r, e) = "read"
  PROVE  /\ r.id \in Vertex /\ r.ori = cnns_2_ori[r.id + 1]
         /\ r.size \in Nat /\ Links(r, e) \in Seq(Vertex) /\ Len(Links(r, e)) = r.size
         /\ \A m \in 1 .. r.size : m <= Len(r.links) => Links(r, e)[m] = r.links[m]
<1>1. r.id \in Vertex /\ SameGraph(r) /\ r.size >= 0 /\ Range(Links(r, e)) \subseteq Vertex
  BY DEF Outcome
<1>2. r.size \in Int
  <2>1. CASE n <= Len(file.lists)
    <3>1. r = file.lists[n] /\ n \in 1 .. Len(file.lists) /\ file.lists \in Seq(Record)
      BY <2>1 DEF Read, FileInv
    <3>2. r \in Record
      BY <3>1
    <3> QED BY <3>2 DEF Record
  <2>2. CASE ~(n <= Len(file.lists))
    <3>1. CASE \E q \in Last : r = Header(q)
      <4>1. PICK q \in Last : r = Header(q)
        BY <3>1
      <4>2. file.lists \in Seq(Record) /\ file.lists # <<>> /\ q = file.lists[Len(file.lists)]
        BY <4>1 DEF Last, FileInv
      <4>3. Len(file.lists) \in 1 .. Len(file.lists)
        BY <4>2
      <4>4. q \in Record
        BY <4>2, <4>3
      <4> QED BY <4>1, <4>4 DEF Header, Record
    <3>2. CASE \E q \in Leftover : r = Header(q)
      <4>1. PICK q \in Leftover : r = Header(q)
        BY <3>2
      <4>2. q \in [id : Int, ori : Int, size : Int, nei : 0 .. Width - 1]
        BY <4>1, PersistenceAssumption
      <4> QED BY <4>1, <4>2 DEF Header
    <3> QED BY <2>2, <3>1, <3>2 DEF Read
  <2> QED BY <2>1, <2>2
<1>3. r.size \in Nat
  BY <1>1, <1>2
<1> DEFINE l == Links(r, e)
<1>4. l = [m \in 1 .. r.size |-> IF m <= Len(r.links) THEN r.links[m] ELSE e]
  BY DEF Links
<1>5. DOMAIN l = 1 .. r.size /\ \A m \in 1 .. r.size : m <= Len(r.links) => l[m] = r.links[m]
  BY <1>4
<1>6. \A m \in 1 .. r.size : l[m] \in Vertex
  BY <1>1, <1>5 DEF Range
<1>7. l \in [1 .. r.size -> Vertex]
  <2>1. l = [m \in 1 .. r.size |-> l[m]]
    BY <1>4
  <2> HIDE DEF l
  <2> QED BY <1>6, <2>1
<1>8. l \in Seq(Vertex) /\ Len(l) = r.size
  <2> HIDE DEF l
  <2> QED BY <1>3, <1>7
<1> QED BY <1>1, <1>3, <1>5, <1>8 DEF SameGraph

LEMMA TagKept ==
  ASSUME UNCHANGED graph, compo_l' = compo_l
  PROVE  \A u, v : TagBy(compo_l, u, v)' = TagBy(compo_l, u, v)
BY DataKept DEF TagBy, InLayer, graph

LEMMA LoadVertexAction == ASSUME IndexInv, LoadVertex PROVE IndexInv'
<1> PICK r \in Read(layer + 1), e \in Buffer :
      /\ stage' = Outcome(r, e)
      /\ IF stage' = "read"
         THEN /\ hier_adj' = [hier_adj EXCEPT ![r.id] = @ \o Tagged(r.id, Links(r, e))]
              /\ layer' = layer + 1
         ELSE UNCHANGED <<layer, hier_adj>>
  BY DEF LoadVertex
<1>1. /\ stage = "read" /\ layer < N /\ UNCHANGED <<vars, cnns_2_ori, sp_l_list, file, saved>>
  BY DEF LoadVertex
<1>2. /\ LabelInv /\ SizesOK /\ GraphOK /\ FileInv /\ (GraphGiven => SavedFits) /\ ReadInv
      /\ Layer \subseteq DOMAIN saved.entries /\ core_list = file.core
  BY <1>1 DEF IndexInv, StageInv, LabelInv, Filed
<1>3. LabelInv' /\ SizesOK' /\ UNCHANGED graph
  BY <1>1, <1>2, VarsKept
<1>4. FileInv' /\ (SavedFits' <=> SavedFits) /\ (GraphGiven' <=> GraphGiven)
  BY <1>1, <1>2, <1>3, FileKept, FitsKept
<1>5. Layer' \subseteq DOMAIN saved'.entries /\ core_list' = file'.core
  BY <1>1, <1>2, <1>3, GraphKept DEF graph
<1>6. CASE stage' # "read"
  <2>1. stage' \in {"refused", "undefined"}
    BY <1>6 DEF Outcome
  <2> QED BY <1>1, <1>3, <2>1 DEF IndexInv, StageInv, Filed
<1>7. CASE stage' = "read"
  <2> DEFINE p == r.id
             added == Tagged(p, Links(r, e))
             ended == Len(file.lists)
  <2>1. layer \in Nat /\ layer' = layer + 1 /\ layer + 1 \in 1 .. N /\ ended \in Nat /\ ended <= N
    BY <1>1, <1>2, <1>7, Vertices DEF ReadInv, FileInv
  <2>2. /\ p \in Vertex /\ r.ori = cnns_2_ori[p + 1] /\ r.size \in Nat
        /\ Links(r, e) \in Seq(Vertex) /\ Len(Links(r, e)) = r.size
        /\ \A m \in 1 .. r.size : m <= Len(r.links) => Links(r, e)[m] = r.links[m]
    <3>1. Outcome(r, e) = "read"
      BY <1>7
    <3> QED BY <1>2, <2>1, <3>1, LinksType
  <2>3. /\ added \in Seq(Link) /\ Len(added) = r.size
        /\ \A m \in 1 .. r.size : /\ added[m].id = Links(r, e)[m]
                                  /\ added[m].tag = TagBy(compo_l, Links(r, e)[m], p)
    <3>1. DOMAIN Links(r, e) = 1 .. r.size
      BY <2>2
    <3> QED BY <1>2, <2>2, <3>1, TaggedType
  <2>4. hier_adj' = [hier_adj EXCEPT ![p] = hier_adj[p] \o added]
    BY <1>7
  <2> HIDE DEF added
  <2>5. /\ hier_adj' \in [Vertex -> Seq(Link)]
        /\ \A v \in Vertex : hier_adj'[v] = IF v = p THEN hier_adj[p] \o added ELSE hier_adj[v]
    <3>1. hier_adj[p] \o added \in Seq(Link) /\ hier_adj \in [Vertex -> Seq(Link)]
      BY <1>2, <2>2, <2>3 DEF ReadInv
    <3> QED BY <2>2, <2>4, <3>1
  <2>6. ASSUME layer < ended PROVE r = file.lists[layer + 1] /\ p = layer /\ Began(r, layer)
    <3>1. layer \in Vertex
      BY <2>1, <1>1, Vertices DEF Vertex
    <3>2. r = file.lists[layer + 1]
      BY <2>1, <2>6 DEF Read
    <3>3. Began(file.lists[layer + 1], layer)
      BY <1>2, <2>6, <3>1 DEF FileInv, Written
    <3> QED BY <3>2, <3>3 DEF Began
  <2>7. \A u, v : TagBy(compo_l, u, v)' = TagBy(compo_l, u, v)
    BY <1>1, <1>3, TagKept DEF vars
  <2>8. file' = file /\ saved' = saved /\ cnns_2_ori' = cnns_2_ori
    BY <1>1
  <2>9. ASSUME NEW v \in Vertex, v >= layer', layer' <= ended PROVE hier_adj'[v] = <<>>
    <3>1. v # p /\ v >= layer /\ layer <= ended
      BY <2>1, <2>6, <2>9, Vertices
    <3> QED BY <1>2, <2>5, <3>1 DEF ReadInv
  <2>10. ASSUME NEW v \in Vertex, v < layer', v < ended
         PROVE  Kept(v)'
    <3> DEFINE q == file.lists[v + 1]
               h == hier_adj[v]
    <3>1. Began(q, v) /\ h \in Seq(Link) /\ v \in Nat
      BY <1>2, <2>10, Vertices DEF FileInv, Written, ReadInv
    <3>2. q.size \in Nat /\ Len(q.links) \in Nat /\ Len(q.links) <= q.size
      <4>1. v + 1 \in 1 .. Len(file.lists) /\ file.lists \in Seq(Record)
        BY <1>2, <2>1, <2>10, <3>1 DEF FileInv
      <4>2. q \in Record
        BY <4>1
      <4> HIDE DEF q
      <4> QED BY <3>1, <4>2 DEF Record, Began
    <3>3. CASE v = layer
      <4>1. r = q /\ p = v /\ r.ori = saved.graph.ori[v + 1]
        BY <2>6, <2>10, <3>3 DEF Began
      <4>2. h = <<>>
        BY <1>2, <2>1, <2>10, <3>3 DEF ReadInv
      <4>3. hier_adj'[v] = added
        <5>1. \A s \in Seq(Link) : <<>> \o s = s
          OBVIOUS
        <5> QED BY <2>3, <2>5, <4>1, <4>2, <5>1
      <4>4. /\ Len(added) = q.size
            /\ \A m \in 1 .. Len(q.links) :
                 added[m].id = q.links[m] /\ added[m].tag = TagBy(compo_l, q.links[m], v)
        <5> HIDE DEF q
        <5>1. ASSUME NEW m \in 1 .. Len(q.links) PROVE m \in 1 .. r.size /\ m <= Len(r.links)
          BY <3>2, <4>1
        <5> QED BY <2>2, <2>3, <4>1, <5>1
      <4> HIDE DEF q
      <4>5. file'.lists[v + 1] = q
        BY <2>8 DEF q
      <4>6. Len(added) >= q.size
        BY <3>2, <4>4
      <4>7. cnns_2_ori[v + 1] = saved.graph.ori[v + 1]
        BY <2>2, <4>1
      <4> QED BY <2>7, <2>8, <4>3, <4>4, <4>5, <4>6, <4>7 DEF Kept, Begins
    <3>4. CASE v # layer
      <4>1. v < layer
        BY <2>1, <2>10, <3>1, <3>4
      <4>2. cnns_2_ori[v + 1] = saved.graph.ori[v + 1] /\ Begins(h, q, v)
        BY <1>2, <2>10, <4>1 DEF ReadInv, Kept
      <4>3. CASE v # p
        <5>1. hier_adj'[v] = h
          BY <2>5, <4>3
        <5>2. layer' <= ended => layer <= ended
          BY <2>1
        <5>3. q = file'.lists[v + 1]
          BY <2>8
        <5> HIDE DEF h, q
        <5> QED BY <2>7, <2>8, <4>2, <5>1, <5>2, <5>3 DEF Kept, Begins
      <4>4. CASE v = p
        <5>1. ~(layer < ended) /\ ~(layer' <= ended)
          BY <2>1, <2>6, <3>4, <4>4
        <5>2. hier_adj'[v] = h \o added
          BY <2>5, <4>4
        <5> DEFINE w == h \o added
        <5>3. Len(w) >= Len(h) /\ Len(h) \in Nat /\ \A m \in 1 .. Len(h) : w[m] = h[m]
          <6>1. h \in Seq(Link) /\ added \in Seq(Link)
            BY <2>3, <3>1
          <6> HIDE DEF h
          <6> QED BY <6>1
        <5> HIDE DEF w, h, q
        <5>4. Len(h) >= q.size /\ \A m \in 1 .. Len(q.links) :
                h[m].id = q.links[m] /\ h[m].tag = TagBy(compo_l, q.links[m], v)
          BY <4>2 DEF Begins
        <5>5. Len(w) >= q.size
          <6>1. Len(w) \in Nat
            <7>1. h \in Seq(Link) /\ added \in Seq(Link)
              BY <2>3, <3>1
            <7> QED BY <7>1 DEF w
          <6> QED BY <3>2, <5>3, <5>4, <6>1
        <5>6. \A m \in 1 .. Len(q.links) :
                w[m].id = q.links[m] /\ w[m].tag = TagBy(compo_l, q.links[m], v)
          <6>1. ASSUME NEW m \in 1 .. Len(q.links) PROVE m \in 1 .. Len(h)
            BY <3>2, <5>3, <5>4
          <6> QED BY <5>3, <5>4, <6>1
        <5>7. hier_adj'[v] = w
          BY <5>2 DEF w
        <5>8. file'.lists[v + 1] = q
          BY <2>8 DEF q
        <5> QED BY <2>7, <2>8, <4>2, <5>1, <5>5, <5>6, <5>7, <5>8 DEF Kept, Begins
      <4> QED BY <4>3, <4>4
    <3> QED BY <3>3, <3>4
  <2>11. ReadInv'
    <3>1. layer' \in 0 .. N
      BY <2>1
    <3>2. Labelled' /\ sp_l_list' = file'.entries
      BY <1>1, <1>2, <1>3, GraphKept DEF Labelled, ReadInv, vars
    <3>3. GraphGiven' => node_num_per_compo' = SizesOf(compo_l)'
      BY <1>1, <1>2, <1>3, <1>4, DataKept DEF ReadInv, vars
    <3> QED BY <2>5, <2>8, <2>9, <2>10, <3>1, <3>2, <3>3 DEF ReadInv
  <2> QED BY <1>1, <1>2, <1>3, <1>4, <1>5, <1>7, <2>11 DEF IndexInv, StageInv, Filed
<1> QED BY <1>6, <1>7

LEMMA IndexStart == IndexInit => IndexInv
<1> SUFFICES ASSUME IndexInit PROVE IndexInv
  OBVIOUS
<1>1. LabelInv /\ SizesOK
  BY InitLabel DEF IndexInit, Init, SizesOK, Counted
<1>2. PICK g \in Inputs :
        /\ cur_graph_ori_adj = Induced(g) /\ valid_nodes = g.valid
        /\ cnns_2_ori = g.ori /\ saved = [graph |-> g]
  BY DEF IndexInit
<1>3. saved.graph = g /\ g.ori \in Seq(Nat) /\ Len(g.ori) = N
  BY <1>2, PersistenceAssumption
<1>4. /\ layer = -1 /\ hier_adj = [v \in Vertex |-> <<>>] /\ stage = "label" /\ ~Counted
  BY DEF IndexInit, Init, Counted
<1>5. layer \in -1 .. layer_num /\ \A k \in Layer : ~(k < layer)
  BY <1>1, <1>4, Layers DEF LabelInv
<1>6. hier_adj \in [Vertex -> Seq(Link)] /\ TagsRight(compo_l, hier_adj)
  BY <1>4 DEF TagsRight
<1>7. BuildInv
  BY <1>2, <1>3, <1>4, <1>5, <1>6 DEF BuildInv
<1> QED BY <1>1, <1>2, <1>3, <1>4, <1>7 DEF IndexInv, StageInv, Filed

LEMMA IndexStep == ASSUME IndexInv, [IndexNext]_indexVars PROVE IndexInv'
<1>1. CASE UNCHANGED indexVars
  <2>1. UNCHANGED <<vars, stage, cnns_2_ori, layer, sp_l_list, hier_adj, file, saved>>
    BY <1>1 DEF indexVars, index
  <2>2. LabelInv' /\ SizesOK' /\ UNCHANGED graph
    BY <2>1, VarsKept DEF IndexInv
  <2>3. /\ compo_l' = compo_l /\ node_num_per_compo' = node_num_per_compo /\ i' = i /\ at' = at
        /\ cur_graph_ori_adj' = cur_graph_ori_adj /\ valid_nodes' = valid_nodes
        /\ core_list' = core_list
    BY <2>1 DEF vars, graph
  <2>4. (Labelled' <=> Labelled) /\ (Counted' <=> Counted) /\ Layer' = Layer /\ layer_num' = layer_num
    BY <2>2, <2>3, GraphKept DEF Labelled, Counted
  <2>5. (FileInv' <=> FileInv) /\ (SavedFits' <=> SavedFits) /\ (GraphGiven' <=> GraphGiven)
    BY <2>1, <2>2, FileKept, FitsKept
  <2>6. BuildInv => BuildInv'
    BY <2>1, <2>2, <2>3, <2>4, DataKept DEF BuildInv
  <2>7. (SaveInv => SaveInv') /\ (RelabelInv => RelabelInv')
    BY <2>1, <2>3, <2>4, <2>5 DEF SaveInv, RelabelInv
  <2>8. ReadInv => ReadInv'
    <3>1. \A u, v : TagBy(compo_l, u, v)' = TagBy(compo_l, u, v)
      BY <2>2, <2>3, TagKept
    <3>2. \A v : Kept(v)' <=> Kept(v)
      BY <2>1, <3>1 DEF Kept, Begins
    <3> QED BY <2>1, <2>2, <2>3, <2>4, <2>5, <3>2, DataKept DEF ReadInv
  <2> QED BY <2>1, <2>2, <2>3, <2>4, <2>5, <2>6, <2>7, <2>8 DEF IndexInv, StageInv, Filed
<1>2. CASE IndexNext /\ ~Ended
  BY <1>2, LabelAction, BuildFirstAction, BuildLayerAction, BuildFailsAction, SaveAction, SaveVertexAction,
     LoadAction, RelabelAction, RecountAction, LoadVertexAction DEF IndexNext
<1> QED BY <1>1, <1>2 DEF Ended

LEMMA IndexInvariant == IndexSpec => []IndexInv
BY IndexStart, IndexStep, PTL DEF IndexSpec

(* Over the whole life of an index: the labels have the right types and    *)
(* every component has a size, in the build as in the load.                *)
THEOREM IndexTypes == IndexSpec => []TypeOK
<1>1. IndexInv => TypeOK
  BY TypeHolds DEF IndexInv
<1> QED BY <1>1, IndexInvariant, PTL

(* The components of every layer are nested in those below it.             *)
THEOREM IndexNested == IndexSpec => []Nested
<1>1. IndexInv => Nested
  BY NestedHolds DEF IndexInv
<1> QED BY <1>1, IndexInvariant, PTL

(* Whatever the threads do, a component's number is how many start before. *)
THEOREM IndexNumbered == IndexSpec => []NumberedByFirst
<1>1. IndexInv => NumberedByFirst
  BY NumbersHold DEF IndexInv
<1> QED BY <1>1, IndexInvariant, PTL

(* When the loader returns, and over the graph that was indexed.           *)
LEMMA LoadedFits ==
  ASSUME IndexInv, Loaded
  PROVE  /\ GraphOK /\ FileInv /\ ReadInv /\ Labelled /\ core_list = file.core
         /\ GraphGiven => SavedFits /\ compo_l = saved.compo
<1>1. /\ LabelInv /\ GraphOK /\ FileInv /\ ReadInv /\ (GraphGiven => SavedFits) /\ Labelled
      /\ core_list = file.core
  BY DEF IndexInv, StageInv, LabelInv, Loaded, Filed, ReadInv
<1>2. ASSUME GraphGiven PROVE compo_l = saved.compo
  <2>1. Known(compo_l) /\ Known(saved.compo)
    BY <1>1, <1>2, KnownWhenDone DEF SavedFits
  <2> QED BY <1>1, <2>1, OneKnown
<1> QED BY <1>1, <1>2

(* A list that was read begins with what reached the file.                 *)
LEMMA LoadedLists ==
  ASSUME IndexInv, Loaded, NEW v \in Vertex, v < Len(file.lists)
  PROVE  /\ cnns_2_ori[v + 1] = saved.graph.ori[v + 1]
         /\ Len(hier_adj[v]) >= Len(saved.links[v])
         /\ Len(file.lists) = N => Len(hier_adj[v]) = Len(saved.links[v])
         /\ \A n \in 1 .. Len(file.lists[v + 1].links) :
              /\ hier_adj[v][n] \in Link /\ saved.links[v][n] \in Link
              /\ Back(hier_adj[v][n].id, saved.links[v][n].id)
              /\ hier_adj[v][n].tag = TagBy(compo_l, hier_adj[v][n].id, v)
<1> DEFINE r == file.lists[v + 1]
           h == hier_adj[v]
           s == saved.links[v]
<1>1. FileInv /\ ReadInv /\ layer = N /\ v < layer /\ layer <= N
  BY LoadedFits, Vertices DEF Loaded, Vertex
<1>2. Began(r, v) /\ Begins(h, r, v) /\ cnns_2_ori[v + 1] = saved.graph.ori[v + 1]
  BY <1>1 DEF FileInv, Written, ReadInv, Kept
<1>3. h \in Seq(Link) /\ s \in Seq(Link) /\ r.size = Len(s)
  BY <1>1, <1>2 DEF FileInv, ReadInv, Began
<1>4. r.links \in Seq(Nat)
  <2>1. v + 1 \in 1 .. Len(file.lists) /\ file.lists \in Seq(Record)
    BY <1>1, Vertices DEF FileInv
  <2>2. r \in Record
    BY <2>1
  <2> HIDE DEF r
  <2> QED BY <2>2 DEF Record
<1> HIDE DEF r, h, s
<1>5. Len(r.links) \in Nat /\ Len(r.links) <= Len(s) /\ Len(s) \in Nat /\ Len(h) \in Nat /\ Len(s) <= Len(h)
  BY <1>2, <1>3, <1>4 DEF Began, Begins
<1>6. ASSUME NEW n \in 1 .. Len(r.links)
      PROVE  /\ h[n] \in Link /\ s[n] \in Link /\ Back(h[n].id, s[n].id)
             /\ h[n].tag = TagBy(compo_l, h[n].id, v)
  <2>1. n \in 1 .. Len(s) /\ n \in 1 .. Len(h)
    BY <1>5
  <2>2. h[n] \in Link /\ s[n] \in Link
    BY <1>3, <2>1
  <2>3. r.links[n] = Bytes(s[n].id)
    BY <1>2 DEF Began, s
  <2>4. h[n].id = r.links[n] /\ h[n].tag = TagBy(compo_l, r.links[n], v)
    BY <1>2 DEF Begins
  <2>5. s[n].id \in Vertex
    BY <2>2 DEF Link
  <2> QED BY <2>2, <2>3, <2>4, <2>5, BytesType
<1>7. Len(file.lists) = N => Len(h) = Len(s)
  BY <1>1, <1>2, <1>3 DEF Begins
<1> QED BY <1>2, <1>5, <1>6, <1>7 DEF r, h, s

(* What the loader returns with is what was saved, as far as it reached    *)
(* the file: for every graph, part, choice of links and number of threads, *)
(* every graph that is given to the loader, every end of the file behind   *)
(* the sizes, and everything that its locals may hold there.               *)
THEOREM RoundTripHolds == IndexSpec => []RoundTrip
<1>1. ASSUME IndexInv PROVE RoundTrip
  <2> SUFFICES ASSUME Loaded PROVE RoundTrip
    BY DEF RoundTrip
  <2>1. /\ FileInv /\ ReadInv /\ core_list = file.core
        /\ GraphGiven => SavedFits /\ compo_l = saved.compo
    BY <1>1, LoadedFits
  <2>2. sp_l_list = saved.entries /\ (Entire \/ file.lists # <<>> => core_list = saved.core)
    BY <2>1 DEF FileInv, ReadInv, Entire
  <2>3. GraphGiven => compo_l = saved.compo /\ node_num_per_compo = saved.sizes
    BY <2>1 DEF ReadInv, SavedFits
  <2>4. ASSUME NEW v \in Vertex, v < Len(file.lists), NEW n \in 1 .. Len(file.lists[v + 1].links),
               GraphGiven, Straight, saved.links[v][n].id < Width
        PROVE  hier_adj[v][n] = saved.links[v][n]
    <3> DEFINE x == hier_adj[v][n]
               y == saved.links[v][n]
    <3>1. x \in Link /\ y \in Link /\ Back(x.id, y.id) /\ x.tag = TagBy(compo_l, x.id, v)
      BY <1>1, <2>4, LoadedLists
    <3>2. y.tag = TagBy(compo_l, y.id, v)
      <4>1. TagsRight(compo_l, saved.links)
        BY <2>1, <2>4 DEF SavedFits
      <4>2. n \in DOMAIN saved.links[v]
        <5>1. /\ saved.links[v] \in Seq(Link) /\ Began(file.lists[v + 1], v)
              /\ file.lists \in Seq(Record) /\ v + 1 \in 1 .. Len(file.lists)
          BY <2>1, <2>4, Vertices DEF FileInv, Written
        <5>2. file.lists[v + 1] \in Record
          BY <5>1
        <5>3. file.lists[v + 1].links \in Seq(Nat)
          BY <5>2 DEF Record
        <5>4. Len(file.lists[v + 1].links) <= Len(saved.links[v])
          BY <5>1 DEF Began
        <5> QED BY <5>1, <5>3, <5>4
      <4> QED BY <4>1, <4>2 DEF TagsRight
    <3> HIDE DEF x, y
    <3>3. x.id = y.id
      <4>1. y.id < Width /\ y.id \in Nat /\ Width \in Nat
        BY <2>4, <3>1, Vertices, PersistenceAssumption DEF y, Link
      <4> QED BY <3>1, <4>1 DEF Back
    <3>4. x = y
      BY <3>1, <3>2, <3>3 DEF Link
    <3> QED BY <3>4 DEF x, y
  <2>5. ASSUME NEW v \in Vertex, v < Len(file.lists)
        PROVE  /\ cnns_2_ori[v + 1] = saved.graph.ori[v + 1]
               /\ Len(hier_adj[v]) >= Len(saved.links[v])
               /\ Entire => Len(hier_adj[v]) = Len(saved.links[v])
               /\ \A n \in 1 .. Len(file.lists[v + 1].links) :
                    Back(hier_adj[v][n].id, saved.links[v][n].id)
    BY <1>1, <2>5, LoadedLists DEF Entire
  <2> QED BY <2>2, <2>3, <2>4, <2>5 DEF RoundTrip
<1> QED BY <1>1, IndexInvariant, PTL

(* Searches start in the component that they are for, or there is no       *)
(* member near its centre.                                                 *)
THEOREM EntryHolds == IndexSpec => []EntryInComponent
<1>1. ASSUME IndexInv PROVE EntryInComponent
  <2>1. ASSUME NEW k \in Layer, Labelled, EntriesRight(compo_l, sp_l_list[k], k)
        PROVE  /\ DOMAIN sp_l_list[k] = 0 .. splist_num[k] - 1
               /\ \A c \in DOMAIN sp_l_list[k] :
                    /\ \E v \in In(k) : compo_l[v][k] = c
                    /\ LET e == sp_l_list[k][c]
                       IN  IF e = -1 THEN Near(k, c) = {} ELSE e \in In(k) /\ compo_l[e][k] = c
    <3>1. DOMAIN sp_l_list[k] = Components(k) /\ Components(k) = 0 .. splist_num[k] - 1
      BY <1>1, <2>1, Done DEF IndexInv, EntriesRight, Components
    <3>2. \A c \in Components(k) : EntryRight(compo_l, sp_l_list[k][c], k, c)
      BY <2>1 DEF EntriesRight
    <3> QED BY <3>1, <3>2, NearIs DEF EntryRight
  <2>2. ASSUME NEW k \in Layer, stage = "label", k < layer
        PROVE  Labelled /\ EntriesRight(compo_l, sp_l_list[k], k)
    <3>1. BuildInv /\ SizesOK /\ GraphOK
      BY <1>1, <2>2 DEF IndexInv, StageInv, LabelInv
    <3>2. layer >= 0
      BY <2>2, <3>1, Layers DEF BuildInv
    <3> QED BY <2>2, <3>1, <3>2 DEF BuildInv, SizesOK
  <2>3. ASSUME NEW k \in Layer, Loaded, GraphGiven
        PROVE  Labelled /\ EntriesRight(compo_l, sp_l_list[k], k)
    <3>1. SavedFits /\ ReadInv /\ compo_l = saved.compo /\ FileInv /\ Labelled
      BY <1>1, <2>3, LoadedFits
    <3>2. file.entries = saved.entries
      BY <3>1 DEF FileInv
    <3> QED BY <3>1, <3>2 DEF SavedFits, ReadInv
  <2> QED BY <2>1, <2>2, <2>3 DEF EntryInComponent
<1> QED BY <1>1, IndexInvariant, PTL
=============================================================================
