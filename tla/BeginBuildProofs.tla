-------------------------- MODULE BeginBuildProofs --------------------------
(***************************************************************************)
(* Proofs about the first steps of the build, for every number of vertices *)
(* the code can handle.  The decomposition: its arrays stay consistent for *)
(* any lists, and for the lists of a simple graph it is a peeling          *)
(* (Peeling), so that its result is exact.  The packed neighbours: for any *)
(* lists, the loops that renumber, pack, search and count give the         *)
(* distance that the graph gives.  The files: what is read from one is the *)
(* network it describes, and so the cores found are those of the network.  *)
(***************************************************************************)
EXTENDS BeginBuild, FiniteSetTheorems, Extrema, TLAPS

-----------------------------------------------------------------------------
LEMMA Vertices ==
  IsFiniteSet(Vertex) /\ Cardinality(Vertex) = N /\ Vertex \subseteq Nat /\ 0 \in Vertex
BY FS_Interval, CoreAssumption DEF Vertex

LEMMA Remainder ==
  ASSUME NEW a \in Nat, NEW b \in Nat \ {0}
  PROVE  a % b \in Nat /\ a % b <= a /\ (a < b => a % b = a)
<1>1. CASE a < b
  BY <1>1, SMT
<1>2. CASE a >= b
  BY <1>2, SMT
<1> QED BY <1>1, <1>2

LEMMA LongestList ==
  ASSUME NEW g \in Graphs
  PROVE  /\ MaxDeg(g) \in Nat
         /\ \A v \in Vertex : Len(g[v]) \in Nat /\ Len(g[v]) <= MaxDeg(g)
<1>1. \A v \in Vertex : Len(g[v]) \in Nat
  BY CoreAssumption
<1> DEFINE len == [v \in Vertex |-> Len(g[v])]
<1>2. Lengths(g) = {len[v] : v \in Vertex}
  BY DEF Lengths
<1>3. IsFiniteSet({len[v] : v \in Vertex})
  BY Vertices, FiniteImage
<1>4. Lengths(g) \in SUBSET Nat /\ Lengths(g) # {}
  BY <1>1, Vertices DEF Lengths
<1>5. \E d \in Lengths(g) : \A e \in Lengths(g) : e <= d
  BY <1>2, <1>3, <1>4, FiniteHasGreatest
<1>6. MaxDeg(g) \in Lengths(g) /\ \A e \in Lengths(g) : e <= MaxDeg(g)
  BY <1>5 DEF MaxDeg
<1> QED BY <1>1, <1>4, <1>6 DEF Lengths

(* The constructor's order: every vertex has a place of its own, and those *)
(* of degree d or more are the ones from bin[d] on.                        *)
LEMMA PlacesInOrder ==
  ASSUME NEW d \in [Vertex -> Nat]
  PROVE  /\ \A v \in Vertex : Cardinality(Before(d, v)) \in Vertex
         /\ \A u, v \in Vertex :
              Cardinality(Before(d, u)) = Cardinality(Before(d, v)) => u = v
         /\ \A p \in Vertex : \E v \in Vertex : Cardinality(Before(d, v)) = p
         /\ \A v \in Vertex : \A e \in Nat :
              /\ BucketStart(d, e) \in 0 .. N
              /\ Cardinality(Before(d, v)) >= BucketStart(d, e) <=> d[v] >= e
<1> DEFINE place == [v \in Vertex |-> Cardinality(Before(d, v))]
           below(e) == {v \in Vertex : d[v] < e}
<1>1. \A v \in Vertex : d[v] \in Nat /\ v \in Nat
  BY Vertices
<1>2. ASSUME NEW S \in SUBSET Vertex
      PROVE  IsFiniteSet(S) /\ Cardinality(S) \in Nat /\ Cardinality(S) <= N
  BY Vertices, FS_Subset, FS_CardinalityType
<1>3. ASSUME NEW S \in SUBSET Vertex, NEW T \in SUBSET S, T # S
      PROVE  Cardinality(T) < Cardinality(S)
  <2>1. IsFiniteSet(S) /\ Cardinality(S) \in Nat /\ Cardinality(T) \in Nat
    BY <1>2
  <2> QED BY <1>3, <2>1, FS_Subset
<1>4. ASSUME NEW v \in Vertex
      PROVE  Before(d, v) \in SUBSET Vertex /\ v \notin Before(d, v)
  BY <1>1 DEF Before
<1>5. ASSUME NEW v \in Vertex PROVE place[v] \in Vertex
  <2>1. Cardinality(Before(d, v)) < Cardinality(Vertex)
    BY <1>3, <1>4
  <2> QED BY <1>2, <1>4, <2>1, Vertices, CoreAssumption DEF Vertex
<1>6. ASSUME NEW u \in Vertex, NEW v \in Before(d, u)
      PROVE  place[v] < place[u]
  <2>1. v \in Vertex
    BY <1>4
  <2>2. Before(d, v) \in SUBSET Before(d, u)
    BY <1>1, <1>6, <2>1 DEF Before
  <2> QED BY <1>3, <1>4, <1>6, <2>1, <2>2
<1>7. ASSUME NEW u \in Vertex, NEW v \in Vertex, u # v
      PROVE  place[u] # place[v]
  <2>1. u \in Before(d, v) \/ v \in Before(d, u)
    BY <1>1, <1>7 DEF Before
  <2>2. place[u] \in Nat /\ place[v] \in Nat
    BY <1>5, Vertices
  <2>3. place[u] < place[v] \/ place[v] < place[u]
    BY ONLY <1>6, <2>1
  <2> QED BY ONLY <2>2, <2>3
<1>8. place \in Injection(Vertex, Vertex)
  BY <1>5, <1>7 DEF Injection, IsInjective
<1>9. place \in Surjection(Vertex, Vertex)
  BY <1>8, Vertices, FS_Injection
<1>10. \A p \in Vertex : \E v \in Vertex : place[v] = p
  BY <1>9 DEF Surjection
<1>11. ASSUME NEW v \in Vertex, NEW e \in Nat
       PROVE  /\ BucketStart(d, e) \in 0 .. N
              /\ place[v] >= BucketStart(d, e) <=> d[v] >= e
  <2>1. BucketStart(d, e) = Cardinality(below(e)) /\ below(e) \in SUBSET Vertex
    BY DEF BucketStart
  <2>2. Cardinality(below(e)) \in Nat /\ Cardinality(below(e)) <= N
    BY <1>2, <2>1
  <2>3. Cardinality(Before(d, v)) \in Nat /\ IsFiniteSet(Before(d, v))
    BY <1>2, <1>4
  <2>4. CASE d[v] >= e
    <3>1. below(e) \in SUBSET Before(d, v)
      BY <1>1, <2>4 DEF Before
    <3>2. Cardinality(below(e)) <= Cardinality(Before(d, v))
      BY <2>3, <3>1, FS_Subset
    <3> QED BY <2>1, <2>2, <2>3, <2>4, <3>2, CoreAssumption
  <2>5. CASE ~(d[v] >= e)
    <3>1. Before(d, v) \in SUBSET below(e) /\ v \in below(e)
      BY <1>1, <2>5 DEF Before
    <3>2. Cardinality(Before(d, v)) < Cardinality(below(e))
      BY <1>3, <1>4, <2>1, <3>1
    <3> QED BY <2>1, <2>2, <2>3, <2>5, <3>2, CoreAssumption
  <2> QED BY <2>4, <2>5
<1> QED BY <1>5, <1>7, <1>10, <1>11
-----------------------------------------------------------------------------
(* What the arrays agree on: the inductive invariant.  TypeOK and          *)
(* BucketsInPlace rest on each other (an exchange is within the arrays     *)
(* because the bucket is where bin says), and both on the order in which   *)
(* vertices were peeled.                                                   *)
Published ==
  /\ Peeling => Unset
  /\ ~Unset => core_list = deg
IInv ==
  /\ TypeOK /\ ori_adj \in Graphs
  /\ \A v \in Vertex : deg[v] <= MaxDeg(ori_adj)
  /\ PlacesAgree /\ BucketsInPlace /\ PeeledInOrder
  /\ Published

LEMMA InitInv == ASSUME Init PROVE IInv
<1>1. /\ ori_adj \in Graphs /\ ori_adj \in [Vertex -> Seq(Vertex)]
      /\ MaxDeg(ori_adj) \in Nat
      /\ \A v \in Vertex : Len(ori_adj[v]) \in Nat /\ Len(ori_adj[v]) <= MaxDeg(ori_adj)
  BY LongestList, CoreAssumption DEF Init
<1>2. deg \in [Vertex -> Nat] /\ \A v \in Vertex : deg[v] <= MaxDeg(ori_adj)
  <2>1. ASSUME NEW v \in Vertex
        PROVE  LET r == Len(ori_adj[v]) % DegreeRange
               IN  r \in Nat /\ r <= Len(ori_adj[v])
    BY <1>1, Remainder, CoreAssumption
  <2>2. deg = [v \in Vertex |-> Len(ori_adj[v]) % DegreeRange]
    BY DEF Init
  <2>3. ASSUME NEW v \in Vertex PROVE deg[v] \in Nat /\ deg[v] <= MaxDeg(ori_adj)
    BY <1>1, <2>1, <2>2
  <2> QED BY <2>2, <2>3
<1>3. /\ pos \in [Vertex -> Vertex]
      /\ \A u, v \in Vertex : pos[u] = pos[v] => u = v
      /\ \A p \in Vertex : \E v \in Vertex : pos[v] = p
  BY <1>2, PlacesInOrder DEF Init
<1>4. /\ vert \in [Vertex -> Vertex]
      /\ \A p \in Vertex : pos[vert[p]] = p
      /\ \A v \in Vertex : vert[pos[v]] = v
  <2>1. vert = [p \in Vertex |-> CHOOSE v \in Vertex : pos[v] = p]
    BY DEF Init
  <2>2. \A p \in Vertex : vert[p] \in Vertex /\ pos[vert[p]] = p
    BY <1>3, <2>1
  <2> QED BY <1>3, <2>1, <2>2
<1>5. bin \in [0 .. MaxDeg(ori_adj) -> 0 .. N]
  <2>1. \A d \in 0 .. MaxDeg(ori_adj) : BucketStart(deg, d) \in 0 .. N
    BY <1>1, <1>2, PlacesInOrder, Vertices
  <2> QED BY <2>1 DEF Init
<1>6. \A d \in 0 .. MaxDeg(ori_adj) : \A p \in Vertex :
        p >= bin[d] <=> deg[vert[p]] >= d
  <2>1. ASSUME NEW d \in 0 .. MaxDeg(ori_adj), NEW p \in Vertex
        PROVE  p >= bin[d] <=> deg[vert[p]] >= d
    <3>1. bin[d] = BucketStart(deg, d) /\ d \in Nat
      BY <1>1 DEF Init
    <3>2. vert[p] \in Vertex /\ p = Cardinality(Before(deg, vert[p]))
      BY <1>4 DEF Init
    <3> QED BY <1>2, <3>1, <3>2, PlacesInOrder
  <2> QED BY <2>1
<1>7. PeeledInOrder
  <2>1. ASSUME NEW p \in Vertex, NEW q \in Vertex, p <= q
        PROVE  deg[vert[p]] <= deg[vert[q]]
    <3>1. deg[vert[p]] \in 0 .. MaxDeg(ori_adj)
      BY <1>1, <1>2, <1>4
    <3>2. p >= bin[deg[vert[p]]]
      BY <1>2, <1>4, <1>6, <3>1
    <3>3. q >= bin[deg[vert[p]]]
      BY <1>5, <2>1, <3>1, <3>2, Vertices, CoreAssumption
    <3> QED BY <1>6, <3>1, <3>3
  <2> QED BY <2>1 DEF PeeledInOrder
<1>8. TypeOK
  <2>1. at \in 0 .. N /\ nth \in Nat \ {0} /\ core_list \in [Vertex -> Nat \cup {-1}]
    BY CoreAssumption DEF Init
  <2> QED BY <1>1, <1>2, <1>3, <1>4, <1>5, <2>1 DEF TypeOK
<1>9. PlacesAgree /\ BucketsInPlace
  BY <1>4, <1>5, <1>6 DEF PlacesAgree, BucketsInPlace
<1>10. Published
  BY DEF Init, Published, Unset
<1> QED BY <1>1, <1>2, <1>7, <1>8, <1>9, <1>10 DEF IInv

LEMMA Ranges ==
  ASSUME IInv
  PROVE  /\ at \in Nat /\ at <= N /\ N \in Nat /\ (Peeling => at \in Vertex)
         /\ \A v \in Vertex : /\ v \in Nat /\ v < N
                              /\ deg[v] \in Nat /\ deg[v] \in 0 .. MaxDeg(ori_adj)
                              /\ pos[v] \in Vertex /\ vert[v] \in Vertex
         /\ DOMAIN bin = 0 .. MaxDeg(ori_adj)
         /\ \A d \in 0 .. MaxDeg(ori_adj) : d \in Nat /\ bin[d] \in Nat /\ bin[d] <= N
<1>1. MaxDeg(ori_adj) \in Nat /\ N \in Nat
  BY LongestList, CoreAssumption DEF IInv
<1>2. at \in 0 .. N
  BY DEF IInv, TypeOK
<1>3. at \in Nat /\ at <= N /\ (Peeling => at \in Vertex)
  BY <1>1, <1>2 DEF Vertex, Peeling
<1>4. \A v \in Vertex : v \in Nat /\ v < N
  BY <1>1 DEF Vertex
<1>5. \A v \in Vertex : deg[v] \in Nat /\ deg[v] <= MaxDeg(ori_adj)
  BY DEF IInv, TypeOK
<1>6. \A v \in Vertex : deg[v] \in 0 .. MaxDeg(ori_adj)
  BY <1>1, <1>5
<1>7. \A v \in Vertex : pos[v] \in Vertex /\ vert[v] \in Vertex
  BY DEF IInv, TypeOK
<1>8. bin \in [0 .. MaxDeg(ori_adj) -> 0 .. N]
  BY DEF IInv, TypeOK
<1>9. \A d \in 0 .. MaxDeg(ori_adj) : bin[d] \in 0 .. N
  BY <1>8
<1>10. \A d \in 0 .. MaxDeg(ori_adj) : d \in Nat /\ bin[d] \in Nat /\ bin[d] <= N
  BY <1>1, <1>9
<1> QED BY <1>1, <1>3, <1>4, <1>5, <1>6, <1>7, <1>8, <1>10

(* Where bin says the bucket of a degree above the current one begins.     *)
LEMMA Bucket ==
  ASSUME IInv, Peeling, NEW p \in Vertex, NEW d \in Nat, d > deg[vert[at]],
         d <= MaxDeg(ori_adj)
  PROVE  p >= bin[d] <=> deg[vert[p]] >= d
<1>1. d \in DOMAIN bin
  BY Ranges, LongestList DEF IInv
<1> QED BY <1>1 DEF IInv, BucketsInPlace

(* Degrees do not fall along vert, although buckets below the current      *)
(* degree are no longer kept.                                              *)
LEMMA Ascending ==
  ASSUME IInv, Peeling, NEW p \in Vertex, NEW q \in Vertex, p <= q
  PROVE  deg[vert[p]] <= deg[vert[q]]
<1> DEFINE d == deg[vert[p]]
<1>1. /\ at \in Vertex /\ at \in Nat /\ p \in Nat /\ q \in Nat
      /\ vert[p] \in Vertex /\ vert[q] \in Vertex /\ vert[at] \in Vertex
  BY Ranges
<1>2. /\ d \in Nat /\ deg[vert[q]] \in Nat /\ deg[vert[at]] \in Nat
      /\ d \in 0 .. MaxDeg(ori_adj) /\ d <= MaxDeg(ori_adj)
      /\ bin[d] \in Nat
  BY <1>1, Ranges DEF IInv
<1>3. CASE p <= at
  BY <1>3 DEF IInv, PeeledInOrder
<1>4. CASE p > at /\ d <= deg[vert[at]]
  <2>1. at <= q
    BY <1>1, <1>4
  <2>2. deg[vert[at]] <= deg[vert[q]]
    BY <1>1, <2>1 DEF IInv, PeeledInOrder
  <2> QED BY <1>2, <1>4, <2>2
<1>5. CASE d > deg[vert[at]]
  <2>1. p >= bin[d]
    BY <1>2, <1>5, Bucket
  <2>2. q >= bin[d]
    BY <1>1, <1>2, <2>1
  <2> QED BY <1>2, <1>5, <2>2, Bucket
<1> QED BY <1>1, <1>2, <1>3, <1>4, <1>5

-----------------------------------------------------------------------------
(* The exchange: u, whose degree is above the current one, goes to the     *)
(* front of its bucket, which is behind vert[at] and holds a vertex of the *)
(* same degree.                                                            *)
LEMMA FrontOfBucket ==
  ASSUME IInv, Peeling, NEW u \in Vertex, Lowers(u)
  PROVE  LET d == deg[u]
             f == bin[d]
         IN  /\ d \in DOMAIN bin /\ d \in Nat /\ d > 0 /\ f \in Vertex
             /\ at < f /\ f <= pos[u]
             /\ vert[f] \in Vertex /\ deg[vert[f]] = d
             /\ pos[vert[f]] = f /\ vert[pos[u]] = u
<1> DEFINE d == deg[u]
           f == bin[d]
<1>1. /\ d \in Nat /\ d \in 0 .. MaxDeg(ori_adj) /\ d <= MaxDeg(ori_adj)
      /\ pos[u] \in Vertex /\ pos[u] \in Nat /\ pos[u] < N
      /\ f \in Nat /\ at \in Vertex /\ at \in Nat /\ N \in Nat
      /\ DOMAIN bin = 0 .. MaxDeg(ori_adj)
  BY Ranges DEF IInv
<1>2. vert[at] \in Vertex /\ deg[vert[at]] \in Nat /\ d > deg[vert[at]]
  BY <1>1, Ranges DEF Lowers
<1>3. vert[pos[u]] = u
  BY DEF IInv, PlacesAgree
<1>4. f <= pos[u]
  BY <1>1, <1>2, <1>3, Bucket
<1>5. f \in Vertex
  BY <1>1, <1>4 DEF Vertex
<1>6. vert[f] \in Vertex /\ pos[vert[f]] = f /\ deg[vert[f]] \in Nat
  BY <1>5, Ranges DEF IInv, PlacesAgree
<1>7. deg[vert[f]] >= d
  BY <1>1, <1>2, <1>5, Bucket
<1>8. deg[vert[f]] <= d
  BY <1>1, <1>3, <1>4, <1>5, Ascending
<1>9. at < f
  BY <1>1, <1>2, Bucket
<1> QED BY <1>1, <1>2, <1>3, <1>4, <1>5, <1>6, <1>7, <1>8, <1>9

LEMMA NeighbourType ==
  ASSUME IInv, Peeling, HasNext
  PROVE  Neighbour \in Vertex /\ nth \in DOMAIN ori_adj[vert[at]] /\ vert[at] \in Vertex
<1>1. vert[at] \in Vertex
  BY Ranges
<1>2. ori_adj[vert[at]] \in Seq(Vertex) /\ nth \in Nat \ {0}
  BY <1>1 DEF IInv, TypeOK
<1> QED BY <1>1, <1>2 DEF HasNext, Neighbour

(* What the exchange does: degrees change along vert only at the front of  *)
(* the bucket, and nothing moves before it.                                *)
LEMMA Exchange ==
  ASSUME IInv, Lower
  PROVE  LET u == Neighbour
             d == deg[u]
             f == bin[d]
         IN  /\ u \in Vertex /\ Lowers(u) /\ Peeling /\ HasNext
             /\ deg' = [deg EXCEPT ![u] = d - 1] /\ bin' = [bin EXCEPT ![d] = f + 1]
             /\ pos' \in [Vertex -> Vertex] /\ vert' \in [Vertex -> Vertex]
             /\ PlacesAgree'
             /\ \A p \in Vertex : /\ p < f => vert'[p] = vert[p]
                                  /\ deg'[vert'[p]] = IF p = f THEN d - 1 ELSE deg[vert[p]]
             /\ \A v \in Vertex : /\ pos[v] < f => pos'[v] = pos[v]
                                  /\ pos[v] >= f => pos'[v] >= f
             /\ UNCHANGED <<ori_adj, at, core_list>> /\ nth' = nth + 1
<1> DEFINE u == Neighbour
           d == deg[u]
           f == bin[d]
           w == vert[f]
<1>1. Peeling /\ HasNext /\ Lowers(u)
  BY DEF Lower
<1>2. u \in Vertex
  BY <1>1, NeighbourType
<1>3. /\ d \in DOMAIN bin /\ d \in Nat /\ f \in Vertex /\ f <= pos[u]
      /\ w \in Vertex /\ deg[w] = d /\ pos[w] = f /\ vert[pos[u]] = u
  BY <1>1, <1>2, FrontOfBucket
<1>4. /\ deg \in [Vertex -> Nat] /\ vert \in [Vertex -> Vertex] /\ pos \in [Vertex -> Vertex]
      /\ \A v \in Vertex : v \in Nat /\ pos[v] \in Nat
  BY Ranges DEF IInv, TypeOK
<1>5. /\ deg' = [deg EXCEPT ![u] = d - 1] /\ bin' = [bin EXCEPT ![d] = f + 1]
      /\ pos' = [pos EXCEPT ![u] = f, ![w] = pos[u]]
      /\ vert' = [vert EXCEPT ![pos[u]] = w, ![f] = u]
      /\ UNCHANGED <<ori_adj, at, core_list>> /\ nth' = nth + 1
  BY <1>3 DEF Lower, Boundary, Exchanged
<1>6. /\ pos'[w] = pos[u] /\ (u # w => pos'[u] = f)
      /\ \A v \in Vertex \ {u, w} : pos'[v] = pos[v]
      /\ pos' \in [Vertex -> Vertex]
  BY <1>2, <1>3, <1>4, <1>5
<1>7. /\ vert'[f] = u /\ (pos[u] # f => vert'[pos[u]] = w)
      /\ \A p \in Vertex \ {pos[u], f} : vert'[p] = vert[p]
      /\ vert' \in [Vertex -> Vertex]
  BY <1>2, <1>3, <1>4, <1>5
<1>8. (u = w) <=> (pos[u] = f)
  BY <1>3
<1>9. \A v \in Vertex : vert[pos[v]] = v /\ pos[vert[v]] = v
  BY DEF IInv, PlacesAgree
<1>10. \A v \in Vertex : vert'[pos'[v]] = v
  <2>1. ASSUME NEW v \in Vertex \ {u, w} PROVE vert'[pos'[v]] = v
    BY <1>2, <1>3, <1>4, <1>6, <1>7, <1>9
  <2>2. vert'[pos'[u]] = u /\ vert'[pos'[w]] = w
    BY <1>3, <1>6, <1>7, <1>8
  <2> QED BY <2>1, <2>2
<1>11. \A p \in Vertex : pos'[vert'[p]] = p
  <2>1. ASSUME NEW p \in Vertex \ {pos[u], f} PROVE pos'[vert'[p]] = p
    <3>1. vert[p] \in Vertex \ {u, w}
      BY <1>3, <1>4, <1>9
    <3> QED BY <1>6, <1>7, <1>9, <3>1
  <2>2. pos'[vert'[f]] = f /\ pos'[vert'[pos[u]]] = pos[u]
    BY <1>3, <1>6, <1>7, <1>8
  <2> QED BY <2>1, <2>2
<1>12. ASSUME NEW p \in Vertex
       PROVE  deg'[vert'[p]] = IF p = f THEN d - 1 ELSE deg[vert[p]]
  <2>1. deg'[u] = d - 1 /\ \A v \in Vertex \ {u} : deg'[v] = deg[v]
    BY <1>2, <1>4, <1>5
  <2>2. CASE p = f
    BY <1>7, <2>1, <2>2
  <2>3. CASE p # f /\ p = pos[u]
    BY <1>3, <1>7, <1>8, <2>1, <2>3
  <2>4. CASE p # f /\ p # pos[u]
    <3>1. vert'[p] = vert[p] /\ vert[p] \in Vertex \ {u}
      BY <1>4, <1>7, <1>9, <2>4
    <3> QED BY <2>1, <2>4, <3>1
  <2> QED BY <2>2, <2>3, <2>4
<1>13. ASSUME NEW p \in Vertex, p < f PROVE vert'[p] = vert[p]
  BY <1>3, <1>4, <1>7, <1>13
<1>14. ASSUME NEW v \in Vertex
       PROVE  (pos[v] < f => pos'[v] = pos[v]) /\ (pos[v] >= f => pos'[v] >= f)
  <2>1. pos[u] >= f /\ pos[w] = f /\ f \in Nat
    BY <1>3, <1>4
  <2>2. CASE v \notin {u, w}
    BY <1>4, <1>6, <2>1, <2>2
  <2>3. CASE v \in {u, w}
    BY <1>3, <1>4, <1>6, <1>8, <2>1, <2>3
  <2> QED BY <2>2, <2>3
<1> QED BY <1>1, <1>2, <1>5, <1>6, <1>7, <1>10, <1>11, <1>12, <1>13, <1>14 DEF PlacesAgree

LEMMA LowerInv == ASSUME IInv, Lower PROVE IInv'
<1> DEFINE u == Neighbour
           d == deg[u]
           f == bin[d]
<1>1. /\ u \in Vertex /\ Lowers(u) /\ Peeling
      /\ deg' = [deg EXCEPT ![u] = d - 1] /\ bin' = [bin EXCEPT ![d] = f + 1]
      /\ pos' \in [Vertex -> Vertex] /\ vert' \in [Vertex -> Vertex]
      /\ PlacesAgree' /\ nth' = nth + 1
      /\ ori_adj' = ori_adj /\ at' = at /\ core_list' = core_list
  BY Exchange
<1>2. \A p \in Vertex : /\ p < f => vert'[p] = vert[p]
                        /\ deg'[vert'[p]] = IF p = f THEN d - 1 ELSE deg[vert[p]]
  BY Exchange
<1>3. /\ d \in DOMAIN bin /\ d \in Nat /\ d > 0 /\ f \in Vertex /\ at < f
      /\ f \in Nat /\ at \in Nat /\ at \in Vertex /\ f < N /\ N \in Nat
      /\ vert[at] \in Vertex /\ deg[vert[at]] \in Nat /\ d > deg[vert[at]]
      /\ deg[vert[f]] = d
  <2>1. /\ d \in DOMAIN bin /\ d \in Nat /\ d > 0 /\ f \in Vertex /\ at < f
        /\ deg[vert[f]] = d
    BY <1>1, FrontOfBucket
  <2> QED BY <1>1, <2>1, Ranges DEF Lowers
<1>4. vert'[at'] = vert[at] /\ deg'[vert'[at']] = deg[vert[at]]
  BY <1>1, <1>2, <1>3
<1>5. \A p \in Vertex : vert[p] \in Vertex /\ deg[vert[p]] \in Nat /\ p \in Nat
  BY Ranges
<1>6. deg' \in [Vertex -> Nat] /\ \A v \in Vertex : deg'[v] <= MaxDeg(ori_adj')
  <2>1. deg \in [Vertex -> Nat] /\ d - 1 \in Nat /\ MaxDeg(ori_adj) \in Nat
    BY <1>3, LongestList DEF IInv, TypeOK
  <2>2. \A v \in Vertex : deg[v] \in Nat /\ deg[v] <= MaxDeg(ori_adj)
    BY <2>1 DEF IInv
  <2>3. \A v \in Vertex : deg'[v] \in Nat /\ (deg'[v] = deg[v] \/ (v = u /\ deg'[v] = d - 1))
    BY <1>1, <2>1
  <2>4. \A v \in Vertex : deg'[v] <= MaxDeg(ori_adj)
    BY <1>3, <2>1, <2>2, <2>3
  <2> QED BY <1>1, <2>1, <2>4
<1>7. bin' \in [0 .. MaxDeg(ori_adj) -> 0 .. N]
  BY <1>1, <1>3 DEF IInv, TypeOK
<1>8. TypeOK'
  BY <1>1, <1>6, <1>7 DEF IInv, TypeOK
<1>9. BucketsInPlace'
  <2> SUFFICES ASSUME NEW e \in DOMAIN bin', e > deg'[vert'[at']], NEW p \in Vertex
               PROVE  p >= bin'[e] <=> deg'[vert'[p]] >= e
    BY DEF BucketsInPlace
  <2>1. e \in DOMAIN bin /\ e \in Nat /\ e > deg[vert[at]] /\ bin[e] \in Nat
    BY <1>1, <1>4, Ranges
  <2>2. p >= bin[e] <=> deg[vert[p]] >= e
    BY <1>1, <2>1 DEF IInv, BucketsInPlace
  <2>3. f >= bin[e] <=> d >= e
    BY <1>1, <1>3, <2>1 DEF IInv, BucketsInPlace
  <2>4. CASE e = d
    <3>1. bin'[e] = f + 1
      BY <1>1, <1>3, <2>4
    <3>2. p >= f <=> deg[vert[p]] >= d
      BY <2>2, <2>4
    <3>3. deg'[vert'[p]] = IF p = f THEN d - 1 ELSE deg[vert[p]]
      BY <1>2
    <3>4. CASE p = f
      <4>1. deg'[vert'[p]] = d - 1
        BY <3>3, <3>4
      <4>2. ~(p >= f + 1) /\ ~(d - 1 >= d)
        BY <1>3, <3>4
      <4> QED BY <2>4, <3>1, <4>1, <4>2
    <3>5. CASE p # f
      <4>1. deg'[vert'[p]] = deg[vert[p]]
        BY <3>3, <3>5
      <4>2. p >= f + 1 <=> p >= f
        BY <1>3, <1>5, <3>5
      <4> QED BY <2>4, <3>1, <3>2, <4>1, <4>2
    <3> QED BY <3>4, <3>5
  <2>5. CASE e # d
    <3>1. bin'[e] = bin[e]
      BY <1>1, <2>1, <2>5
    <3> QED BY <1>2, <1>3, <1>5, <2>1, <2>2, <2>3, <2>5, <3>1
  <2> QED BY <2>4, <2>5
<1>10. PeeledInOrder'
  <2> SUFFICES ASSUME NEW p \in Vertex, NEW q \in Vertex, p <= at, p <= q
               PROVE  deg'[vert'[p]] <= deg'[vert'[q]]
    BY <1>1 DEF PeeledInOrder
  <2>1. deg[vert[p]] <= deg[vert[q]] /\ deg[vert[p]] <= deg[vert[at]]
    BY <1>3 DEF IInv, PeeledInOrder
  <2>2. deg'[vert'[p]] = deg[vert[p]]
    BY <1>2, <1>3, <1>5
  <2> QED BY <1>2, <1>3, <1>5, <2>1, <2>2
<1>11. Published'
  BY <1>1 DEF IInv, Published, Peeling, Unset
<1> QED BY <1>1, <1>6, <1>8, <1>9, <1>10, <1>11 DEF IInv

LEMMA NextVertexInv == ASSUME IInv, NextVertex PROVE IInv'
<1>1. /\ Peeling /\ at' = at + 1 /\ nth' = 1
      /\ UNCHANGED <<ori_adj, deg, vert, pos, bin, core_list>>
  BY DEF NextVertex, Following, Restart
<1>2. /\ at \in Vertex /\ at \in Nat /\ N \in Nat /\ at < N
      /\ \A p \in Vertex : p \in Nat /\ p < N /\ vert[p] \in Vertex /\ deg[vert[p]] \in Nat
  BY <1>1, Ranges
<1>3. TypeOK'
  BY <1>1, <1>2 DEF IInv, TypeOK
<1>4. PeeledInOrder'
  <2> SUFFICES ASSUME NEW p \in Vertex, NEW q \in Vertex, p <= q
               PROVE  deg[vert[p]] <= deg[vert[q]]
    BY <1>1 DEF PeeledInOrder
  <2> QED BY <1>1, Ascending
<1>5. BucketsInPlace'
  <2> SUFFICES ASSUME at + 1 < N, NEW e \in DOMAIN bin, e > deg[vert[at + 1]], NEW p \in Vertex
               PROVE  p >= bin[e] <=> deg[vert[p]] >= e
    BY <1>1 DEF BucketsInPlace, Peeling
  <2>1. at + 1 \in Vertex /\ at <= at + 1
    BY <1>2 DEF Vertex
  <2>2. deg[vert[at]] <= deg[vert[at + 1]]
    BY <1>1, <1>2, <2>1, Ascending
  <2>3. e \in Nat /\ e > deg[vert[at]]
    BY <1>2, <2>1, <2>2, Ranges
  <2> QED BY <1>1, <2>3 DEF IInv, BucketsInPlace
<1>6. Published'
  BY <1>1, <1>2 DEF IInv, Published, Peeling, Unset
<1> QED BY <1>1, <1>3, <1>4, <1>5, <1>6 DEF IInv, PlacesAgree

LEMMA NextInv == ASSUME IInv, [Next]_vars PROVE IInv'
<1>1. ASSUME Lower PROVE IInv'
  BY <1>1, LowerInv
<1>2. ASSUME Pass PROVE IInv'
  BY <1>2 DEF Pass, IInv, TypeOK, PlacesAgree, BucketsInPlace, PeeledInOrder, Published,
              Peeling, Unset
<1>3. ASSUME NextVertex PROVE IInv'
  BY <1>3, NextVertexInv
<1>4. ASSUME Finish PROVE IInv'
  <2>1. /\ ~Peeling /\ core_list' = deg /\ UNCHANGED <<ori_adj, deg, vert, pos, bin, at, nth>>
    BY <1>4 DEF Finish
  <2>2. TypeOK'
    BY <2>1 DEF IInv, TypeOK
  <2> QED BY <2>1, <2>2 DEF IInv, PlacesAgree, BucketsInPlace, PeeledInOrder, Published, Peeling
<1>5. ASSUME UNCHANGED vars PROVE IInv'
  BY <1>5 DEF vars, IInv, TypeOK, PlacesAgree, BucketsInPlace, PeeledInOrder, Published,
              Peeling, Unset
<1> QED BY <1>1, <1>2, <1>3, <1>4, <1>5 DEF Next, Terminated

LEMMA Invariant == Spec => []IInv
<1>1. Init => IInv
  BY InitInv
<1>2. IInv /\ [Next]_vars => IInv'
  BY NextInv
<1> QED BY <1>1, <1>2, PTL DEF Spec

(* Every variable keeps its type, so that no access leaves its array:      *)
(* TypeOK.                                                                 *)
THEOREM TypeCorrect == Spec => []TypeOK
<1>1. IInv => TypeOK
  BY DEF IInv
<1> QED BY <1>1, Invariant, PTL

(* bin says where the bucket of every degree above the current one begins, *)
(* through every exchange: BucketsInPlace.                                 *)
THEOREM BucketsCorrect == Spec => []BucketsInPlace
<1>1. IInv => BucketsInPlace
  BY DEF IInv
<1> QED BY <1>1, Invariant, PTL

(* pos and vert stay inverse to each other, and vertices are peeled by     *)
(* increasing degree: PlacesAgree, PeeledInOrder.                          *)
THEOREM OrderCorrect == Spec => [](PlacesAgree /\ PeeledInOrder)
<1>1. IInv => PlacesAgree /\ PeeledInOrder
  BY DEF IInv
<1> QED BY <1>1, Invariant, PTL

-----------------------------------------------------------------------------
(* How the degrees compared lag behind: that of the vertex being peeled is *)
(* the number of its neighbours left, or the level where that is more; of  *)
(* the others likewise, the current vertex being counted as long as their  *)
(* turn in its list has not come.  No vertex left has fewer.               *)
Left == {v \in Vertex : ~Peeled(v)}
Level == IF at = 0 THEN 0 ELSE deg[vert[at - 1]]
Adjacent == [v \in Vertex |-> Range(ori_adj[v])]
Within(v, S) == Cardinality(Adjacent[v] \cap S)
Done == {ori_adj[vert[at]][n] : n \in {m \in DOMAIN ori_adj[vert[at]] : m < nth}}
Remaining(u) == IF u \in Done THEN Left \ {vert[at]} ELSE Left
Above(m, n) == IF m >= n THEN m ELSE n
Lag ==
  Peeling =>
    /\ deg[vert[at]] = Above(Level, Within(vert[at], Left))
    /\ \A u \in Left \ {vert[at]} : deg[u] = Above(deg[vert[at]], Within(u, Remaining(u)))
    /\ \A u \in Left : deg[vert[at]] <= Above(Level, Within(u, Left))

LEMMA WithinFacts ==
  ASSUME NEW v \in Vertex, NEW S \in SUBSET Vertex, NEW x
  PROVE  /\ Within(v, S) \in Nat /\ Within(v, S \ {x}) \in Nat
         /\ Within(v, S \ {x}) <= Within(v, S)
         /\ x \in S /\ x \in Adjacent[v] => Within(v, S \ {x}) = Within(v, S) - 1
         /\ x \notin Adjacent[v] => Within(v, S \ {x}) = Within(v, S)
<1> DEFINE T == Adjacent[v] \cap S
<1>1. IsFiniteSet(T)
  BY Vertices, FS_Subset
<1>2. Adjacent[v] \cap (S \ {x}) = T \ {x}
  OBVIOUS
<1>3. /\ Cardinality(T) \in Nat /\ IsFiniteSet(T \ {x}) /\ Cardinality(T \ {x}) \in Nat
      /\ Cardinality(T \ {x}) = IF x \in T THEN Cardinality(T) - 1 ELSE Cardinality(T)
  BY <1>1, FS_RemoveElement, FS_CardinalityType
<1>4. Within(v, S) = Cardinality(T) /\ Within(v, S \ {x}) = Cardinality(T \ {x})
  BY <1>2 DEF Within
<1>5. x \in T <=> x \in Adjacent[v] /\ x \in S
  OBVIOUS
<1>6. CASE x \in T
  BY <1>3, <1>4, <1>5, <1>6
<1>7. CASE x \notin T
  BY <1>3, <1>4, <1>5, <1>7
<1> QED BY <1>6, <1>7

LEMMA BothWays ==
  ASSUME Simple, IInv, NEW v \in Vertex
  PROVE  /\ Adjacent[v] = Range(ori_adj[v]) /\ Adjacent[v] \subseteq Vertex
         /\ \A u \in Adjacent[v] : v \in Adjacent[u]
<1>1. Range(ori_adj[v]) \subseteq Vertex
  BY DEF IInv, TypeOK, Range
<1> QED BY <1>1 DEF Simple, IInv, Adjacent

(* A list without repetition has as many places as elements.               *)
LEMMA Places ==
  ASSUME NEW S, NEW s \in Seq(S), \A m, n \in DOMAIN s : s[m] = s[n] => m = n
  PROVE  Cardinality(Range(s)) = Len(s)
<1>1. Len(s) \in Nat /\ DOMAIN s = 1 .. Len(s)
  OBVIOUS
<1>2. s \in Bijection(1 .. Len(s), Range(s))
  <2>1. s \in [1 .. Len(s) -> Range(s)]
    BY <1>1 DEF Range
  <2> QED BY <1>1, <2>1 DEF Bijection, Injection, Surjection, IsInjective, Range
<1>3. ExistsBijection(1 .. Len(s), Range(s))
  BY <1>2 DEF ExistsBijection
<1> QED BY <1>1, <1>3, FS_CountingElements

LEMMA InitLag == ASSUME Simple, Init PROVE Lag
<1>1. IInv /\ at = 0 /\ nth = 1
  BY InitInv DEF Init
<1>2. Left = Vertex /\ Level = 0
  <2>1. \A v \in Vertex : pos[v] \in Nat
    BY <1>1, Ranges
  <2> QED BY <1>1, <2>1 DEF Left, Peeled, Level
<1>3. ASSUME NEW v \in Vertex PROVE deg[v] = Within(v, Left)
  <2>1. /\ ori_adj \in Graphs /\ ori_adj[v] \in Seq(Vertex) /\ Len(ori_adj[v]) \in Nat
        /\ deg[v] = Len(ori_adj[v]) % DegreeRange
    BY <1>1 DEF Init, IInv, TypeOK
  <2>2. /\ Len(ori_adj[v]) < DegreeRange
        /\ \A m, n \in DOMAIN ori_adj[v] : ori_adj[v][m] = ori_adj[v][n] => m = n
    BY <2>1 DEF Simple
  <2>3. deg[v] = Len(ori_adj[v])
    BY <2>1, <2>2, Remainder, CoreAssumption
  <2>4. Cardinality(Range(ori_adj[v])) = Len(ori_adj[v])
    BY <2>1, <2>2, Places
  <2>5. Adjacent[v] \cap Left = Range(ori_adj[v])
    BY <1>1, <1>2, BothWays
  <2> QED BY <2>3, <2>4, <2>5 DEF Within
<1>4. ASSUME Peeling PROVE vert[at] \in Vertex /\ Done = {}
  <2>1. vert[at] \in Vertex
    BY <1>1, <1>4, Ranges
  <2>2. ori_adj[vert[at]] \in Seq(Vertex)
    BY <1>1, <2>1 DEF IInv, TypeOK
  <2> QED BY <1>1, <2>1, <2>2 DEF Done
<1>5. ASSUME Peeling PROVE deg[vert[at]] = Above(Level, Within(vert[at], Left))
  <2>1. deg[vert[at]] \in Nat
    BY <1>1, <1>4, <1>5, Ranges
  <2> QED BY <1>2, <1>3, <1>4, <1>5, <2>1 DEF Above
<1>6. ASSUME Peeling, NEW u \in Left
      PROVE  deg[vert[at]] <= deg[u] /\ deg[u] \in Nat /\ deg[vert[at]] \in Nat
  <2>1. u \in Vertex /\ pos[u] \in Vertex /\ at \in Vertex /\ vert[pos[u]] = u
    BY <1>1, <1>2, <1>6, Ranges DEF IInv, PlacesAgree
  <2>2. at <= pos[u]
    <3>1. pos[u] \in Nat
      BY <1>1, <2>1, Ranges
    <3> QED BY <1>1, <3>1
  <2>3. deg[u] \in Nat /\ deg[vert[at]] \in Nat
    BY <1>1, <1>4, <1>6, <2>1, Ranges
  <2>4. deg[vert[at]] <= deg[vert[pos[u]]]
    BY <1>1, <1>6, <2>1, <2>2, Ascending
  <2> QED BY <2>1, <2>3, <2>4
<1>7. ASSUME Peeling, NEW u \in Left \ {vert[at]}
      PROVE  deg[u] = Above(deg[vert[at]], Within(u, Remaining(u)))
  <2>1. Within(u, Remaining(u)) = deg[u]
    BY <1>2, <1>3, <1>4, <1>7 DEF Remaining
  <2> QED BY <1>6, <1>7, <2>1 DEF Above
<1>8. ASSUME Peeling, NEW u \in Left
      PROVE  deg[vert[at]] <= Above(Level, Within(u, Left))
  <2>1. Within(u, Left) = deg[u]
    BY <1>2, <1>3, <1>8
  <2> QED BY <1>2, <1>6, <1>8, <2>1 DEF Above
<1> QED BY <1>5, <1>7, <1>8 DEF Lag

(* An exchange takes no vertex away and changes none of those taken away.  *)
LEMMA LowerKeeps ==
  ASSUME IInv, Lower
  PROVE  LET u == Neighbour
             v == vert[at]
         IN  /\ u \in Left \ {v} /\ v \in Left /\ pos[v] = at
             /\ u \in Vertex /\ deg[u] \in Nat /\ deg[u] > deg[v]
             /\ v \in Vertex /\ deg[v] \in Nat
             /\ vert'[at'] = v /\ deg'[v] = deg[v]
             /\ Left' = Left /\ Level' = Level
<1> DEFINE u == Neighbour
           v == vert[at]
           f == bin[deg[u]]
<1>1. /\ u \in Vertex /\ Lowers(u) /\ Peeling /\ HasNext
      /\ deg' = [deg EXCEPT ![u] = deg[u] - 1]
      /\ ori_adj' = ori_adj /\ at' = at /\ nth' = nth + 1
  BY Exchange
<1>2. /\ \A p \in Vertex : /\ p < f => vert'[p] = vert[p]
                           /\ deg'[vert'[p]] = IF p = f THEN deg[u] - 1 ELSE deg[vert[p]]
  BY Exchange
<1>3. /\ at < f /\ f <= pos[u] /\ f \in Nat /\ at \in Nat /\ at \in Vertex
      /\ f \in Vertex /\ v \in Vertex
      /\ deg[v] \in Nat /\ deg[u] \in Nat /\ deg[u] > deg[v]
      /\ \A x \in Vertex : pos[x] \in Nat /\ x \in Nat /\ deg[x] \in Nat
  <2>1. at < f /\ f <= pos[u] /\ f \in Vertex
    BY <1>1, FrontOfBucket
  <2> QED BY <1>1, <2>1, Ranges DEF Lowers
<1>4. vert'[at'] = v /\ deg'[v] = deg[v]
  BY <1>1, <1>2, <1>3
<1>5. Left' = Left
  <2>1. /\ pos' \in [Vertex -> Vertex]
        /\ \A x \in Vertex : /\ pos[x] < f => pos'[x] = pos[x]
                             /\ pos[x] >= f => pos'[x] >= f
    BY Exchange
  <2>2. ASSUME NEW x \in Vertex PROVE pos'[x] < at <=> pos[x] < at
    <3>1. pos'[x] \in Nat /\ pos[x] \in Nat
      BY <1>3, <2>1
    <3> QED BY <1>3, <2>1, <3>1
  <2> QED BY <1>1, <2>2 DEF Left, Peeled
<1>6. Level' = Level
  <2>1. CASE at = 0
    BY <1>1, <2>1 DEF Level
  <2>2. CASE at # 0
    <3>1. at - 1 \in Vertex /\ at - 1 < f /\ at - 1 # f
      BY <1>3, <2>2, CoreAssumption DEF Vertex
    <3> QED BY <1>1, <1>2, <2>2, <3>1 DEF Level
  <2> QED BY <2>1, <2>2
<1>7. u \in Left \ {v} /\ v \in Left /\ pos[v] = at
  <2>1. pos[v] = at
    BY <1>3 DEF IInv, PlacesAgree
  <2>2. ~(pos[u] < at) /\ pos[u] # at /\ ~(at < at)
    BY <1>1, <1>3
  <2> QED BY <1>1, <1>3, <2>1, <2>2 DEF Left, Peeled
<1> QED BY <1>1, <1>3, <1>4, <1>5, <1>6, <1>7

LEMMA LowerLag == ASSUME Simple, IInv, Lag, Lower PROVE Lag'
<1> DEFINE u == Neighbour
           v == vert[at]
<1>1. /\ Lowers(u) /\ Peeling /\ HasNext
      /\ deg' = [deg EXCEPT ![u] = deg[u] - 1]
      /\ ori_adj' = ori_adj /\ at' = at /\ nth' = nth + 1
  BY Exchange
<1>2. u \in Left \ {v} /\ v \in Left /\ u \in Vertex
  BY LowerKeeps
<1>3. v \in Vertex /\ deg[v] \in Nat /\ deg[u] \in Nat /\ deg[u] > deg[v]
  BY LowerKeeps
<1>4. vert'[at'] = v /\ deg'[v] = deg[v]
  BY LowerKeeps
<1>5. Left' = Left
  BY LowerKeeps
<1>6. Level' = Level
  BY LowerKeeps
<1>7. \A x \in Vertex : deg[x] \in Nat
  BY Ranges
<1>8. ori_adj[v] \in Seq(Vertex) /\ nth \in Nat /\ nth \in DOMAIN ori_adj[v] /\ u = ori_adj[v][nth]
  BY <1>1, <1>3, NeighbourType DEF IInv, TypeOK, Neighbour
<1>9. v \in Adjacent[u] /\ v \in Left
  <2>1. u \in Adjacent[v]
    BY <1>3, <1>8, BothWays DEF Range
  <2> QED BY <1>2, <1>3, <2>1, BothWays
<1>10. u \notin Done
  <2>1. \A m, n \in DOMAIN ori_adj[v] : ori_adj[v][m] = ori_adj[v][n] => m = n
    BY <1>3 DEF Simple, IInv
  <2>2. \A m \in DOMAIN ori_adj[v] : m \in Nat
    BY <1>8
  <2> QED BY <1>8, <2>1, <2>2 DEF Done
<1>11. Done' = Done \cup {u}
  <2>1. \A m \in DOMAIN ori_adj[v] : m < nth + 1 <=> m < nth \/ m = nth
    BY <1>8
  <2> QED BY <1>1, <1>4, <1>8, <2>1 DEF Done
<1>12. \A x, S : Within(x, S)' = Within(x, S)
  BY <1>1 DEF Within, Adjacent
<1>13. /\ deg[v] = Above(Level, Within(v, Left))
       /\ \A x \in Left \ {v} : deg[x] = Above(deg[v], Within(x, Remaining(x)))
       /\ \A x \in Left : deg[v] <= Above(Level, Within(x, Left))
  BY <1>1 DEF Lag
<1>14. ASSUME NEW x \in Left \ {v}
       PROVE  deg'[x] = Above(deg[v], Within(x, Remaining(x)'))
  <2>1. x \in Vertex /\ deg[x] = Above(deg[v], Within(x, Remaining(x)))
    BY <1>13 DEF Left
  <2>2. CASE x = u
    <3>1. Remaining(x) = Left /\ Remaining(x)' = Left \ {v}
      BY <1>4, <1>5, <1>10, <1>11, <2>2 DEF Remaining
    <3>2. Within(x, Left) \in Nat /\ Within(x, Left \ {v}) = Within(x, Left) - 1
      BY <1>2, <1>9, <2>2, WithinFacts DEF Left
    <3>3. deg[x] = Within(x, Left) /\ deg'[x] = deg[x] - 1
      <4>1. deg[x] = Within(x, Left)
        BY <1>3, <2>1, <2>2, <3>1, <3>2 DEF Above
      <4> QED BY <1>1, <1>2, <2>2, <4>1 DEF IInv, TypeOK
    <3>4. Within(x, Left \ {v}) = deg'[x] /\ deg'[x] >= deg[v] /\ deg'[x] \in Nat
      BY <1>3, <2>2, <3>2, <3>3
    <3> QED BY <1>3, <3>1, <3>4 DEF Above
  <2>3. CASE x # u
    <3>1. Remaining(x)' = Remaining(x)
      BY <1>4, <1>5, <1>11, <2>3 DEF Remaining
    <3>2. deg'[x] = deg[x]
      BY <1>1, <2>1, <2>3 DEF IInv, TypeOK
    <3> QED BY <2>1, <3>1, <3>2
  <2> QED BY <2>2, <2>3
<1> QED BY <1>4, <1>5, <1>6, <1>12, <1>13, <1>14 DEF Lag, Above

LEMMA PassLag == ASSUME Simple, IInv, Lag, Pass PROVE Lag'
<1> DEFINE u == Neighbour
           v == vert[at]
<1>1. /\ Peeling /\ HasNext /\ ~Lowers(u) /\ nth' = nth + 1
      /\ UNCHANGED <<ori_adj, deg, vert, pos, bin, at, core_list>>
  BY DEF Pass
<1>2. u \in Vertex /\ nth \in DOMAIN ori_adj[v] /\ v \in Vertex
  BY <1>1, NeighbourType
<1>3. /\ ori_adj[v] \in Seq(Vertex) /\ nth \in Nat /\ u = ori_adj[v][nth]
      /\ \A x \in Vertex : deg[x] \in Nat
  BY <1>2, Ranges DEF IInv, TypeOK, Neighbour
<1>4. Done' = Done \cup {u}
  <2>1. \A m \in DOMAIN ori_adj[v] : m < nth + 1 <=> m < nth \/ m = nth
    BY <1>3
  <2> QED BY <1>1, <1>2, <1>3, <2>1 DEF Done
<1>5. /\ Left' = Left /\ Level' = Level /\ \A x, S : Within(x, S)' = Within(x, S)
  BY <1>1 DEF Left, Peeled, Level, Within, Adjacent
<1>6. /\ deg[v] = Above(Level, Within(v, Left))
      /\ \A x \in Left \ {v} : deg[x] = Above(deg[v], Within(x, Remaining(x)))
      /\ \A x \in Left : deg[v] <= Above(Level, Within(x, Left))
  BY <1>1 DEF Lag
<1>7. ASSUME NEW x \in Left \ {v}
      PROVE  deg[x] = Above(deg[v], Within(x, Remaining(x)'))
  <2>1. x \in Vertex /\ deg[x] = Above(deg[v], Within(x, Remaining(x)))
    BY <1>6 DEF Left
  <2>2. CASE x = u /\ x \notin Done
    <3>1. Remaining(x) = Left /\ Remaining(x)' = Left \ {v}
      BY <1>1, <1>4, <1>5, <2>2 DEF Remaining
    <3>2. /\ Within(x, Left) \in Nat /\ Within(x, Left \ {v}) \in Nat
          /\ Within(x, Left \ {v}) <= Within(x, Left)
      BY <2>1, WithinFacts DEF Left
    <3>3. deg[x] <= deg[v]
      BY <1>1, <1>2, <1>3, <2>2 DEF Lowers
    <3> QED BY <1>2, <1>3, <2>1, <3>1, <3>2, <3>3 DEF Above
  <2>3. CASE ~(x = u /\ x \notin Done)
    <3>1. Remaining(x)' = Remaining(x)
      BY <1>1, <1>4, <1>5, <2>3 DEF Remaining
    <3> QED BY <2>1, <3>1
  <2> QED BY <2>2, <2>3
<1> QED BY <1>1, <1>5, <1>6, <1>7 DEF Lag, Above

LEMMA NextVertexLag == ASSUME Simple, IInv, Lag, NextVertex PROVE Lag'
<1> DEFINE v == vert[at]
           w == vert[at + 1]
<1>1. /\ Peeling /\ ~HasNext /\ at' = at + 1 /\ nth' = 1
      /\ UNCHANGED <<ori_adj, deg, vert, pos, bin, core_list>>
  BY DEF NextVertex, Following, Restart
<1>2. /\ v \in Vertex /\ at \in Nat /\ at \in Vertex /\ pos[v] = at
      /\ \A x \in Vertex : pos[x] \in Nat /\ pos[x] \in Vertex /\ x \in Nat /\ deg[x] \in Nat
      /\ \A x \in Vertex : vert[pos[x]] = x
  BY <1>1, Ranges DEF IInv, PlacesAgree
<1>3. Left' = Left \ {v} /\ v \in Left
  <2>1. ASSUME NEW x \in Vertex PROVE pos[x] < at + 1 <=> pos[x] < at \/ x = v
    <3>1. pos[x] = at <=> x = v
      BY <1>2
    <3> QED BY <1>2, <3>1
  <2>2. Left' = {x \in Vertex : ~(pos[x] < at + 1)}
    BY <1>1 DEF Left, Peeled
  <2>3. Left = {x \in Vertex : ~(pos[x] < at)} /\ ~(pos[v] < at)
    BY <1>2 DEF Left, Peeled
  <2> QED BY <1>2, <2>1, <2>2, <2>3
<1>4. Level' = deg[v]
  BY <1>1, <1>2 DEF Level
<1>5. \A x, S : Within(x, S)' = Within(x, S)
  BY <1>1 DEF Within, Adjacent
<1>6. Done = Adjacent[v]
  <2>1. ori_adj[v] \in Seq(Vertex) /\ nth \in Nat /\ nth > Len(ori_adj[v])
    <3>1. ori_adj[v] \in Seq(Vertex) /\ nth \in Nat
      BY <1>2 DEF IInv, TypeOK
    <3>2. Len(ori_adj[v]) \in Nat /\ ~(nth <= Len(ori_adj[v]))
      BY <1>1, <3>1 DEF HasNext
    <3> QED BY <3>1, <3>2
  <2>2. \A m \in DOMAIN ori_adj[v] : m < nth
    BY <2>1
  <2> QED BY <1>2, <2>2 DEF Done, Adjacent, Range
<1>7. ASSUME NEW x \in Left \ {v}
      PROVE  /\ x \in Vertex /\ Within(x, Left \ {v}) \in Nat
             /\ deg[x] = Above(deg[v], Within(x, Left \ {v}))
  <2>1. x \in Vertex /\ deg[x] = Above(deg[v], Within(x, Remaining(x)))
    BY <1>1, <1>7 DEF Lag, Left
  <2>2. Within(x, Left \ {v}) \in Nat
    BY <2>1, WithinFacts DEF Left
  <2>3. CASE x \in Done
    BY <2>1, <2>2, <2>3 DEF Remaining
  <2>4. CASE x \notin Done
    <3>1. v \notin Adjacent[x]
      BY <1>2, <1>6, <2>1, <2>4, BothWays
    <3>2. Within(x, Left \ {v}) = Within(x, Left)
      BY <2>1, <3>1, WithinFacts DEF Left
    <3> QED BY <2>1, <2>2, <2>4, <3>2 DEF Remaining
  <2> QED BY <2>3, <2>4
<1>8. ASSUME Peeling' PROVE at + 1 \in Vertex /\ w \in Vertex /\ pos[w] = at + 1
  <2>1. at + 1 < N /\ N \in Nat
    BY <1>1, <1>8, CoreAssumption DEF Peeling
  <2>2. at + 1 \in Vertex
    BY <1>2, <2>1 DEF Vertex
  <2> QED BY <2>2, Ranges DEF IInv, PlacesAgree
<1> SUFFICES ASSUME Peeling'
             PROVE  /\ deg[w] = Above(deg[v], Within(w, Left \ {v}))
                    /\ \A x \in Left \ {v, w} : deg[x] = Above(deg[w], Within(x, Left \ {v}))
                    /\ \A x \in Left \ {v} : deg[w] <= Above(deg[v], Within(x, Left \ {v}))
  <2>1. ASSUME Peeling' PROVE Done' = {}
    <3>1. ori_adj[w] \in Seq(Vertex)
      BY <1>8, <2>1 DEF IInv, TypeOK
    <3>2. \A m \in DOMAIN ori_adj[w] : ~(m < 1)
      BY <3>1
    <3>3. Done' = {ori_adj[w][n] : n \in {m \in DOMAIN ori_adj[w] : m < 1}}
      BY <1>1 DEF Done
    <3> QED BY <3>2, <3>3
  <2> QED BY <1>1, <1>3, <1>4, <1>5, <2>1 DEF Lag, Above, Remaining
<1>9. at + 1 \in Vertex /\ w \in Vertex /\ w \in Left \ {v} /\ deg[w] \in Nat
  <2>1. ~(at + 1 < at) /\ at + 1 # at
    BY <1>2
  <2> QED BY <1>2, <1>8, <2>1 DEF Left, Peeled
<1>10. ASSUME NEW x \in Left \ {v} PROVE deg[w] <= deg[x]
  <2>1. x \in Vertex /\ ~(pos[x] < at) /\ pos[x] # at
    BY <1>2, <1>10 DEF Left, Peeled
  <2>2. at + 1 <= pos[x] /\ pos[x] \in Vertex
    BY <1>2, <2>1
  <2>3. deg[w] <= deg[vert[pos[x]]]
    BY <1>1, <1>9, <2>2, Ascending
  <2> QED BY <1>2, <2>1, <2>3
<1>11. ASSUME NEW x \in Left \ {v, w}
       PROVE  deg[x] = Above(deg[w], Within(x, Left \ {v}))
  <2>1. x \in Vertex /\ deg[x] = Above(deg[v], Within(x, Left \ {v})) /\ deg[w] <= deg[x]
        /\ Within(x, Left \ {v}) \in Nat
    BY <1>7, <1>10, <1>11
  <2>2. deg[v] <= deg[w] /\ deg[x] \in Nat /\ deg[v] \in Nat
    <3>1. deg[w] = Above(deg[v], Within(w, Left \ {v})) /\ Within(w, Left \ {v}) \in Nat
      BY <1>7, <1>9
    <3>2. deg[v] \in Nat /\ deg[x] \in Nat /\ deg[w] \in Nat
      BY <1>2, <1>9, <2>1
    <3> QED BY <3>1, <3>2 DEF Above
  <2> QED BY <1>9, <2>1, <2>2 DEF Above
<1>12. ASSUME NEW x \in Left \ {v} PROVE deg[w] <= Above(deg[v], Within(x, Left \ {v}))
  BY <1>7, <1>10, <1>12
<1> QED BY <1>7, <1>9, <1>11, <1>12

LEMMA NextLag == ASSUME Simple, IInv, Lag, [Next]_vars PROVE Lag'
<1>1. ASSUME Lower PROVE Lag'
  BY <1>1, LowerLag
<1>2. ASSUME Pass PROVE Lag'
  BY <1>2, PassLag
<1>3. ASSUME NextVertex PROVE Lag'
  BY <1>3, NextVertexLag
<1>4. ASSUME Finish PROVE Lag'
  BY <1>4 DEF Finish, Lag, Peeling
<1>5. ASSUME UNCHANGED vars PROVE Lag'
  BY <1>5 DEF vars, Lag, Peeling, Left, Peeled, Level, Within, Adjacent, Remaining, Done, Above
<1> QED BY <1>1, <1>2, <1>3, <1>4, <1>5 DEF Next, Terminated

-----------------------------------------------------------------------------
(* The steps of the decomposition as Peeling sees them: ending the list of *)
(* a vertex takes that vertex away, the others change nothing it tells.    *)
Coreness == [v \in Vertex |-> IF Peeled(v) THEN deg[v] ELSE -1]

LEMMA Instances ==
  \A S : Abstract!Cardinality(S) = Cardinality(S)
BY DEF Cardinality, IsFiniteSet, Abstract!Cardinality, Abstract!IsFiniteSet

(* The instance of Peeling counts as this module does.                     *)
LEMMA Counts ==
  /\ \A v \in Vertex : \A S : Abstract!Within(v, S) = Within(v, S)
  /\ \A m, n : Abstract!AtLeast(m, n) = Above(m, n)
<1>1. \A v, S : Abstract!Within(v, S)
                  = Cardinality([x \in Vertex |-> Range(ori_adj[x])][v] \cap S)
  BY Instances DEF Abstract!Within
<1>2. \A v \in Vertex : \A S : Abstract!Within(v, S) = Within(v, S)
  BY <1>1 DEF Within, Adjacent
<1>3. \A m, n : Abstract!AtLeast(m, n) = Above(m, n)
  BY DEF Abstract!AtLeast, Above
<1> QED BY <1>2, <1>3

LEMMA InitPeels == ASSUME Simple, Init PROVE Abstract!Init
<1>1. IInv /\ at = 0
  BY InitInv DEF Init
<1>2. \A v \in Vertex : ~Peeled(v)
  <2>1. \A v \in Vertex : pos[v] \in Nat
    BY <1>1, Ranges
  <2> QED BY <1>1, <2>1 DEF Peeled
<1>3. /\ Adjacent \in [Vertex -> SUBSET Vertex]
      /\ \A u, v \in Vertex : u \in Adjacent[v] => v \in Adjacent[u]
  BY <1>1, BothWays DEF Adjacent
<1>4. Left = Vertex /\ Level = 0 /\ Coreness = [v \in Vertex |-> -1]
  BY <1>1, <1>2 DEF Left, Level, Coreness
<1> QED BY <1>3, <1>4 DEF Abstract!Init, Adjacent, Left, Level, Coreness

LEMMA NextVertexPeels ==
  ASSUME Simple, IInv, Lag, NextVertex, NEW v \in Vertex, v = vert[at]
  PROVE  Abstract!Peel(v)
<1>1. /\ Peeling /\ at' = at + 1
      /\ UNCHANGED <<ori_adj, deg, vert, pos, bin, core_list>>
  BY DEF NextVertex, Following
<1>2. /\ v \in Vertex /\ at \in Nat /\ pos[v] = at
      /\ \A x \in Vertex : pos[x] \in Nat /\ vert[pos[x]] = x
  BY <1>1, Ranges DEF IInv, PlacesAgree
<1>3. \A x \in Vertex : Peeled(x)' <=> Peeled(x) \/ x = v
  <2>1. ASSUME NEW x \in Vertex PROVE pos[x] < at + 1 <=> pos[x] < at \/ x = v
    <3>1. pos[x] = at <=> x = v
      BY <1>2
    <3> QED BY <1>2, <3>1
  <2> QED BY <1>1, <2>1 DEF Peeled
<1>4. ~Peeled(v)
  BY <1>2 DEF Peeled
<1>5. /\ v \in Left /\ Left' = Left \ {v} /\ Level' = deg[v] /\ Adjacent' = Adjacent
      /\ Coreness' = [Coreness EXCEPT ![v] = deg[v]]
  <2>1. Level' = deg[v]
    BY <1>1, <1>2 DEF Level
  <2>2. v \in Left /\ Left' = Left \ {v} /\ Adjacent' = Adjacent
    BY <1>1, <1>2, <1>3, <1>4 DEF Left, Adjacent
  <2>3. \A x \in Vertex : (IF Peeled(x)' THEN deg'[x] ELSE -1)
                            = IF x = v THEN deg[v] ELSE Coreness[x]
    BY <1>1, <1>3 DEF Coreness
  <2> QED BY <1>2, <2>1, <2>2, <2>3 DEF Coreness
<1>6. /\ Level' = Above(Level, Within(v, Left))
      /\ \A u \in Left : Level' <= Above(Level, Within(u, Left))
  BY <1>1, <1>5 DEF Lag
<1>7. /\ Level' = Abstract!AtLeast(Level, Abstract!Within(v, Left))
      /\ \A u \in Left : Level' <= Abstract!AtLeast(Level, Abstract!Within(u, Left))
  BY <1>6, Counts DEF Left
<1>8. Coreness' = [Coreness EXCEPT ![v] = Level']
  BY <1>5
<1> QED BY <1>5, <1>7, <1>8 DEF Abstract!Peel, Left, Level, Adjacent, Coreness

LEMMA NextPeels ==
  ASSUME Simple, IInv, Lag, [Next]_vars PROVE [Abstract!Next]_(Abstract!vars)
<1>1. CASE NextVertex
  <2>1. PICK v \in Vertex : v = vert[at]
    BY <1>1, Ranges DEF NextVertex
  <2>2. Abstract!Peel(v)
    BY <1>1, <2>1, NextVertexPeels
  <2> QED BY <2>2 DEF Abstract!Next
<1>2. CASE Lower
  <2>1. Left' = Left
    BY <1>2, LowerKeeps
  <2>2. Level' = Level
    BY <1>2, LowerKeeps
  <2>3. ori_adj' = ori_adj /\ deg' = [deg EXCEPT ![Neighbour] = deg[Neighbour] - 1]
    BY <1>2, Exchange
  <2>4. Neighbour \in Left
    BY <1>2, LowerKeeps
  <2>5. \A x \in Vertex : Peeled(x)' <=> Peeled(x)
    BY <2>1 DEF Left
  <2>6. \A x \in Vertex : Peeled(x) => deg'[x] = deg[x]
    BY <2>3, <2>4 DEF Left, IInv, TypeOK
  <2>7. Coreness' = Coreness
    BY <2>5, <2>6 DEF Coreness
  <2>8. Adjacent' = Adjacent
    BY <2>3 DEF Adjacent
  <2> QED BY <2>1, <2>2, <2>7, <2>8 DEF Abstract!vars, Left, Level, Coreness, Adjacent
<1>3. CASE Pass \/ Finish \/ UNCHANGED vars
  <2>1. UNCHANGED <<ori_adj, deg, vert, pos, at>>
    BY <1>3 DEF Pass, Finish, vars
  <2> QED BY <2>1 DEF Abstract!vars, Peeled
<1> QED BY <1>1, <1>2, <1>3 DEF Next, Terminated

(* The decomposition of a simple graph is a peeling: Peels.                *)
THEOREM Refinement == ASSUME Simple PROVE Spec => Peels
<1>1. Init => Abstract!Init
  BY InitPeels
<1>2. IInv /\ Lag /\ [Next]_vars => [Abstract!Next]_(Abstract!vars)
  BY NextPeels
<1>3. Init => Lag
  BY InitLag
<1>4. IInv /\ Lag /\ [Next]_vars => Lag'
  BY NextLag
<1> QED BY <1>1, <1>2, <1>3, <1>4, Invariant, PTL DEF Spec, Peels, Abstract!Spec

-----------------------------------------------------------------------------
(* The vertices left and those of coreness c or more: the vertices that    *)
(* may still be in the c-core.                                             *)
AtLevel(c) == {v \in Vertex : Coreness[v] >= c}
Open(c) == Left \cup AtLevel(c)
Dense(S, c) == \A v \in S : Within(v, S) >= c

(* What is known of the graph while it is peeled: coreness never falls,    *)
(* no dense set has lost a vertex at a lower level, and up to the level,   *)
(* what is left completes the vertices taken away to a dense set.          *)
PeelTypeOK ==
  /\ Adjacent \in [Vertex -> SUBSET Vertex]
  /\ Left \subseteq Vertex /\ Level \in Nat
  /\ Coreness \in [Vertex -> Nat \cup {-1}]
  /\ \A v \in Vertex : v \in Left <=> Coreness[v] = -1
PeelInv ==
  /\ PeelTypeOK
  /\ \A v \in Vertex : Coreness[v] <= Level
  /\ \A c \in Nat : \A S \in SUBSET Vertex :
       Dense(S, c) => \A v \in S \ Left : Coreness[v] >= c
  /\ \A c \in 0 .. Level : Dense(Open(c), c)

LEMMA WithinGrows ==
  ASSUME PeelTypeOK, NEW v \in Vertex, NEW S \in SUBSET Vertex, NEW T \in SUBSET Vertex,
         S \subseteq T
  PROVE  Within(v, S) \in Nat /\ Within(v, T) \in Nat /\ Within(v, S) <= Within(v, T)
<1>1. Adjacent[v] \cap T \in SUBSET Vertex /\ Adjacent[v] \cap S \in SUBSET (Adjacent[v] \cap T)
  BY DEF PeelTypeOK
<1>2. IsFiniteSet(Adjacent[v] \cap T) /\ IsFiniteSet(Adjacent[v] \cap S)
  BY <1>1, Vertices, FS_Subset
<1> QED BY <1>1, <1>2, FS_Subset, FS_CardinalityType DEF Within

LEMMA InitPeelInv == ASSUME Abstract!Init PROVE PeelInv
<1>1. /\ Adjacent \in [Vertex -> SUBSET Vertex] /\ Left = Vertex /\ Level = 0
      /\ Coreness = [v \in Vertex |-> -1]
  BY DEF Abstract!Init, Adjacent, Left, Level, Coreness
<1>2. PeelTypeOK
  BY <1>1 DEF PeelTypeOK
<1>3. ASSUME NEW c \in 0 .. Level PROVE Dense(Open(c), c)
  <2>1. c = 0 /\ Open(c) = Vertex
    BY <1>1 DEF Open, AtLevel
  <2> QED BY <1>2, <2>1, WithinGrows DEF Dense
<1> QED BY <1>1, <1>2, <1>3 DEF PeelInv

LEMMA NextPeelInv ==
  ASSUME PeelInv, NEW v \in Vertex, Abstract!Peel(v) PROVE PeelInv'
<1> DEFINE m == Above(Level, Within(v, Left))
<1>1. /\ PeelTypeOK /\ Left \in SUBSET Vertex /\ Level \in Nat
      /\ \A u \in Vertex : Coreness[u] \in Nat \cup {-1}
  BY DEF PeelInv, PeelTypeOK
<1>2. \A u \in Vertex : Within(u, Left) \in Nat
  BY <1>1, WithinGrows
<1>3. m \in Nat /\ m >= Level /\ m >= Within(v, Left)
  BY <1>1, <1>2 DEF Above
<1>4. /\ Level' = m /\ Left' = Left \ {v} /\ Adjacent' = Adjacent
      /\ Coreness' = [Coreness EXCEPT ![v] = m]
      /\ v \in Left /\ \A u \in Left : m <= Above(Level, Within(u, Left))
  <2>1. /\ v \in Left /\ Level' = Abstract!AtLeast(Level, Abstract!Within(v, Left))
        /\ \A u \in Left : Level' <= Abstract!AtLeast(Level, Abstract!Within(u, Left))
        /\ Left' = Left \ {v} /\ Coreness' = [Coreness EXCEPT ![v] = Level']
        /\ Adjacent' = Adjacent
    BY DEF Abstract!Peel, Left, Level, Adjacent, Coreness
  <2> QED BY <1>1, <2>1, Counts
<1>5. /\ Coreness'[v] = m
      /\ \A u \in Vertex \ {v} : Coreness'[u] = Coreness[u]
  BY <1>1, <1>4 DEF PeelTypeOK
<1>6. PeelTypeOK'
  BY <1>1, <1>3, <1>4, <1>5 DEF PeelTypeOK
<1>7. \A S, c : Dense(S, c)' <=> Dense(S, c)
  BY <1>4 DEF Dense, Within
<1>8. ASSUME NEW u \in Vertex PROVE Coreness'[u] <= Level'
  BY <1>1, <1>3, <1>4, <1>5 DEF PeelInv
<1>9. ASSUME NEW c \in Nat, NEW S \in SUBSET Vertex, Dense(S, c), NEW u \in S \ Left'
      PROVE  Coreness'[u] >= c
  <2>1. CASE u # v
    BY <1>4, <1>5, <1>9, <2>1 DEF PeelInv
  <2>2. CASE u = v /\ S \subseteq Left
    <3>1. Within(v, S) <= Within(v, Left) /\ Within(v, S) >= c /\ Within(v, S) \in Nat
      BY <1>1, <1>9, <2>2, WithinGrows DEF Dense
    <3> QED BY <1>2, <1>3, <1>5, <2>2, <3>1
  <2>3. CASE ~(S \subseteq Left)
    <3>1. PICK w \in S \ Left : Coreness[w] >= c
      BY <1>9, <2>3 DEF PeelInv
    <3>2. Level >= c
      BY <1>1, <3>1 DEF PeelInv
    <3> QED BY <1>1, <1>3, <1>5, <2>1, <3>2
  <2> QED BY <2>1, <2>2, <2>3
<1>10. ASSUME NEW c \in 0 .. m PROVE Dense(Open(c)', c)
  <2>1. CASE c <= Level
    <3>1. Open(c)' = Open(c)
      BY <1>1, <1>3, <1>4, <1>5, <2>1 DEF Open, AtLevel
    <3> QED BY <1>1, <2>1, <3>1 DEF PeelInv
  <2>2. CASE c > Level
    <3>1. \A u \in Vertex \ {v} : ~(Coreness[u] >= c)
      BY <1>1, <2>2 DEF PeelInv
    <3>2. Open(c)' = Left
      BY <1>1, <1>3, <1>4, <1>5, <3>1 DEF Open, AtLevel
    <3>3. ASSUME NEW u \in Left PROVE Within(u, Left) >= c
      BY <1>1, <1>2, <1>3, <1>4, <2>2 DEF Above
    <3> QED BY <3>2, <3>3 DEF Dense
  <2> QED BY <1>1, <2>1, <2>2
<1> QED BY <1>4, <1>6, <1>7, <1>8, <1>9, <1>10 DEF PeelInv

LEMMA PeelInvExact ==
  ASSUME PeelInv, Left = {}
  PROVE  /\ \A c \in Nat : Dense(AtLevel(c), c)
         /\ \A c \in Nat : \A S \in SUBSET Vertex : Dense(S, c) => S \subseteq AtLevel(c)
<1>1. ASSUME NEW c \in Nat PROVE Dense(AtLevel(c), c)
  <2>1. CASE c <= Level
    BY <2>1 DEF PeelInv, PeelTypeOK, Open
  <2>2. CASE c > Level
    BY <2>2 DEF PeelInv, PeelTypeOK, AtLevel, Dense
  <2> QED BY <2>1, <2>2 DEF PeelInv, PeelTypeOK
<1>2. ASSUME NEW c \in Nat, NEW S \in SUBSET Vertex, Dense(S, c) PROVE S \subseteq AtLevel(c)
  BY <1>2 DEF PeelInv, AtLevel
<1> QED BY <1>1, <1>2

(* Any peeling, whatever makes its steps, gives every vertex its coreness. *)
THEOREM PeelingExact == Abstract!Spec => []Abstract!Exact
<1>1. Abstract!Init => PeelInv
  BY InitPeelInv
<1>2. PeelInv /\ [Abstract!Next]_(Abstract!vars) => PeelInv'
  <2>1. ASSUME PeelInv, UNCHANGED Abstract!vars PROVE PeelInv'
    <3>1. /\ Adjacent' = Adjacent /\ Left' = Left /\ Level' = Level
          /\ Coreness' = Coreness
      BY <2>1 DEF Abstract!vars, Adjacent, Left, Level, Coreness
    <3> QED BY <2>1, <3>1 DEF PeelInv, PeelTypeOK, Dense, Within, Open, AtLevel
  <2> QED BY <2>1, NextPeelInv DEF Abstract!Next
<1>3. PeelInv => Abstract!Exact
  <2> SUFFICES ASSUME PeelInv, Left = {} PROVE Abstract!Exact
    BY DEF Abstract!Exact, Left
  <2>1. \A c : Abstract!Core(c) = AtLevel(c) /\ AtLevel(c) \subseteq Vertex
    BY DEF Abstract!Core, AtLevel, Coreness
  <2>2. \A S \in SUBSET Vertex : \A c : Abstract!Dense(S, c) <=> Dense(S, c)
    BY Counts DEF Abstract!Dense, Dense
  <2> QED BY <2>1, <2>2, PeelInvExact DEF Abstract!Exact
<1> QED BY <1>1, <1>2, <1>3, PTL DEF Abstract!Spec

(* The result of the decomposition of a simple graph is the coreness of    *)
(* every vertex: Exact.                                                    *)
THEOREM ExactCorrect == ASSUME Simple PROVE Spec => []Exact
<1>1. IInv /\ Abstract!Exact => Exact
  <2> SUFFICES ASSUME IInv, Abstract!Exact, Returned PROVE Exact
    BY DEF Exact
  <2>1. at = N /\ core_list = deg
    BY Ranges DEF Returned, Peeling, IInv, Published
  <2>2. \A v \in Vertex : Peeled(v)
    BY <2>1, Ranges DEF Peeled
  <2>3. Left = {} /\ \A c : Abstract!Core(c) = Core(c)
    BY <2>1, <2>2 DEF Left, Abstract!Core, Core
  <2>4. /\ \A c \in Nat : Abstract!Dense(Core(c), c)
        /\ \A c \in Nat : \A S \in SUBSET Vertex : Abstract!Dense(S, c) => S \subseteq Core(c)
    BY <2>3 DEF Abstract!Exact, Left
  <2>5. DOMAIN bin \subseteq Nat
    BY Ranges
  <2> QED BY <2>4, <2>5 DEF Exact
<1> QED BY <1>1, Refinement, PeelingExact, Invariant, PTL DEF Peels

-----------------------------------------------------------------------------
(* A finite set in increasing order.                                       *)
LEMMA OrderFacts ==
  ASSUME NEW S \in SUBSET Nat, IsFiniteSet(S)
  PROVE  /\ Cardinality(S) \in Nat
         /\ \A n \in 1 .. Cardinality(S) : InOrder(S)[n] \in S
         /\ \A x \in S : \E n \in 1 .. Cardinality(S) : InOrder(S)[n] = x
         /\ \A m, n \in 1 .. Cardinality(S) : m < n => InOrder(S)[m] < InOrder(S)[n]
<1> DEFINE K == Cardinality(S)
           below(x) == {y \in S : y < x}
           rank == [x \in S |-> Cardinality(below(x))]
<1>1. K \in Nat
  BY FS_CardinalityType
<1>2. ASSUME NEW x \in S, NEW T \in SUBSET S, below(x) \subseteq T, T # below(x)
      PROVE  Cardinality(below(x)) < Cardinality(T) /\ Cardinality(below(x)) \in Nat
             /\ Cardinality(T) \in Nat
  <2>1. IsFiniteSet(T)
    BY FS_Subset
  <2>2. IsFiniteSet(below(x)) /\ Cardinality(below(x)) <= Cardinality(T)
        /\ (Cardinality(below(x)) = Cardinality(T) => below(x) = T)
    BY <1>2, <2>1, FS_Subset
  <2>3. Cardinality(below(x)) \in Nat /\ Cardinality(T) \in Nat
    BY <2>1, <2>2, FS_CardinalityType
  <2> QED BY <1>2, <2>2, <2>3
<1>3. ASSUME NEW x \in S PROVE rank[x] \in 0 .. K - 1
  <2>1. below(x) \subseteq S /\ x \notin below(x)
    OBVIOUS
  <2>2. Cardinality(below(x)) < K /\ Cardinality(below(x)) \in Nat
    BY <1>2, <2>1
  <2> QED BY <1>1, <2>2
<1>4. ASSUME NEW x \in S, NEW y \in S, x < y PROVE rank[x] < rank[y]
  <2>1. x \in Nat /\ y \in Nat
    OBVIOUS
  <2>2. x \in below(y) /\ x \notin below(x)
    BY <1>4, <2>1
  <2>3. ASSUME NEW z \in below(x) PROVE z \in below(y)
    <3>1. z \in S /\ z \in Nat /\ z < x
      OBVIOUS
    <3> QED BY <1>4, <2>1, <3>1
  <2>4. below(x) \subseteq below(y) /\ below(y) \subseteq S /\ below(y) # below(x)
    BY <2>2, <2>3
  <2>5. Cardinality(below(x)) < Cardinality(below(y))
    BY <1>2, <2>4
  <2> QED BY <2>5
<1>5. ASSUME NEW x \in S, NEW y \in S, rank[x] = rank[y] PROVE x = y
  <2>1. rank[x] \in Nat
    BY <1>1, <1>3
  <2>2. ~(x < y) /\ ~(y < x)
    BY <1>4, <1>5, <2>1
  <2> QED BY <2>2
<1>6. rank \in Injection(S, 0 .. K - 1)
  BY <1>3, <1>5 DEF Injection, IsInjective
<1>7. IsFiniteSet(0 .. K - 1) /\ Cardinality(0 .. K - 1) = K
  <2>1. IsFiniteSet(0 .. K - 1) /\ Cardinality(0 .. K - 1) = IF 0 > K - 1 THEN 0 ELSE (K - 1) - 0 + 1
    BY <1>1, FS_Interval
  <2> QED BY <1>1, <2>1
<1>8. rank \in Surjection(S, 0 .. K - 1)
  BY <1>6, <1>7, FS_Injection
<1>9. ASSUME NEW n \in 1 .. K
      PROVE  InOrder(S)[n] \in S /\ rank[InOrder(S)[n]] = n - 1
  <2>1. n - 1 \in 0 .. K - 1
    BY <1>1
  <2>2. \E x \in S : Cardinality(below(x)) = n - 1
    BY <1>8, <2>1 DEF Surjection
  <2>3. InOrder(S)[n] = CHOOSE x \in S : Cardinality({y \in S : y < x}) = n - 1
    BY DEF InOrder
  <2> QED BY <2>2, <2>3
<1>10. ASSUME NEW x \in S PROVE \E n \in 1 .. K : InOrder(S)[n] = x
  <2>1. rank[x] + 1 \in 1 .. K /\ (rank[x] + 1) - 1 = rank[x]
    BY <1>1, <1>3
  <2> QED BY <1>5, <1>9, <2>1
<1>11. ASSUME NEW m \in 1 .. K, NEW n \in 1 .. K, m < n
       PROVE  InOrder(S)[m] < InOrder(S)[n]
  <2>2. InOrder(S)[m] \in Nat /\ InOrder(S)[n] \in Nat
    BY <1>9
  <2>3. rank[InOrder(S)[m]] = m - 1 /\ rank[InOrder(S)[n]] = n - 1
    BY <1>9
  <2>4. InOrder(S)[m] # InOrder(S)[n]
    <3> HIDE DEF rank
    <3> QED BY <1>11, <2>3
  <2>5. ~(InOrder(S)[n] < InOrder(S)[m])
    <3>1. SUFFICES ASSUME InOrder(S)[n] < InOrder(S)[m] PROVE FALSE
      OBVIOUS
    <3>2. rank[InOrder(S)[n]] < rank[InOrder(S)[m]]
      BY ONLY <1>4, <1>9, <3>1
    <3> HIDE DEF rank
    <3> QED BY <1>11, <2>3, <3>2
  <2> QED BY <2>2, <2>4, <2>5
<1> HIDE DEF rank
<1> QED BY <1>1, <1>9, <1>10, <1>11

-----------------------------------------------------------------------------
(* The parts of an id say where it is.                                     *)
LEMMA Product ==
  ASSUME NEW a \in Nat, NEW b \in Nat, NEW c \in Nat, a < b
  PROVE  c * a + c <= c * b
<1>1. PICK k \in Nat : b = a + 1 + k
  <2>1. b - (a + 1) \in Nat /\ b = a + 1 + (b - (a + 1))
    OBVIOUS
  <2> QED BY <2>1
<1>2. c * b = c * a + c + c * k /\ c * k \in Nat
  BY <1>1
<1>3. c * a \in Nat
  OBVIOUS
<1> QED BY <1>2, <1>3

LEMMA Division ==
  ASSUME NEW x \in Nat, NEW b \in Nat \ {0}
  PROVE  /\ x \div b \in Nat /\ x % b \in 0 .. b - 1
         /\ x = b * (x \div b) + (x % b)
  OBVIOUS

LEMMA Quotients ==
  ASSUME NEW x \in Nat, NEW y \in Nat, NEW b \in Nat \ {0}, x <= y
  PROVE  x \div b <= y \div b
<1> DEFINE p == x \div b
           q == y \div b
           r == x % b
           s == y % b
<1>1. p \in Nat /\ q \in Nat /\ r \in 0 .. b - 1 /\ s \in 0 .. b - 1
  BY Division
<1>2. x = b * p + r /\ y = b * q + s
  BY Division
<1> HIDE DEF p, q, r, s
<1>3. SUFFICES ASSUME q < p PROVE FALSE
  BY <1>1 DEF p, q
<1>4. b * q + b <= b * p
  BY <1>1, <1>3, Product
<1>5. b * q \in Nat /\ b * p \in Nat
  BY <1>1
<1> QED BY <1>1, <1>2, <1>4, <1>5

LEMMA Parts ==
  ASSUME NEW x \in Nat
  PROVE  Cal_idx1(x) \in Nat /\ Cal_idx2(x) \in Nat /\ Cal_idx3(x) \in Nat
<1>1. MACHINE_WORDSZ \in Nat \ {0} /\ PACKSZ * MACHINE_WORDSZ \in Nat \ {0}
  BY WidthAssumption
<1> DEFINE B == PACKSZ * MACHINE_WORDSZ
           W == MACHINE_WORDSZ
<1> HIDE DEF B, W
<1>2. W \in Nat \ {0} /\ B \in Nat \ {0}
  BY <1>1 DEF B, W
<1>3. x \div B \in Nat /\ x % B \in Nat /\ x % W \in Nat
  BY <1>2, Division
<1>4. (x % B) \div W \in Nat
  BY <1>2, <1>3, Division
<1> QED BY <1>3, <1>4 DEF Cal_idx1, Cal_idx2, Cal_idx3, B, W

LEMMA PartsGrow ==
  ASSUME NEW x \in Nat, NEW y \in Nat, x <= y
  PROVE  /\ Cal_idx1(x) <= Cal_idx1(y)
         /\ Cal_idx1(x) = Cal_idx1(y) => Cal_idx2(x) <= Cal_idx2(y)
<1> DEFINE B == PACKSZ * MACHINE_WORDSZ
<1>1. MACHINE_WORDSZ \in Nat \ {0} /\ B \in Nat \ {0}
  BY WidthAssumption
<1> HIDE DEF B
<1>2. x \div B <= y \div B
  BY <1>1, Quotients
<1>3. ASSUME x \div B = y \div B
      PROVE  (x % B) \div MACHINE_WORDSZ <= (y % B) \div MACHINE_WORDSZ
  <2>1. x % B \in Nat /\ y % B \in Nat
    BY <1>1, Division
  <2>2. x = B * (x \div B) + (x % B) /\ x \div B \in Nat
    BY <1>1, Division
  <2>3. y = B * (x \div B) + (y % B)
    BY <1>1, <1>3, Division
  <2>4. B * (x \div B) \in Nat
    BY <1>1, <2>2
  <2>5. x % B <= y % B
    BY <2>1, <2>2, <2>3, <2>4
  <2> QED BY <1>1, <2>1, <2>5, Quotients
<1> QED BY <1>2, <1>3 DEF Cal_idx1, Cal_idx2, B

LEMMA PartsTell ==
  ASSUME NEW x \in Nat, NEW y \in Nat, Cal_idx1(x) = Cal_idx1(y),
         Cal_idx2(x) = Cal_idx2(y), Cal_idx3(x) = Cal_idx3(y)
  PROVE  x = y
<1> DEFINE W == MACHINE_WORDSZ
           B == PACKSZ * W
           u == x % B
           v == y % B
           d == x \div B
           e == u \div W
           f == x \div W
           g == y \div W
           r == x % W
           s == u % W
           t == v % W
<1>1. W \in Nat \ {0} /\ B \in Nat \ {0} /\ PACKSZ \in Nat
  BY WidthAssumption
<1>2. y \div B = d /\ v \div W = e /\ y % W = r
  BY DEF Cal_idx1, Cal_idx2, Cal_idx3
<1>3. B = W * PACKSZ
  BY WidthAssumption
<1> HIDE DEF B, W
<1>4. d \in Nat /\ u \in Nat /\ v \in Nat /\ x = B * d + u /\ y = B * d + v
  <2>1. d \in Nat /\ u \in 0 .. B - 1 /\ x = B * d + u
    BY <1>1, Division
  <2>2. v \in 0 .. B - 1 /\ y = B * (y \div B) + v
    BY <1>1, Division
  <2> HIDE DEF d, u, v
  <2> QED BY <1>1, <1>2, <2>1, <2>2
<1>5. f \in Nat /\ g \in Nat /\ r \in 0 .. W - 1 /\ x = W * f + r /\ y = W * g + r
  BY <1>1, <1>2, Division
<1> HIDE DEF u, v
<1>6. e \in Nat /\ s \in 0 .. W - 1 /\ t \in 0 .. W - 1 /\ u = W * e + s /\ v = W * e + t
  BY <1>1, <1>2, <1>4, Division
<1> HIDE DEF d, e, f, g, r, s, t
<1> DEFINE h == PACKSZ * d + e
<1>7. h \in Nat /\ x = W * h + s /\ y = W * h + t
  <2>1. PACKSZ * d \in Nat
    BY <1>1, <1>4
  <2>2. B * d = W * (PACKSZ * d)
    BY <1>1, <1>3, <1>4
  <2>3. W * h = W * (PACKSZ * d) + W * e
    BY <1>1, <1>6, <2>1
  <2> QED BY <1>1, <1>4, <1>6, <2>1, <2>2, <2>3
<1> HIDE DEF h
<1>8. ASSUME NEW a \in Nat, NEW b \in Nat, NEW m \in 0 .. W - 1, NEW n \in 0 .. W - 1,
             W * a + m = W * b + n
      PROVE  m = n
  <2>1. W * a \in Nat /\ W * b \in Nat
    BY <1>1
  <2>2. ~(a < b)
    <3>1. a < b => W * a + W <= W * b
      BY <1>1, Product
    <3> QED BY <1>1, <1>8, <2>1, <3>1
  <2>3. ~(b < a)
    <3>1. b < a => W * b + W <= W * a
      BY <1>1, Product
    <3> QED BY <1>1, <1>8, <2>1, <3>1
  <2>4. a = b
    BY <2>2, <2>3
  <2> QED BY <1>8, <2>1, <2>4
<1>9. s = r /\ t = r
  <2>1. W * h + s = W * f + r /\ W * h + t = W * g + r
    BY <1>5, <1>7
  <2> QED BY <1>5, <1>6, <1>7, <1>8, <2>1
<1> QED BY <1>7, <1>9

-----------------------------------------------------------------------------
(* What the blocks of a list of ids hold: for every first part that occurs *)
(* a block, for every second part in it a word, at the place the number of *)
(* smaller second parts gives, with the third parts.                       *)
WordsOf(ids, i) == {Cal_idx2(x) : x \in {y \in ids : Cal_idx1(y) = i}}
WordOf(ids, i, w) == {Cal_idx3(x) : x \in {y \in ids : Cal_idx1(y) = i /\ Cal_idx2(y) = w}}

WordsKept(val, words, ids, i) ==
  \A w \in words : val[1 + Between(words, 0, w)] = WordOf(ids, i, w)

Block == [idx1 : Int, idx2 : SUBSET Nat, val : Seq(SUBSET Nat)]

HoldsBlock(b, ids) ==
  b.idx2 = WordsOf(ids, b.idx1) /\ WordsKept(b.val, b.idx2, ids, b.idx1)

PackedAs(vec, ids) ==
  /\ vec \in Seq(Block)
  /\ \A m, n \in 1 .. Len(vec) : m < n => vec[m].idx1 < vec[n].idx1
  /\ \A n \in 1 .. Len(vec) : HoldsBlock(vec[n], ids) /\ \E x \in ids : vec[n].idx1 = Cal_idx1(x)
  /\ \A x \in ids : \E n \in 1 .. Len(vec) : vec[n].idx1 = Cal_idx1(x)

(* The same of the block that is being filled, the last id of T being top. *)
Filling == [idx1 : Int, idx2 : SUBSET Nat, val : Seq(SUBSET Nat), word : SUBSET Nat,
            vec : Seq(Block)]
Unfilled == [idx1 |-> -1, idx2 |-> {}, val |-> <<>>, word |-> {}, vec |-> <<>>]

FilledTo(s, T, top) ==
  /\ \A x \in T : x <= top
  /\ s.idx1 = Cal_idx1(top) /\ s.idx2 = WordsOf(T, s.idx1)
  /\ s.word = WordOf(T, s.idx1, Cal_idx2(top))
  /\ Len(s.val) = Cardinality(s.idx2) - 1
  /\ \A w \in s.idx2 \ {Cal_idx2(top)} :
       s.val[1 + Between(s.idx2, 0, w)] = WordOf(T, s.idx1, w)
  /\ PackedAs(s.vec, {x \in T : Cal_idx1(x) < s.idx1})

Filled(s, T) ==
  /\ s \in Filling
  /\ IF T = {} THEN s = Unfilled ELSE \E top \in T : FilledTo(s, T, top)

(* What a block holds depends on the ids that belong to it.                *)
LEMMA SameWords ==
  ASSUME NEW A, NEW B, NEW i, \A x : Cal_idx1(x) = i => (x \in A <=> x \in B)
  PROVE  WordsOf(A, i) = WordsOf(B, i) /\ \A w : WordOf(A, i, w) = WordOf(B, i, w)
<1>1. {y \in A : Cal_idx1(y) = i} = {y \in B : Cal_idx1(y) = i}
  OBVIOUS
<1>2. ASSUME NEW w
      PROVE  {y \in A : Cal_idx1(y) = i /\ Cal_idx2(y) = w}
               = {y \in B : Cal_idx1(y) = i /\ Cal_idx2(y) = w}
  OBVIOUS
<1> QED BY <1>1, <1>2 DEF WordsOf, WordOf

LEMMA WordsType ==
  ASSUME NEW A \in SUBSET Nat, IsFiniteSet(A), NEW i
  PROVE  /\ WordsOf(A, i) \in SUBSET Nat /\ IsFiniteSet(WordsOf(A, i))
         /\ Cardinality(WordsOf(A, i)) \in Nat
         /\ \A w : WordOf(A, i, w) \in SUBSET Nat
<1> DEFINE B == {y \in A : Cal_idx1(y) = i}
           f == [x \in B |-> Cal_idx2(x)]
<1>1. IsFiniteSet(B) /\ B \in SUBSET Nat
  BY FS_Subset
<1>2. WordsOf(A, i) = {f[x] : x \in B}
  BY DEF WordsOf
<1>3. IsFiniteSet({f[x] : x \in B})
  BY <1>1, FiniteImage
<1>4. WordsOf(A, i) \in SUBSET Nat
  BY Parts DEF WordsOf
<1>5. \A w : WordOf(A, i, w) \in SUBSET Nat
  BY Parts DEF WordOf
<1> QED BY <1>2, <1>3, <1>4, <1>5, FS_CardinalityType

(* How many words there are before one.                                    *)
LEMMA BetweenFacts ==
  ASSUME NEW S \in SUBSET Nat, IsFiniteSet(S), NEW top \in S, \A w \in S : w <= top
  PROVE  /\ Between(S, 0, top) = Cardinality(S) - 1
         /\ \A w \in S \ {top} : Between(S, 0, w) \in Nat /\ 1 + Between(S, 0, w) < Cardinality(S)
<1>1. Cardinality(S) \in Nat /\ IsFiniteSet(S \ {top}) /\ Cardinality(S \ {top}) = Cardinality(S) - 1
  BY FS_CardinalityType, FS_RemoveElement
<1>2. {w \in S : 0 <= w /\ w < top} = S \ {top}
  <2>1. ASSUME NEW w \in S PROVE (0 <= w /\ w < top) <=> w # top
    <3>1. w \in Nat /\ top \in Nat /\ w <= top
      OBVIOUS
    <3> QED BY <3>1
  <2> QED BY <2>1
<1>3. ASSUME NEW w \in S \ {top}
      PROVE  Between(S, 0, w) \in Nat /\ 1 + Between(S, 0, w) < Cardinality(S)
  <2> DEFINE B == {v \in S : 0 <= v /\ v < w}
             C == (S \ {top}) \ {w}
  <2>1. B \subseteq C
    OBVIOUS
  <2>2. IsFiniteSet(C) /\ Cardinality(C) = Cardinality(S \ {top}) - 1
    BY <1>1, FS_RemoveElement
  <2>3. IsFiniteSet(B) /\ Cardinality(B) <= Cardinality(C)
    BY <2>1, <2>2, FS_Subset
  <2>4. Cardinality(B) \in Nat
    BY <2>3, FS_CardinalityType
  <2>5. Between(S, 0, w) = Cardinality(B)
    BY DEF Between
  <2> HIDE DEF B, C
  <2> QED BY <1>1, <2>2, <2>3, <2>4, <2>5
<1> QED BY <1>1, <1>2, <1>3 DEF Between

(* The words with the one that is being filled.                            *)
LEMMA WordClosed ==
  ASSUME NEW T \in SUBSET Nat, IsFiniteSet(T), NEW s \in Filling, NEW top \in T,
         FilledTo(s, T, top)
  PROVE  /\ s.idx2 \in SUBSET Nat /\ IsFiniteSet(s.idx2) /\ Cardinality(s.idx2) \in Nat
         /\ Cal_idx2(top) \in s.idx2 /\ \A w \in s.idx2 : w <= Cal_idx2(top)
         /\ Append(s.val, s.word) \in Seq(SUBSET Nat)
         /\ Len(Append(s.val, s.word)) = Cardinality(s.idx2)
         /\ WordsKept(Append(s.val, s.word), s.idx2, T, s.idx1)
<1> DEFINE v == Append(s.val, s.word)
           t == Cal_idx2(top)
<1>1. /\ \A x \in T : x <= top
      /\ s.idx1 = Cal_idx1(top) /\ s.idx2 = WordsOf(T, s.idx1)
      /\ s.word = WordOf(T, s.idx1, t)
      /\ Len(s.val) = Cardinality(s.idx2) - 1
      /\ \A w \in s.idx2 \ {t} : s.val[1 + Between(s.idx2, 0, w)] = WordOf(T, s.idx1, w)
  BY DEF FilledTo
<1>2. s.idx2 \in SUBSET Nat /\ IsFiniteSet(s.idx2) /\ Cardinality(s.idx2) \in Nat
  BY <1>1, WordsType
<1>3. t \in s.idx2
  BY <1>1 DEF WordsOf
<1>4. ASSUME NEW w \in s.idx2 PROVE w <= t
  <2>1. PICK x \in T : Cal_idx1(x) = s.idx1 /\ w = Cal_idx2(x)
    BY <1>1 DEF WordsOf
  <2> QED BY <1>1, <2>1, PartsGrow
<1>5. s.val \in Seq(SUBSET Nat) /\ s.word \in SUBSET Nat
  BY DEF Filling
<1>6. v \in Seq(SUBSET Nat) /\ Len(v) = Len(s.val) + 1 /\ v[Len(s.val) + 1] = s.word
      /\ \A n \in 1 .. Len(s.val) : v[n] = s.val[n]
  BY <1>5
<1>7. ASSUME NEW w \in s.idx2 PROVE v[1 + Between(s.idx2, 0, w)] = WordOf(T, s.idx1, w)
  <2>1. CASE w = t
    <3>1. Between(s.idx2, 0, w) = Cardinality(s.idx2) - 1
      BY <1>2, <1>3, <1>4, <2>1, BetweenFacts
    <3>2. 1 + Between(s.idx2, 0, w) = Len(s.val) + 1
      BY <1>1, <1>2, <3>1
    <3> QED BY <1>1, <1>6, <2>1, <3>2
  <2>2. CASE w # t
    <3>1. Between(s.idx2, 0, w) \in Nat /\ 1 + Between(s.idx2, 0, w) < Cardinality(s.idx2)
      BY <1>2, <1>3, <1>4, <2>2, BetweenFacts
    <3>2. 1 + Between(s.idx2, 0, w) \in 1 .. Len(s.val)
      BY <1>1, <1>2, <3>1
    <3> QED BY <1>1, <1>6, <2>2, <3>2
  <2> QED BY <2>1, <2>2
<1>8. Len(v) = Cardinality(s.idx2)
  BY <1>1, <1>2, <1>6
<1> HIDE DEF v, t
<1> QED BY <1>2, <1>3, <1>4, <1>6, <1>7, <1>8 DEF WordsKept, v, t

LEMMA SameBlock ==
  ASSUME NEW A, NEW B, NEW b, HoldsBlock(b, A),
         \A x : Cal_idx1(x) = b.idx1 => (x \in A <=> x \in B)
  PROVE  HoldsBlock(b, B)
<1>1. WordsOf(A, b.idx1) = WordsOf(B, b.idx1)
      /\ \A w : WordOf(A, b.idx1, w) = WordOf(B, b.idx1, w)
  BY SameWords
<1> QED BY <1>1 DEF HoldsBlock, WordsKept

(* Closing the block gives the packed form of all ids so far.              *)
LEMMA StoredPacks ==
  ASSUME NEW T \in SUBSET Nat, IsFiniteSet(T), NEW s, Filled(s, T)
  PROVE  PackedAs(Stored(s), T)
<1>1. s \in Filling
  BY DEF Filled
<1>2. CASE T = {}
  <2>1. s = Unfilled
    BY <1>2 DEF Filled
  <2>2. Stored(s) = <<>>
    BY <2>1 DEF Stored, Unfilled
  <2> QED BY <1>2, <2>2 DEF PackedAs
<1>3. CASE T # {}
  <2>1. PICK top \in T : FilledTo(s, T, top)
    BY <1>3 DEF Filled
  <2> DEFINE low == {x \in T : Cal_idx1(x) < s.idx1}
             b == [idx1 |-> s.idx1, idx2 |-> s.idx2, val |-> Append(s.val, s.word)]
             vec == Append(s.vec, b)
  <2>2. s.idx1 = Cal_idx1(top) /\ s.idx2 = WordsOf(T, s.idx1) /\ PackedAs(s.vec, low)
        /\ (\A x \in T : x <= top) /\ s.word = WordOf(T, s.idx1, Cal_idx2(top))
    BY <2>1 DEF FilledTo
  <2>3. s.idx1 \in Nat /\ \A x \in T : Cal_idx1(x) \in Nat /\ Cal_idx1(x) <= s.idx1
    BY <2>2, Parts, PartsGrow
  <2>4. Cal_idx3(top) \in s.word
    BY <2>2 DEF WordOf
  <2>5. Stored(s) = vec
    BY <2>4 DEF Stored
  <2>6. b \in Block /\ HoldsBlock(b, T)
    <3>1. s.idx2 \in SUBSET Nat /\ Append(s.val, s.word) \in Seq(SUBSET Nat)
          /\ WordsKept(Append(s.val, s.word), s.idx2, T, s.idx1)
      BY <1>1, <2>1, WordClosed
    <3> QED BY <2>2, <2>3, <3>1 DEF Block, HoldsBlock
  <2> HIDE DEF b
  <2>7. s.vec \in Seq(Block)
    BY <2>2 DEF PackedAs
  <2>8. vec \in Seq(Block) /\ Len(vec) = Len(s.vec) + 1 /\ vec[Len(s.vec) + 1] = b
        /\ Len(s.vec) \in Nat /\ \A n \in 1 .. Len(s.vec) : vec[n] = s.vec[n]
    <3> HIDE DEF Block
    <3> QED BY <2>6, <2>7
  <2> HIDE DEF vec
  <2>9. ASSUME NEW n \in 1 .. Len(s.vec)
        PROVE  /\ HoldsBlock(vec[n], T) /\ \E x \in T : vec[n].idx1 = Cal_idx1(x)
               /\ vec[n].idx1 < s.idx1 /\ vec[n].idx1 \in Nat
    <3>1. HoldsBlock(vec[n], low) /\ \E x \in low : vec[n].idx1 = Cal_idx1(x)
      BY <2>2, <2>8 DEF PackedAs
    <3>2. PICK x \in low : vec[n].idx1 = Cal_idx1(x)
      BY <3>1
    <3>3. vec[n].idx1 < s.idx1 /\ vec[n].idx1 \in Nat
      BY <2>3, <3>2
    <3>4. HoldsBlock(vec[n], T)
      <4>1. \A y : Cal_idx1(y) = vec[n].idx1 => (y \in low <=> y \in T)
        BY <3>3
      <4> HIDE DEF low
      <4> QED BY <3>1, <4>1, SameBlock
    <3> QED BY <3>2, <3>3, <3>4
  <2>10. b.idx1 = s.idx1
    BY DEF b
  <2>11. ASSUME NEW n \in 1 .. Len(vec)
         PROVE  HoldsBlock(vec[n], T) /\ \E x \in T : vec[n].idx1 = Cal_idx1(x)
    <3>1. CASE n \in 1 .. Len(s.vec)
      BY <2>9, <3>1
    <3>2. CASE n = Len(s.vec) + 1
      BY <2>2, <2>6, <2>8, <2>10, <3>2
    <3> QED BY <2>8, <3>1, <3>2
  <2>12. ASSUME NEW m \in 1 .. Len(vec), NEW n \in 1 .. Len(vec), m < n
         PROVE  vec[m].idx1 < vec[n].idx1
    <3>1. m \in 1 .. Len(s.vec)
      BY <2>8, <2>12
    <3>2. CASE n \in 1 .. Len(s.vec)
      BY <2>2, <2>8, <2>12, <3>1, <3>2 DEF PackedAs
    <3>3. CASE n = Len(s.vec) + 1
      BY <2>8, <2>9, <2>10, <3>1, <3>3
    <3> QED BY <2>8, <3>2, <3>3
  <2>13. ASSUME NEW x \in T PROVE \E n \in 1 .. Len(vec) : vec[n].idx1 = Cal_idx1(x)
    <3>1. CASE Cal_idx1(x) < s.idx1
      <4>1. x \in low
        BY <3>1
      <4>2. PICK n \in 1 .. Len(s.vec) : s.vec[n].idx1 = Cal_idx1(x)
        BY <2>2, <4>1 DEF PackedAs
      <4> QED BY <2>8, <4>2
    <3>2. CASE Cal_idx1(x) = s.idx1
      <4>1. Len(s.vec) + 1 \in 1 .. Len(vec)
        BY <2>8
      <4> QED BY <2>8, <2>10, <3>2, <4>1
    <3> QED BY <2>3, <3>1, <3>2
  <2> QED BY <2>5, <2>8, <2>11, <2>12, <2>13 DEF PackedAs
<1> QED BY <1>2, <1>3

(* The next id starts a block, or a word, or is of the last word.          *)
LEMMA AddedFills ==
  ASSUME NEW T \in SUBSET Nat, IsFiniteSet(T), NEW s, Filled(s, T),
         NEW id \in Nat, \A x \in T : x < id
  PROVE  Filled(Added(s, id), T \cup {id})
<1> DEFINE U == T \cup {id}
           i == Cal_idx1(id)
           w == Cal_idx2(id)
           r == Added(s, id)
<1>1. s \in Filling
  BY DEF Filled
<1>2. U \in SUBSET Nat /\ IsFiniteSet(U) /\ id \in U /\ U # {} /\ \A x \in U : x <= id
  <2>1. IsFiniteSet(U)
    BY FS_AddElement
  <2>2. ASSUME NEW x \in U PROVE x <= id
    BY SMT
  <2> QED BY <2>1, <2>2
<1>3. i \in Nat /\ w \in Nat /\ Cal_idx3(id) \in Nat
  BY Parts
<1> SUFFICES r \in Filling /\ FilledTo(r, U, id)
  BY <1>2 DEF Filled
<1>4. CASE i # s.idx1
  <2>1. r = [idx1 |-> i, idx2 |-> {w}, val |-> <<>>, word |-> {Cal_idx3(id)}, vec |-> Stored(s)]
    BY <1>4 DEF Added
  <2>2. ASSUME NEW x \in T PROVE Cal_idx1(x) < i
    <3>1. PICK top \in T : FilledTo(s, T, top)
      BY DEF Filled
    <3>2. x <= top /\ s.idx1 = Cal_idx1(top) /\ top <= id
      BY <3>1 DEF FilledTo
    <3>3. Cal_idx1(x) <= Cal_idx1(top) /\ Cal_idx1(top) <= i
      BY <3>2, PartsGrow
    <3>4. Cal_idx1(x) \in Nat /\ Cal_idx1(top) \in Nat
      BY Parts
    <3> QED BY <1>3, <1>4, <3>2, <3>3, <3>4
  <2>3. PackedAs(Stored(s), T)
    BY StoredPacks
  <2>4. \A x \in T : Cal_idx1(x) # i
    BY <1>3, <2>2
  <2> HIDE DEF i, w
  <2>5. {x \in U : Cal_idx1(x) < i} = T
    <3>1. ~(Cal_idx1(id) < i)
      BY <1>3 DEF i
    <3> QED BY <2>2, <3>1
  <2>6. {y \in U : Cal_idx1(y) = i} = {id}
    BY <2>4 DEF i
  <2>7. {y \in U : Cal_idx1(y) = i /\ Cal_idx2(y) = w} = {id}
    BY <2>4 DEF i, w
  <2>8. WordsOf(U, i) = {w} /\ WordOf(U, i, w) = {Cal_idx3(id)}
    BY <2>6, <2>7 DEF WordsOf, WordOf, w
  <2>9. Cardinality({w}) = 1
    BY FS_Singleton
  <2>10. Stored(s) \in Seq(Block)
    BY <2>3 DEF PackedAs
  <2>11. r \in Filling
    BY <1>3, <2>1, <2>10 DEF Filling
  <2>12. r.idx1 = i /\ r.idx2 = {w} /\ r.val = <<>> /\ r.word = {Cal_idx3(id)} /\ r.vec = Stored(s)
    BY <2>1
  <2> HIDE DEF r, U
  <2>13. FilledTo(r, U, id)
    <3>1. Len(r.val) = Cardinality(r.idx2) - 1
      BY <2>9, <2>12
    <3>2. PackedAs(r.vec, {x \in U : Cal_idx1(x) < r.idx1})
      BY <2>3, <2>5, <2>12
    <3>3. r.idx2 = WordsOf(U, r.idx1) /\ r.word = WordOf(U, r.idx1, w) /\ r.idx2 \ {w} = {}
      BY <2>8, <2>12
    <3>4. r.idx1 = Cal_idx1(id) /\ w = Cal_idx2(id)
      BY <2>12 DEF i, w
    <3> QED BY <1>2, <3>1, <3>2, <3>3, <3>4 DEF FilledTo
  <2> QED BY <2>11, <2>13
<1>5. CASE i = s.idx1
  <2>1. T # {}
    BY <1>3, <1>5 DEF Filled, Unfilled
  <2>2. PICK top \in T : FilledTo(s, T, top)
    BY <2>1 DEF Filled
  <2>3. /\ s.idx1 = Cal_idx1(top) /\ s.idx2 = WordsOf(T, i)
        /\ s.word = WordOf(T, i, Cal_idx2(top))
        /\ Len(s.val) = Cardinality(s.idx2) - 1
        /\ \A v \in s.idx2 \ {Cal_idx2(top)} :
             s.val[1 + Between(s.idx2, 0, v)] = WordOf(T, i, v)
        /\ PackedAs(s.vec, {x \in T : Cal_idx1(x) < i})
    BY <1>5, <2>2 DEF FilledTo
  <2>4. /\ s.idx2 \in SUBSET Nat /\ IsFiniteSet(s.idx2) /\ Cardinality(s.idx2) \in Nat
        /\ Cal_idx2(top) \in s.idx2 /\ \A v \in s.idx2 : v <= Cal_idx2(top)
        /\ Append(s.val, s.word) \in Seq(SUBSET Nat)
        /\ Len(Append(s.val, s.word)) = Cardinality(s.idx2)
        /\ WordsKept(Append(s.val, s.word), s.idx2, T, i)
    BY <1>1, <1>5, <2>2, WordClosed
  <2>5. Cal_idx2(top) \in Nat /\ Cal_idx2(top) <= w
    <3>1. top \in Nat /\ id \in Nat /\ top <= id /\ Cal_idx1(top) = Cal_idx1(id)
      BY <1>5, <2>3
    <3>2. Cal_idx2(top) <= Cal_idx2(id)
      BY ONLY <3>1, PartsGrow
    <3> QED BY <3>1, <3>2, Parts
  <2>6. {x \in U : Cal_idx1(x) < i} = {x \in T : Cal_idx1(x) < i}
    BY <1>3
  <2>7. WordsOf(U, i) = WordsOf(T, i) \cup {w}
    BY DEF WordsOf
  <2>8. WordOf(U, i, w) = WordOf(T, i, w) \cup {Cal_idx3(id)}
    BY DEF WordOf
  <2>9. \A v : v # w => WordOf(U, i, v) = WordOf(T, i, v)
    BY DEF WordOf
  <2> HIDE DEF i, w
  <2>10. CASE w \in s.idx2
    <3>1. w = Cal_idx2(top)
      BY <1>3, <2>4, <2>5, <2>10
    <3>2. r = [s EXCEPT !.word = @ \cup {Cal_idx3(id)}]
      BY <1>5, <2>10 DEF Added, i, w
    <3>3. r.idx1 = i /\ r.idx2 = s.idx2 /\ r.val = s.val /\ r.word = s.word \cup {Cal_idx3(id)}
          /\ r.vec = s.vec /\ r \in Filling
      BY <1>1, <1>3, <1>5, <3>2 DEF Filling
    <3>4. WordsOf(U, i) = s.idx2
      BY <2>3, <2>7, <2>10
    <3>5. \A v \in s.idx2 \ {w} : s.val[1 + Between(s.idx2, 0, v)] = WordOf(U, i, v)
      BY <2>3, <2>9, <3>1
    <3> HIDE DEF r, U
    <3>6. FilledTo(r, U, id)
      BY <1>2, <2>3, <2>6, <2>8, <3>1, <3>3, <3>4, <3>5 DEF FilledTo, i, w
    <3> QED BY <3>3, <3>6
  <2>11. CASE w \notin s.idx2
    <3> DEFINE v == Append(s.val, s.word)
               S == s.idx2 \cup {w}
    <3>1. r = [s EXCEPT !.idx2 = @ \cup {w}, !.val = Append(@, s.word), !.word = {Cal_idx3(id)}]
      BY <1>5, <2>11 DEF Added, i, w
    <3>2. r.idx1 = i /\ r.idx2 = S /\ r.val = v /\ r.word = {Cal_idx3(id)}
          /\ r.vec = s.vec
      BY <1>1, <1>5, <3>1 DEF Filling
    <3>3. r \in Filling
      <4>1. /\ s.idx1 \in Int /\ S \in SUBSET Nat /\ v \in Seq(SUBSET Nat)
            /\ {Cal_idx3(id)} \in SUBSET Nat /\ s.vec \in Seq(Block)
        BY <1>1, <1>3, <2>4 DEF Filling
      <4>2. r = [s EXCEPT !.idx2 = S, !.val = v, !.word = {Cal_idx3(id)}]
        BY <3>1
      <4> HIDE DEF r, S, v, U
      <4> QED BY <1>1, <4>1, <4>2 DEF Filling
    <3>4. S \in SUBSET Nat /\ Cardinality(S) = Cardinality(s.idx2) + 1
      <4>1. S \in SUBSET Nat
        BY <1>3, <2>4
      <4>2. Cardinality(s.idx2 \cup {w}) = Cardinality(s.idx2) + 1
        <5>1. IsFiniteSet(s.idx2) /\ w \notin s.idx2
          BY <2>4, <2>11
        <5> QED BY ONLY <5>1, FS_AddElement
      <4> QED BY <4>1, <4>2
    <3>5. WordsOf(U, i) = S
      BY <2>3, <2>7
    <3>6. ASSUME NEW x \in s.idx2 PROVE v[1 + Between(S, 0, x)] = WordOf(U, i, x)
      <4>1. x # w
        BY <2>11
      <4>2. x \in Nat /\ x <= w
        BY <1>3, <2>4, <2>5
      <4>3. {y \in S : 0 <= y /\ y < x} = {y \in s.idx2 : 0 <= y /\ y < x}
        BY <1>3, <4>1, <4>2
      <4>4. Between(S, 0, x) = Between(s.idx2, 0, x)
        BY <4>3 DEF Between
      <4>5. v[1 + Between(s.idx2, 0, x)] = WordOf(T, i, x)
        BY <2>4 DEF WordsKept
      <4> HIDE DEF S, v, U
      <4> QED BY <2>9, <4>1, <4>4, <4>5
    <3>7. WordOf(U, i, w) = {Cal_idx3(id)}
      <4>1. WordOf(T, i, w) = {}
        BY <2>3, <2>11 DEF WordsOf, WordOf
      <4> QED BY <2>8, <4>1
    <3>8. Len(v) = Cardinality(S) - 1
      BY <2>4, <3>4
    <3> HIDE DEF r, U, v
    <3>9. FilledTo(r, U, id)
      BY <1>2, <2>3, <2>6, <3>2, <3>5, <3>6, <3>7, <3>8 DEF FilledTo, i, w
    <3> QED BY <3>3, <3>9
  <2> QED BY <2>10, <2>11
<1> QED BY <1>4, <1>5

(* Packing a finite set of ids: every id has its bit, and no other.        *)
LEMMA PackedCorrect ==
  ASSUME NEW ids \in SUBSET Nat, IsFiniteSet(ids)
  PROVE  PackedAs(Packed(ids), ids)
<1> DEFINE order == InOrder(ids)
           K == Cardinality(ids)
           Sofar(n) == {order[m] : m \in 1 .. n}
           F == [z \in (1 .. K) \X Filling |-> Added(z[2], order[z[1]])]
           J == {z \in (0 .. K) \X Filling : Filled(z[2], Sofar(z[1]))}
           Result == CHOOSE s : s = [n \in 0 .. K |-> IF n = 0 THEN Unfilled
                                                       ELSE Added(s[n - 1], order[n])]
<1>1. /\ K \in Nat
      /\ \A n \in 1 .. K : order[n] \in ids
      /\ \A x \in ids : \E n \in 1 .. K : order[n] = x
      /\ \A m, n \in 1 .. K : m < n => order[m] < order[n]
  BY OrderFacts
<1> HIDE DEF order, K
<1>2. ASSUME NEW n \in 0 .. K
      PROVE  Sofar(n) \in SUBSET Nat /\ IsFiniteSet(Sofar(n))
  <2>1. Sofar(n) \subseteq ids
    BY <1>1, <1>2
  <2> QED BY <2>1, FS_Subset
<1>3. ASSUME NEW n \in 1 .. K, NEW s, <<n - 1, s>> \in J
      PROVE  <<n, Added(s, order[n])>> \in J /\ F[<<n, s>>] = Added(s, order[n])
  <2>1. n - 1 \in 0 .. K /\ s \in Filling /\ Filled(s, Sofar(n - 1))
    <3> HIDE DEF Sofar
    <3> QED BY <1>3
  <2>2. order[n] \in Nat /\ \A x \in Sofar(n - 1) : x < order[n]
    <3>1. order[n] \in Nat
      BY <1>1
    <3>2. \A m \in 1 .. n - 1 : order[m] < order[n]
      BY <1>1
    <3> QED BY <3>1, <3>2
  <2>3. Sofar(n) = Sofar(n - 1) \cup {order[n]}
    <3>1. 1 .. n = (1 .. n - 1) \cup {n}
      BY <1>1
    <3> QED BY <3>1
  <2>4. Filled(Added(s, order[n]), Sofar(n - 1) \cup {order[n]})
    <3> HIDE DEF Sofar
    <3> QED BY <1>2, <2>1, <2>2, AddedFills
  <2>5. Filled(Added(s, order[n]), Sofar(n)) /\ Added(s, order[n]) \in Filling
    BY <2>3, <2>4 DEF Filled
  <2>6. n \in 0 .. K
    OBVIOUS
  <2> QED BY <2>1, <2>5, <2>6
<1>4. <<0, Unfilled>> \in J
  <2>1. Sofar(0) = {}
    OBVIOUS
  <2>2. Unfilled \in Filling
    BY DEF Unfilled, Filling
  <2>3. Filled(Unfilled, {})
    BY <2>2 DEF Filled
  <2> HIDE DEF Sofar
  <2> QED BY <1>1, <2>1, <2>2, <2>3
<1>5. PICK w : StepsIn(K, J, Unfilled, F, w)
  <2>1. \A n \in 1 .. K : \A s : <<n - 1, s>> \in J => <<n, F[<<n, s>>]>> \in J
    BY <1>3
  <2> HIDE DEF F, J
  <2> QED BY <1>1, <1>4, <2>1, StepsWithin
<1> HIDE DEF F, J
<1>6. w = [n \in 0 .. K |-> IF n = 0 THEN Unfilled ELSE Added(w[n - 1], order[n])]
  <2>1. ASSUME NEW n \in 0 .. K, n # 0 PROVE F[<<n, w[n - 1]>>] = Added(w[n - 1], order[n])
    <3>1. n \in 1 .. K /\ n - 1 \in 0 .. K
      BY <1>1, <2>1
    <3> QED BY <1>3, <1>5, <3>1 DEF StepsIn
  <2> QED BY <1>5, <2>1 DEF StepsIn
<1>7. Result = [n \in 0 .. K |-> IF n = 0 THEN Unfilled ELSE Added(Result[n - 1], order[n])]
  BY <1>6
<1> HIDE DEF Result
<1>8. <<K, Result[K]>> \in J
  <2> DEFINE T == {n \in 0 .. K : <<n, Result[n]>> \in J}
  <2>1. 0 \in T
    BY <1>1, <1>4, <1>7
  <2>2. ASSUME NEW n \in 1 .. K, n - 1 \in T PROVE n \in T
    <3>1. <<n - 1, Result[n - 1]>> \in J
      BY <2>2
    <3>2. n \in 0 .. K /\ n # 0
      OBVIOUS
    <3>3. Result[n] = Added(Result[n - 1], order[n])
      BY <1>7, <3>2
    <3>4. <<n, Result[n]>> \in J
      BY <1>3, <3>1, <3>3
    <3> QED BY <3>2, <3>4
  <2>3. \A n \in 0 .. K : n \in T
    <3> HIDE DEF T
    <3> QED BY <1>1, <2>1, <2>2, Upward
  <2> QED BY <1>1, <2>3
<1>9. Filled(Result[K], Sofar(K))
  BY <1>8 DEF J
<1>10. Sofar(K) = ids
  BY <1>1
<1>11. Packed(ids) = Stored(Result[K])
  BY DEF Packed, Rounds, Result, Unfilled, order, K
<1> HIDE DEF Sofar
<1> QED BY <1>9, <1>10, <1>11, StoredPacks

-----------------------------------------------------------------------------
(* The iterator after the words up to one, and from there to another.      *)
LEMMA BetweenAdds ==
  ASSUME NEW S \in SUBSET Nat, IsFiniteSet(S), NEW w \in Nat
  PROVE  /\ Between(S, 0, w) \in Nat /\ Between(S, -1, w) = Between(S, 0, w)
         /\ \A m \in Nat : m < w => Between(S, 0, m) + Between(S, m, w) = Between(S, 0, w)
<1>1. ASSUME NEW k \in Int, NEW n \in Int
      PROVE  Between(S, k, n) \in Nat /\ IsFiniteSet({x \in S : k <= x /\ x < n})
  <2>1. IsFiniteSet({x \in S : k <= x /\ x < n})
    BY FS_Subset
  <2> QED BY <2>1, FS_CardinalityType DEF Between
<1>2. {x \in S : -1 <= x /\ x < w} = {x \in S : 0 <= x /\ x < w}
  <2>1. \A x \in S : x \in Nat
    OBVIOUS
  <2>2. \A x \in S : -1 <= x /\ 0 <= x
    BY <2>1
  <2> QED BY <2>2
<1>3. ASSUME NEW m \in Nat, m < w
      PROVE  Between(S, 0, m) + Between(S, m, w) = Between(S, 0, w)
  <2> DEFINE A == {x \in S : 0 <= x /\ x < m}
             B == {x \in S : m <= x /\ x < w}
             C == {x \in S : 0 <= x /\ x < w}
  <2>1. ASSUME NEW x \in S
        PROVE  (x \in C <=> x \in A \/ x \in B) /\ ~(x \in A /\ x \in B)
    <3>1. x \in Nat
      OBVIOUS
    <3> QED BY <1>3, <3>1
  <2>2. A \cup B = C /\ A \cap B = {}
    BY <2>1
  <2>3. IsFiniteSet(A) /\ IsFiniteSet(B)
    <3>1. 0 \in Int /\ m \in Int /\ w \in Int
      OBVIOUS
    <3> QED BY ONLY <1>1, <3>1
  <2>4. Cardinality(A \cup B) = Cardinality(A) + Cardinality(B)
    <3> HIDE DEF A, B
    <3> QED BY <2>2, <2>3, DisjointSize
  <2> QED BY <2>2, <2>4 DEF Between
<1> QED BY <1>1, <1>2, <1>3 DEF Between

(* The bits two words share are the ids both have there.                   *)
LEMMA WordsMeet ==
  ASSUME NEW A \in SUBSET Nat, IsFiniteSet(A), NEW B \in SUBSET Nat, NEW i, NEW w
  PROVE  Cardinality(WordOf(A, i, w) \cap WordOf(B, i, w))
           = Cardinality({x \in A \cap B : Cal_idx1(x) = i /\ Cal_idx2(x) = w})
<1> DEFINE S == {x \in A \cap B : Cal_idx1(x) = i /\ Cal_idx2(x) = w}
           f == [x \in S |-> Cal_idx3(x)]
<1>1. IsFiniteSet(S)
  <2>1. S \subseteq A
    OBVIOUS
  <2> QED BY <2>1, FS_Subset
<1>2. ASSUME NEW x \in A, NEW y \in B, Cal_idx1(x) = Cal_idx1(y),
             Cal_idx2(x) = Cal_idx2(y), Cal_idx3(x) = Cal_idx3(y)
      PROVE  x = y
  <2>1. x \in Nat /\ y \in Nat
    OBVIOUS
  <2> QED BY <1>2, <2>1, PartsTell
<1>3. \A x, y \in S : f[x] = f[y] => x = y
  BY <1>2
<1>4. {f[x] : x \in S} = WordOf(A, i, w) \cap WordOf(B, i, w)
  <2>1. {f[x] : x \in S} = {Cal_idx3(x) : x \in S}
    OBVIOUS
  <2>2. ASSUME NEW z \in WordOf(A, i, w) \cap WordOf(B, i, w)
        PROVE  z \in {Cal_idx3(x) : x \in S}
    <3>1. PICK x \in A : Cal_idx1(x) = i /\ Cal_idx2(x) = w /\ z = Cal_idx3(x)
      BY <2>2 DEF WordOf
    <3>2. PICK y \in B : Cal_idx1(y) = i /\ Cal_idx2(y) = w /\ z = Cal_idx3(y)
      BY <2>2 DEF WordOf
    <3>3. x = y
      BY <1>2, <3>1, <3>2
    <3> QED BY <3>1, <3>3
  <2>3. {Cal_idx3(x) : x \in S} \subseteq WordOf(A, i, w) \cap WordOf(B, i, w)
    BY DEF WordOf
  <2> QED BY <2>1, <2>2, <2>3
<1>5. Cardinality({f[x] : x \in S}) = Cardinality(S)
  <2> HIDE DEF f, S
  <2> QED BY <1>1, <1>3, ImageSize
<1> QED BY <1>4, <1>5

(* Two blocks of the same number: their words meet in the ids of the block *)
(* that both lists have.                                                   *)
LEMMA DealCounts ==
  ASSUME NEW A \in SUBSET Nat, IsFiniteSet(A), NEW B \in SUBSET Nat, IsFiniteSet(B),
         NEW a, NEW b, HoldsBlock(a, A), HoldsBlock(b, B), a.idx1 = b.idx1
  PROVE  Deal_2_pressed_o_64(a, b) = Cardinality({x \in A \cap B : Cal_idx1(x) = a.idx1})
<1> DEFINE i == a.idx1
           both == a.idx2 \cap b.idx2
           order == InOrder(both)
           K == Cardinality(both)
           Sofar(n) == {order[m] : m \in 1 .. n}
           Met(n) == {x \in A \cap B : Cal_idx1(x) = i /\ Cal_idx2(x) \in Sofar(n)}
           first == [its |-> [at |-> -1, a |-> 1, b |-> 1], res |-> 0]
           Step(n, s) ==
             [its |-> Moved(s.its, a, b, order[n]),
              res |-> s.res + Cardinality(a.val[Moved(s.its, a, b, order[n]).a]
                                            \cap b.val[Moved(s.its, a, b, order[n]).b])]
           At(n) == IF n = 0 THEN first
                    ELSE [its |-> [at |-> order[n], a |-> 1 + Between(a.idx2, 0, order[n]),
                                   b |-> 1 + Between(b.idx2, 0, order[n])],
                          res |-> Cardinality(Met(n))]
           w == [n \in 0 .. K |-> At(n)]
           Result == CHOOSE s : s = [n \in 0 .. K |-> IF n = 0 THEN first ELSE Step(n, s[n - 1])]
<1>1. /\ a.idx2 = WordsOf(A, i) /\ b.idx2 = WordsOf(B, i)
      /\ \A v \in a.idx2 : a.val[1 + Between(a.idx2, 0, v)] = WordOf(A, i, v)
      /\ \A v \in b.idx2 : b.val[1 + Between(b.idx2, 0, v)] = WordOf(B, i, v)
  BY DEF HoldsBlock, WordsKept
<1>2. a.idx2 \in SUBSET Nat /\ IsFiniteSet(a.idx2) /\ b.idx2 \in SUBSET Nat /\ IsFiniteSet(b.idx2)
  BY <1>1, WordsType
<1>3. both \in SUBSET Nat /\ IsFiniteSet(both)
  BY <1>2, FS_Subset
<1>4. /\ K \in Nat
      /\ \A n \in 1 .. K : order[n] \in both
      /\ \A x \in both : \E n \in 1 .. K : order[n] = x
      /\ \A m, n \in 1 .. K : m < n => order[m] < order[n]
  <2> HIDE DEF both
  <2> QED BY <1>3, OrderFacts
<1> HIDE DEF order, K
<1>5. ASSUME NEW n \in 0 .. K PROVE IsFiniteSet(Met(n)) /\ Cardinality(Met(n)) \in Nat
  <2>1. Met(n) \subseteq A
    OBVIOUS
  <2> QED BY <2>1, FS_Subset, FS_CardinalityType
<1>6. ASSUME NEW n \in 1 .. K
      PROVE  Cardinality(Met(n))
               = (IF n = 1 THEN 0 ELSE Cardinality(Met(n - 1)))
                   + Cardinality(WordOf(A, i, order[n]) \cap WordOf(B, i, order[n]))
  <2> DEFINE More == {x \in A \cap B : Cal_idx1(x) = i /\ Cal_idx2(x) = order[n]}
  <2>1. n - 1 \in 0 .. K /\ n \in 0 .. K /\ 1 .. n = (1 .. n - 1) \cup {n}
    BY <1>4
  <2>2. Sofar(n) = Sofar(n - 1) \cup {order[n]}
    BY <2>1
  <2>3. order[n] \notin Sofar(n - 1)
    <3>1. \A m \in 1 .. n - 1 : order[m] < order[n] /\ order[n] \in Nat
      BY <1>3, <1>4
    <3>2. \A m \in 1 .. n - 1 : order[m] # order[n]
      BY <3>1
    <3> QED BY <3>2
  <2>4. Met(n) = Met(n - 1) \cup More /\ Met(n - 1) \cap More = {}
    <3> HIDE DEF Sofar
    <3> QED BY <2>2, <2>3
  <2>5. IsFiniteSet(More)
    <3>1. More \subseteq A
      OBVIOUS
    <3> QED BY <3>1, FS_Subset
  <2>6. Cardinality(Met(n)) = Cardinality(Met(n - 1)) + Cardinality(More)
    <3> HIDE DEF Met, More
    <3> QED BY <1>5, <2>1, <2>4, <2>5, DisjointSize
  <2>7. Cardinality(More) = Cardinality(WordOf(A, i, order[n]) \cap WordOf(B, i, order[n]))
    BY WordsMeet
  <2>8. n = 1 => Cardinality(Met(n - 1)) = 0
    <3>1. n = 1 => Met(n - 1) = {}
      OBVIOUS
    <3> HIDE DEF Met
    <3> QED BY <3>1, FS_EmptySet
  <2> HIDE DEF Met, More
  <2> QED BY <2>6, <2>7, <2>8
<1>7. ASSUME NEW n \in 1 .. K PROVE At(n) = Step(n, At(n - 1))
  <2> DEFINE v == order[n]
             to == Moved(At(n - 1).its, a, b, v)
  <2>1. v \in a.idx2 /\ v \in b.idx2 /\ v \in Nat
    BY <1>3, <1>4
  <2> HIDE DEF v
  <2>2. to = [at |-> v, a |-> 1 + Between(a.idx2, 0, v), b |-> 1 + Between(b.idx2, 0, v)]
    <3>1. CASE n = 1
      <4>1. At(n - 1).its = [at |-> -1, a |-> 1, b |-> 1]
        BY <3>1
      <4> HIDE DEF At
      <4>2. Between(a.idx2, -1, v) = Between(a.idx2, 0, v)
        BY <1>2, <2>1, BetweenAdds
      <4>3. Between(b.idx2, -1, v) = Between(b.idx2, 0, v)
        BY <1>2, <2>1, BetweenAdds
      <4> QED BY <4>1, <4>2, <4>3 DEF Moved
    <3>2. CASE n # 1
      <4> DEFINE u == order[n - 1]
      <4>1. n - 1 \in 1 .. K /\ n - 1 # 0 /\ n - 1 < n
        BY <1>4, <3>2
      <4>2. u \in Nat /\ u < v
        BY <1>3, <1>4, <4>1 DEF v
      <4>3. At(n - 1).its = [at |-> u, a |-> 1 + Between(a.idx2, 0, u),
                             b |-> 1 + Between(b.idx2, 0, u)]
        BY <4>1
      <4> HIDE DEF At, u
      <4>4. Between(a.idx2, 0, u) + Between(a.idx2, u, v) = Between(a.idx2, 0, v)
        BY <1>2, <2>1, <4>2, BetweenAdds
      <4>5. Between(b.idx2, 0, u) + Between(b.idx2, u, v) = Between(b.idx2, 0, v)
        BY <1>2, <2>1, <4>2, BetweenAdds
      <4>6. Between(a.idx2, 0, u) \in Nat /\ Between(b.idx2, 0, u) \in Nat
        BY <1>2, <4>2, BetweenAdds
      <4>7. ASSUME NEW S \in SUBSET Nat, IsFiniteSet(S) PROVE Between(S, u, v) \in Nat
        <5>1. IsFiniteSet({x \in S : u <= x /\ x < v})
          BY <4>7, FS_Subset
        <5> QED BY <5>1, FS_CardinalityType DEF Between
      <4>8. Between(a.idx2, u, v) \in Nat /\ Between(b.idx2, u, v) \in Nat
        BY <1>2, <4>7
      <4>9. 1 + Between(a.idx2, 0, u) + Between(a.idx2, u, v) = 1 + Between(a.idx2, 0, v)
        BY <4>4, <4>6, <4>8
      <4>10. 1 + Between(b.idx2, 0, u) + Between(b.idx2, u, v) = 1 + Between(b.idx2, 0, v)
        BY <4>5, <4>6, <4>8
      <4> QED BY <4>3, <4>9, <4>10 DEF Moved
    <3> QED BY <3>1, <3>2
  <2>3. a.val[to.a] = WordOf(A, i, v) /\ b.val[to.b] = WordOf(B, i, v)
    BY <1>1, <2>1, <2>2
  <2>4. At(n - 1).res = IF n = 1 THEN 0 ELSE Cardinality(Met(n - 1))
    <3> HIDE DEF Met
    <3> QED BY <1>4
  <2>5. At(n - 1).res + Cardinality(a.val[to.a] \cap b.val[to.b]) = Cardinality(Met(n))
    <3> HIDE DEF Met, At, to
    <3> QED BY <1>6, <2>3, <2>4 DEF v
  <2>6. At(n) = [its |-> to, res |-> Cardinality(Met(n))]
    <3> HIDE DEF Met, to
    <3> QED BY <2>2 DEF v
  <2> HIDE DEF At, Met
  <2> QED BY <2>5, <2>6 DEF v
<1> HIDE DEF At, Step, first
<1>8. At(0) = first
  BY DEF At
<1>9. w = [n \in 0 .. K |-> IF n = 0 THEN first ELSE Step(n, w[n - 1])]
  <2>1. ASSUME NEW n \in 0 .. K PROVE At(n) = IF n = 0 THEN first ELSE Step(n, w[n - 1])
    <3>1. n # 0 => n \in 1 .. K /\ n - 1 \in 0 .. K
      BY <1>4
    <3>2. n # 0 => w[n - 1] = At(n - 1)
      BY <3>1
    <3> HIDE DEF w
    <3> QED BY <1>7, <1>8, <3>1, <3>2
  <2> QED BY <2>1
<1>10. Result = [n \in 0 .. K |-> IF n = 0 THEN first ELSE Step(n, Result[n - 1])]
  <2> HIDE DEF w
  <2> QED BY <1>9
<1> HIDE DEF Result
<1>11. Result[K] = At(K)
  <2> DEFINE T == {n \in 0 .. K : Result[n] = At(n)}
  <2>1. 0 \in T
    BY <1>4, <1>8, <1>10
  <2>2. ASSUME NEW n \in 1 .. K, n - 1 \in T PROVE n \in T
    <3>1. n \in 0 .. K /\ n # 0 /\ Result[n - 1] = At(n - 1)
      BY <2>2
    <3>2. Result[n] = Step(n, Result[n - 1])
      BY <1>10, <3>1
    <3> QED BY <1>7, <3>1, <3>2
  <2>3. \A n \in 0 .. K : n \in T
    <3> HIDE DEF T
    <3> QED BY <1>4, <2>1, <2>2, Upward
  <2> QED BY <1>4, <2>3
<1>12. Sofar(K) = both
  BY <1>4
<1>13. Met(K) = {x \in A \cap B : Cal_idx1(x) = i}
  <2>1. ASSUME NEW x \in A \cap B, Cal_idx1(x) = i PROVE Cal_idx2(x) \in both
    BY <1>1, <2>1 DEF WordsOf
  <2> HIDE DEF Sofar, both
  <2> QED BY <1>12, <2>1
<1>14. At(K).res = Cardinality(Met(K))
  <2>1. CASE K = 0
    <3>1. Met(K) = {}
      BY <2>1
    <3>2. At(K).res = 0
      BY <2>1 DEF At, first
    <3> HIDE DEF Met
    <3> QED BY <3>1, <3>2, FS_EmptySet
  <2>2. CASE K # 0
    <3> HIDE DEF Met
    <3> QED BY <2>2 DEF At
  <2> QED BY <2>1, <2>2
<1>15. Deal_2_pressed_o_64(a, b) = Result[K].res
  BY DEF Deal_2_pressed_o_64, Rounds, Result, Step, first, order, K
<1> QED BY <1>11, <1>13, <1>14, <1>15

-----------------------------------------------------------------------------
(* Two packed lists, merged: what they share has been counted, or lies in  *)
(* blocks of both that are still to come.                                  *)
Merging == [i : Nat \ {0}, j : Nat \ {0}, cnt : Nat]
Counted(p, A, B, s) ==
  {x \in A \cap B : \E k \in 1 .. Len(p) : k < s.i /\ p[k].idx1 = Cal_idx1(x)}
Merge(p, q, A, B, s) ==
  /\ s \in Merging /\ s.i <= Len(p) + 1 /\ s.j <= Len(q) + 1
  /\ s.cnt = Cardinality(Counted(p, A, B, s))
  /\ \A x \in A \cap B :
       \/ x \in Counted(p, A, B, s)
       \/ /\ \E k \in 1 .. Len(p) : k >= s.i /\ p[k].idx1 = Cal_idx1(x)
          /\ \E k \in 1 .. Len(q) : k >= s.j /\ q[k].idx1 = Cal_idx1(x)
Ended(p, q, s) == s.i > Len(p) \/ s.j > Len(q)

LEMMA PackedFacts ==
  ASSUME NEW p, NEW A, PackedAs(p, A)
  PROVE  /\ Len(p) \in Nat
         /\ \A k \in 1 .. Len(p) : p[k].idx1 \in Int /\ HoldsBlock(p[k], A)
         /\ \A m, n \in 1 .. Len(p) : m < n => p[m].idx1 < p[n].idx1
         /\ \A m, n \in 1 .. Len(p) : p[m].idx1 = p[n].idx1 => m = n
<1>1. p \in Seq(Block)
  BY DEF PackedAs
<1>2. Len(p) \in Nat /\ \A k \in 1 .. Len(p) : p[k] \in Block
  BY <1>1
<1>3. \A k \in 1 .. Len(p) : p[k].idx1 \in Int
  BY <1>2 DEF Block
<1>4. \A m, n \in 1 .. Len(p) : m < n => p[m].idx1 < p[n].idx1
  BY DEF PackedAs
<1>5. ASSUME NEW m \in 1 .. Len(p), NEW n \in 1 .. Len(p), p[m].idx1 = p[n].idx1
      PROVE  m = n
  <2>1. ~(m < n) /\ ~(n < m)
    BY <1>3, <1>4, <1>5
  <2> QED BY <2>1
<1> QED BY <1>2, <1>3, <1>4, <1>5 DEF PackedAs

LEMMA MergedKeeps ==
  ASSUME NEW A \in SUBSET Nat, IsFiniteSet(A), NEW B \in SUBSET Nat, IsFiniteSet(B),
         NEW p, NEW q, PackedAs(p, A), PackedAs(q, B), NEW s, Merge(p, q, A, B, s)
  PROVE  /\ Merge(p, q, A, B, Merged(p, q, s))
         /\ IF Ended(p, q, s) THEN Merged(p, q, s) = s
            ELSE Merged(p, q, s).i + Merged(p, q, s).j > s.i + s.j
<1> DEFINE r == Merged(p, q, s)
           i == s.i
           j == s.j
           both == A \cap B
           old == Counted(p, A, B, s)
           new == Counted(p, A, B, r)
<1>1. i \in Nat \ {0} /\ j \in Nat \ {0} /\ s.cnt \in Nat /\ i <= Len(p) + 1 /\ j <= Len(q) + 1
      /\ s \in Merging /\ s.cnt = Cardinality(old)
  BY DEF Merge, Merging
<1>2. /\ Len(p) \in Nat
      /\ \A k \in 1 .. Len(p) : p[k].idx1 \in Int /\ HoldsBlock(p[k], A)
      /\ \A m, n \in 1 .. Len(p) : m < n => p[m].idx1 < p[n].idx1
      /\ \A m, n \in 1 .. Len(p) : p[m].idx1 = p[n].idx1 => m = n
  BY PackedFacts
<1>3. /\ Len(q) \in Nat
      /\ \A k \in 1 .. Len(q) : q[k].idx1 \in Int /\ HoldsBlock(q[k], B)
      /\ \A m, n \in 1 .. Len(q) : m < n => q[m].idx1 < q[n].idx1
      /\ \A m, n \in 1 .. Len(q) : q[m].idx1 = q[n].idx1 => m = n
  BY PackedFacts
<1>4. ASSUME NEW x \in both, x \notin old
      PROVE  /\ \E k \in 1 .. Len(p) : k >= i /\ p[k].idx1 = Cal_idx1(x)
             /\ \E k \in 1 .. Len(q) : k >= j /\ q[k].idx1 = Cal_idx1(x)
  BY <1>4 DEF Merge
<1>5. CASE Ended(p, q, s)
  <2>1. r = s
    BY <1>5 DEF Ended, Merged
  <2> QED BY <1>5, <2>1
<1>6. CASE ~Ended(p, q, s)
  <2>1. i \in 1 .. Len(p) /\ j \in 1 .. Len(q)
    BY <1>1, <1>2, <1>3, <1>6 DEF Ended
  <2> DEFINE a == p[i].idx1
             b == q[j].idx1
  <2>2. a \in Int /\ b \in Int
    BY <1>2, <1>3, <2>1
  <2>3. ASSUME NEW x \in both, x \notin old
        PROVE  a <= Cal_idx1(x) /\ b <= Cal_idx1(x) /\ Cal_idx1(x) \in Int
               /\ (Cal_idx1(x) # a => \E k \in 1 .. Len(p) : k >= i + 1 /\ p[k].idx1 = Cal_idx1(x))
               /\ (Cal_idx1(x) # b => \E k \in 1 .. Len(q) : k >= j + 1 /\ q[k].idx1 = Cal_idx1(x))
    <3>1. PICK k \in 1 .. Len(p) : k >= i /\ p[k].idx1 = Cal_idx1(x)
      BY <1>4, <2>3
    <3>2. PICK l \in 1 .. Len(q) : l >= j /\ q[l].idx1 = Cal_idx1(x)
      BY <1>4, <2>3
    <3>3. Cal_idx1(x) \in Int
      BY <1>2, <3>1
    <3>4. k = i \/ (k >= i + 1 /\ a < p[k].idx1)
      <4>1. k = i \/ (k >= i + 1 /\ i < k)
        BY <1>1, <1>2, <3>1
      <4>2. i < k => a < p[k].idx1
        BY <1>2, <2>1
      <4> QED BY <4>1, <4>2
    <3>5. l = j \/ (l >= j + 1 /\ b < q[l].idx1)
      <4>1. l = j \/ (l >= j + 1 /\ j < l)
        BY <1>1, <1>3, <3>2
      <4>2. j < l => b < q[l].idx1
        BY <1>3, <2>1
      <4> QED BY <4>1, <4>2
    <3> HIDE DEF i, j, both, old
    <3> QED BY <2>2, <3>1, <3>2, <3>3, <3>4, <3>5
  <2>4. ASSUME NEW x \in both
        PROVE  /\ x \in old => Cal_idx1(x) < a
               /\ (\E k \in 1 .. Len(p) : k < i + 1 /\ p[k].idx1 = Cal_idx1(x))
                    <=> x \in old \/ Cal_idx1(x) = a
    <3>1. x \in old <=> \E k \in 1 .. Len(p) : k < i /\ p[k].idx1 = Cal_idx1(x)
      BY DEF Counted
    <3>2. x \in old => Cal_idx1(x) < a
      BY <1>2, <2>1, <3>1
    <3>3. \A k \in 1 .. Len(p) : k < i + 1 <=> k < i \/ k = i
      BY <1>1
    <3>4. (\E k \in 1 .. Len(p) : k < i + 1 /\ p[k].idx1 = Cal_idx1(x))
            <=> (\E k \in 1 .. Len(p) : k < i /\ p[k].idx1 = Cal_idx1(x)) \/ p[i].idx1 = Cal_idx1(x)
      BY <2>1, <3>3
    <3> QED BY <3>1, <3>2, <3>4
  <2>5. CASE a < b
    <3>1. r = [s EXCEPT !.i = @ + 1]
      BY <1>6, <2>2, <2>5 DEF Merged, Ended
    <3>2. r.i = i + 1 /\ r.j = j /\ r.cnt = s.cnt /\ r \in Merging
      BY <1>1, <3>1 DEF Merging
    <3>3. \A x \in both : x \notin old => Cal_idx1(x) # a
      BY <2>2, <2>3, <2>5
    <3>4. \A x \in both : x \in new <=> x \in old
      BY <2>4, <3>2, <3>3 DEF Counted
    <3>5. new = old
      BY <3>4 DEF Counted
    <3>6. ASSUME NEW x \in both, x \notin new
          PROVE  /\ \E k \in 1 .. Len(p) : k >= i + 1 /\ p[k].idx1 = Cal_idx1(x)
                 /\ \E k \in 1 .. Len(q) : k >= j /\ q[k].idx1 = Cal_idx1(x)
      BY <1>4, <2>3, <3>3, <3>5, <3>6
    <3> HIDE DEF r
    <3>7. Merge(p, q, A, B, r)
      <4> HIDE DEF i, j
      <4>1. r.i <= Len(p) + 1 /\ r.j <= Len(q) + 1
        BY <1>1, <1>2, <2>1, <3>2
      <4>2. r.cnt = Cardinality(new)
        BY <1>1, <3>2, <3>5
      <4> HIDE DEF new, old
      <4> QED BY <3>2, <3>6, <4>1, <4>2 DEF Merge, new
    <3>8. r.i + r.j > i + j
      BY <1>1, <3>2
    <3> QED BY <1>6, <3>7, <3>8 DEF r
  <2>6. CASE b < a
    <3>1. r = [s EXCEPT !.j = @ + 1]
      BY <1>6, <2>2, <2>6 DEF Merged, Ended
    <3>2. r.i = i /\ r.j = j + 1 /\ r.cnt = s.cnt /\ r \in Merging
      BY <1>1, <3>1 DEF Merging
    <3>3. \A x \in both : x \notin old => Cal_idx1(x) # b
      BY <2>2, <2>3, <2>6
    <3>5. new = old
      BY <3>2 DEF Counted
    <3>6. ASSUME NEW x \in both, x \notin new
          PROVE  /\ \E k \in 1 .. Len(p) : k >= i /\ p[k].idx1 = Cal_idx1(x)
                 /\ \E k \in 1 .. Len(q) : k >= j + 1 /\ q[k].idx1 = Cal_idx1(x)
      BY <1>4, <2>3, <3>3, <3>5, <3>6
    <3> HIDE DEF r
    <3>7. Merge(p, q, A, B, r)
      <4> HIDE DEF i, j
      <4>1. r.i <= Len(p) + 1 /\ r.j <= Len(q) + 1
        BY <1>1, <1>3, <2>1, <3>2
      <4>2. r.cnt = Cardinality(new)
        BY <1>1, <3>2, <3>5
      <4> HIDE DEF new, old
      <4> QED BY <3>2, <3>6, <4>1, <4>2 DEF Merge, new
    <3>8. r.i + r.j > i + j
      BY <1>1, <3>2
    <3> QED BY <1>6, <3>7, <3>8 DEF r
  <2>7. CASE a = b
    <3> DEFINE more == {x \in both : Cal_idx1(x) = a}
               deal == Deal_2_pressed_o_64(p[i], q[j])
    <3>1. r = [i |-> i + 1, j |-> j + 1, cnt |-> s.cnt + deal]
      BY <1>6, <2>2, <2>7 DEF Merged, Ended
    <3>2. deal = Cardinality(more)
      <4>1. HoldsBlock(p[i], A) /\ HoldsBlock(q[j], B)
        BY <1>2, <1>3, <2>1
      <4> QED BY <2>7, <4>1, DealCounts
    <3>3. IsFiniteSet(more) /\ IsFiniteSet(old)
      <4>1. more \subseteq A /\ old \subseteq A
        BY DEF Counted
      <4> QED BY <4>1, FS_Subset
    <3>4. r.i = i + 1 /\ r.j = j + 1 /\ r.cnt = s.cnt + Cardinality(more)
      BY <3>1, <3>2
    <3>5. r \in Merging
      <4>1. Cardinality(more) \in Nat
        BY <3>3, FS_CardinalityType
      <4> HIDE DEF more, deal
      <4> QED BY <1>1, <3>1, <3>2, <4>1 DEF Merging
    <3>6. \A x \in both : x \in new <=> x \in old \/ Cal_idx1(x) = a
      BY <2>4, <3>4 DEF Counted
    <3>7. new = old \cup more /\ old \cap more = {}
      <4>1. new \subseteq both /\ old \subseteq both
        BY DEF Counted
      <4>2. \A x \in both : ~(x \in old /\ Cal_idx1(x) = a)
        BY <2>2, <2>4
      <4> HIDE DEF new, old, both
      <4> QED BY <3>6, <4>1, <4>2
    <3>8. r.cnt = Cardinality(new)
      <4> HIDE DEF new, old, more
      <4> QED BY <1>1, <3>3, <3>4, <3>7, DisjointSize
    <3>9. ASSUME NEW x \in both, x \notin new
          PROVE  /\ \E k \in 1 .. Len(p) : k >= i + 1 /\ p[k].idx1 = Cal_idx1(x)
                 /\ \E k \in 1 .. Len(q) : k >= j + 1 /\ q[k].idx1 = Cal_idx1(x)
      <4>1. x \notin old /\ Cal_idx1(x) # a
        BY <3>6, <3>9
      <4> QED BY <2>3, <2>7, <4>1
    <3> HIDE DEF r
    <3>10. Merge(p, q, A, B, r)
      <4> HIDE DEF i, j
      <4>1. r.i <= Len(p) + 1 /\ r.j <= Len(q) + 1
        BY <1>1, <1>2, <1>3, <2>1, <3>4
      <4> HIDE DEF new, old, more
      <4> QED BY <3>4, <3>5, <3>8, <3>9, <4>1 DEF Merge, new
    <3>11. r.i + r.j > i + j
      BY <1>1, <3>4
    <3> QED BY <1>6, <3>10, <3>11 DEF r
  <2> QED BY <2>2, <2>5, <2>6, <2>7
<1> QED BY <1>5, <1>6

LEMMA CommonCounts ==
  ASSUME NEW A \in SUBSET Nat, IsFiniteSet(A), NEW B \in SUBSET Nat, IsFiniteSet(B),
         NEW p, NEW q, PackedAs(p, A), PackedAs(q, B)
  PROVE  Common(p, q) = Cardinality(A \cap B)
<1> DEFINE K == Len(p) + Len(q)
           first == [i |-> 1, j |-> 1, cnt |-> 0]
           Far(n, s) == Ended(p, q, s) \/ s.i + s.j >= n + 2
           F == [z \in (1 .. K) \X Merging |-> Merged(p, q, z[2])]
           J == {z \in (0 .. K) \X Merging : Merge(p, q, A, B, z[2]) /\ Far(z[1], z[2])}
           Result == CHOOSE s : s = [n \in 0 .. K |-> IF n = 0 THEN first
                                                       ELSE Merged(p, q, s[n - 1])]
<1>1. Len(p) \in Nat /\ Len(q) \in Nat /\ K \in Nat
  <2>1. Len(p) \in Nat
    BY PackedFacts
  <2>2. Len(q) \in Nat
    BY PackedFacts
  <2> QED BY <2>1, <2>2
<1>2. ASSUME NEW n \in 1 .. K, NEW s, <<n - 1, s>> \in J
      PROVE  <<n, Merged(p, q, s)>> \in J /\ F[<<n, s>>] = Merged(p, q, s)
  <2>1. s \in Merging /\ Merge(p, q, A, B, s) /\ Far(n - 1, s)
    <3> HIDE DEF Far
    <3> QED BY <1>2
  <2> DEFINE r == Merged(p, q, s)
  <2>2. Merge(p, q, A, B, r)
    BY <2>1, MergedKeeps
  <2>3. r \in Merging
    BY <2>2 DEF Merge
  <2>4. Far(n, r)
    <3>1. CASE Ended(p, q, s)
      BY <2>1, <3>1, MergedKeeps
    <3>2. CASE ~Ended(p, q, s)
      <4>1. r.i + r.j > s.i + s.j
        BY <2>1, <3>2, MergedKeeps
      <4>2. s.i \in Nat /\ s.j \in Nat /\ r.i \in Nat /\ r.j \in Nat
        BY <2>1, <2>3 DEF Merging
      <4>3. s.i + s.j >= (n - 1) + 2
        BY <2>1, <3>2
      <4> HIDE DEF r
      <4> QED BY <1>1, <4>1, <4>2, <4>3
    <3> QED BY <3>1, <3>2
  <2>5. n \in 0 .. K
    BY <1>1
  <2>6. F[<<n, s>>] = r
    BY <2>1
  <2> HIDE DEF r, Far
  <2> QED BY <2>2, <2>3, <2>4, <2>5, <2>6 DEF r
<1>3. <<0, first>> \in J
  <2>1. first \in Merging
    BY DEF Merging
  <2>2. Counted(p, A, B, first) = {}
    BY <1>1 DEF Counted
  <2>3. Cardinality(Counted(p, A, B, first)) = 0
    BY <2>2, FS_EmptySet
  <2>4. ASSUME NEW x \in A \cap B
        PROVE  /\ \E k \in 1 .. Len(p) : k >= first.i /\ p[k].idx1 = Cal_idx1(x)
               /\ \E k \in 1 .. Len(q) : k >= first.j /\ q[k].idx1 = Cal_idx1(x)
    <3>1. PICK k \in 1 .. Len(p) : p[k].idx1 = Cal_idx1(x)
      BY DEF PackedAs
    <3>2. PICK l \in 1 .. Len(q) : q[l].idx1 = Cal_idx1(x)
      BY DEF PackedAs
    <3> QED BY <1>1, <3>1, <3>2
  <2>5. Merge(p, q, A, B, first)
    BY <1>1, <2>1, <2>3, <2>4 DEF Merge
  <2>6. Far(0, first) /\ 0 \in 0 .. K
    BY <1>1
  <2> HIDE DEF first, Far
  <2> QED BY <2>1, <2>5, <2>6
<1>4. PICK w : StepsIn(K, J, first, F, w)
  <2>1. \A n \in 1 .. K : \A s : <<n - 1, s>> \in J => <<n, F[<<n, s>>]>> \in J
    BY <1>2
  <2> HIDE DEF F, J, first, K
  <2> QED BY <1>1, <1>3, <2>1, StepsWithin
<1> HIDE DEF F, J, first, K
<1>5. w = [n \in 0 .. K |-> IF n = 0 THEN first ELSE Merged(p, q, w[n - 1])]
  <2>1. ASSUME NEW n \in 0 .. K, n # 0 PROVE F[<<n, w[n - 1]>>] = Merged(p, q, w[n - 1])
    <3>1. n \in 1 .. K /\ n - 1 \in 0 .. K
      BY <1>1, <2>1
    <3> QED BY <1>2, <1>4, <3>1 DEF StepsIn
  <2> QED BY <1>4, <2>1 DEF StepsIn
<1>6. Result = [n \in 0 .. K |-> IF n = 0 THEN first ELSE Merged(p, q, Result[n - 1])]
  BY <1>5
<1> HIDE DEF Result
<1>7. <<K, Result[K]>> \in J
  <2> DEFINE T == {n \in 0 .. K : <<n, Result[n]>> \in J}
  <2>1. 0 \in T
    BY <1>1, <1>3, <1>6
  <2>2. ASSUME NEW n \in 1 .. K, n - 1 \in T PROVE n \in T
    <3>1. <<n - 1, Result[n - 1]>> \in J /\ n \in 0 .. K /\ n # 0
      BY <2>2
    <3>2. Result[n] = Merged(p, q, Result[n - 1])
      BY <1>6, <3>1
    <3>3. <<n, Result[n]>> \in J
      BY <1>2, <3>1, <3>2
    <3> QED BY <3>1, <3>3
  <2>3. \A n \in 0 .. K : n \in T
    <3> HIDE DEF T
    <3> QED BY <1>1, <2>1, <2>2, Upward
  <2> QED BY <1>1, <2>3
<1> DEFINE r == Result[K]
<1>8. Merge(p, q, A, B, r) /\ Far(K, r)
  <2> HIDE DEF Far
  <2> QED BY <1>7 DEF J
<1> HIDE DEF r
<1>9. Ended(p, q, r)
  BY <1>1, <1>8 DEF K, Ended, Merge, Merging
<1>10. A \cap B = Counted(p, A, B, r)
  <2>1. r.i \in Nat /\ r.j \in Nat
    BY <1>8 DEF Merge, Merging
  <2>2. ASSUME NEW x \in A \cap B PROVE x \in Counted(p, A, B, r)
    <3>1. SUFFICES ASSUME x \notin Counted(p, A, B, r) PROVE FALSE
      OBVIOUS
    <3>2. /\ \E k \in 1 .. Len(p) : k >= r.i
          /\ \E k \in 1 .. Len(q) : k >= r.j
      BY <1>8, <3>1 DEF Merge
    <3> QED BY <1>1, <1>9, <2>1, <3>2 DEF Ended
  <2> QED BY <2>2 DEF Counted
<1>11. Common(p, q) = r.cnt
  BY DEF Common, Rounds, r, Result, first, K
<1> QED BY <1>8, <1>10, <1>11 DEF Merge

-----------------------------------------------------------------------------
(* The binary search: an answer is right, and while there is none the      *)
(* block can only be between the bounds.                                   *)
Searching == [less : Int, greater : Int, at : Int]
Search(vec, i, s) ==
  /\ s \in Searching /\ 0 <= s.less /\ s.greater <= Len(vec) - 1
  /\ s.at # -1 => s.at + 1 \in 1 .. Len(vec) /\ vec[s.at + 1].idx1 = i
  /\ s.at = -1 => \A k \in 1 .. Len(vec) :
                    vec[k].idx1 = i => s.less + 1 <= k /\ k <= s.greater + 1
Closed(s) == s.at # -1 \/ s.less > s.greater

LEMMA HalvedKeeps ==
  ASSUME NEW A, NEW vec, PackedAs(vec, A), NEW i \in Int, NEW s, Search(vec, i, s)
  PROVE  /\ Search(vec, i, Halved(vec, i, s))
         /\ IF Closed(s) THEN Halved(vec, i, s) = s
            ELSE Closed(Halved(vec, i, s))
                 \/ Halved(vec, i, s).greater - Halved(vec, i, s).less < s.greater - s.less
<1> DEFINE r == Halved(vec, i, s)
           mid == (s.less + s.greater) \div 2
           m == mid + 1
<1>1. s \in Searching /\ s.less \in Nat /\ s.greater \in Int /\ s.at \in Int
      /\ s.greater <= Len(vec) - 1
  BY DEF Search, Searching
<1>2. /\ Len(vec) \in Nat
      /\ \A k \in 1 .. Len(vec) : vec[k].idx1 \in Int
      /\ \A k, l \in 1 .. Len(vec) : k < l => vec[k].idx1 < vec[l].idx1
  BY PackedFacts
<1>3. CASE Closed(s)
  BY <1>3 DEF Closed, Halved
<1>4. CASE ~Closed(s)
  <2>1. s.at = -1 /\ s.less <= s.greater
    BY <1>1, <1>4 DEF Closed
  <2>2. mid \in Nat /\ s.less <= mid /\ mid <= s.greater
    BY <1>1, <2>1
  <2> HIDE DEF mid
  <2>3. m \in 1 .. Len(vec) /\ vec[m].idx1 \in Int
    BY <1>1, <1>2, <2>2
  <2>4. \A k \in 1 .. Len(vec) : vec[k].idx1 = i => s.less + 1 <= k /\ k <= s.greater + 1
    BY <2>1 DEF Search
  <2>5. CASE i = vec[m].idx1
    <3>1. r = [s EXCEPT !.at = mid]
      BY <2>1, <1>4, <2>3, <2>5 DEF Closed, Halved, mid
    <3>2. r \in Searching /\ r.less = s.less /\ r.greater = s.greater /\ r.at = mid
      BY <1>1, <2>2, <3>1 DEF Searching
    <3>3. r.at # -1
      BY <2>2, <3>2
    <3> HIDE DEF r
    <3>4. Search(vec, i, r)
      BY <1>1, <2>3, <2>5, <3>2, <3>3 DEF Search
    <3>5. Closed(r)
      BY <3>3 DEF Closed
    <3> QED BY <1>4, <3>4, <3>5 DEF r
  <2>6. CASE i < vec[m].idx1
    <3>1. r = [s EXCEPT !.greater = mid - 1]
      BY <1>4, <2>3, <2>6 DEF Closed, Halved, mid
    <3>2. r \in Searching /\ r.less = s.less /\ r.greater = mid - 1 /\ r.at = s.at
      BY <1>1, <2>2, <3>1 DEF Searching
    <3>3. \A k \in 1 .. Len(vec) : vec[k].idx1 = i => k < m
      <4> TAKE k \in 1 .. Len(vec)
      <4> HAVE vec[k].idx1 = i
      <4>1. m < k => vec[m].idx1 < i
        BY <1>2, <2>3
      <4>2. m # k /\ ~(m < k)
        BY <2>3, <2>6, <4>1
      <4> QED BY <1>2, <2>2, <4>2
    <3> HIDE DEF r
    <3>4. Search(vec, i, r)
      BY <1>1, <1>2, <2>1, <2>2, <2>4, <3>2, <3>3 DEF Search
    <3>5. r.greater - r.less < s.greater - s.less
      BY <1>1, <2>2, <3>2
    <3> QED BY <1>4, <3>4, <3>5 DEF r
  <2>7. CASE i > vec[m].idx1
    <3>1. r = [s EXCEPT !.less = mid + 1]
      BY <1>4, <2>3, <2>7 DEF Closed, Halved, mid
    <3>2. r \in Searching /\ r.less = mid + 1 /\ r.greater = s.greater /\ r.at = s.at
      BY <1>1, <2>2, <3>1 DEF Searching
    <3>3. \A k \in 1 .. Len(vec) : vec[k].idx1 = i => m < k
      <4> TAKE k \in 1 .. Len(vec)
      <4> HAVE vec[k].idx1 = i
      <4>1. k < m => i < vec[m].idx1
        BY <1>2, <2>3
      <4>2. m # k /\ ~(k < m)
        BY <2>3, <2>7, <4>1
      <4> QED BY <1>2, <2>2, <4>2
    <3> HIDE DEF r
    <3>4. Search(vec, i, r)
      BY <1>1, <1>2, <2>1, <2>2, <2>4, <3>2, <3>3 DEF Search
    <3>5. r.greater - r.less < s.greater - s.less
      BY <1>1, <2>2, <3>2
    <3> QED BY <1>4, <3>4, <3>5 DEF r
  <2> QED BY <2>3, <2>5, <2>6, <2>7
<1> QED BY <1>3, <1>4

LEMMA PosFinds ==
  ASSUME NEW A, NEW vec, PackedAs(vec, A), NEW i \in Int
  PROVE  IF \E k \in 1 .. Len(vec) : vec[k].idx1 = i
         THEN Pos(vec, i) \in Nat /\ Pos(vec, i) + 1 \in 1 .. Len(vec)
              /\ vec[Pos(vec, i) + 1].idx1 = i
         ELSE Pos(vec, i) = -1
<1> DEFINE K == Len(vec)
           first == [less |-> 0, greater |-> K - 1, at |-> -1]
           Far(n, s) == Closed(s) \/ s.greater - s.less + 1 <= K - n
           F == [z \in (1 .. K) \X Searching |-> Halved(vec, i, z[2])]
           J == {z \in (0 .. K) \X Searching : Search(vec, i, z[2]) /\ Far(z[1], z[2])}
           Result == CHOOSE s : s = [n \in 0 .. K |-> IF n = 0 THEN first
                                                       ELSE Halved(vec, i, s[n - 1])]
<1>1. K \in Nat
  BY PackedFacts
<1>2. ASSUME NEW n \in 1 .. K, NEW s, <<n - 1, s>> \in J
      PROVE  <<n, Halved(vec, i, s)>> \in J /\ F[<<n, s>>] = Halved(vec, i, s)
  <2>1. s \in Searching /\ Search(vec, i, s) /\ Far(n - 1, s)
    <3> HIDE DEF Far
    <3> QED BY <1>2
  <2> DEFINE r == Halved(vec, i, s)
  <2>2. Search(vec, i, r)
    BY <2>1, HalvedKeeps
  <2>3. r \in Searching
    BY <2>2 DEF Search
  <2>4. Far(n, r)
    <3>1. CASE Closed(s)
      BY <2>1, <3>1, HalvedKeeps
    <3>2. CASE ~Closed(s)
      <4>1. Closed(r) \/ r.greater - r.less < s.greater - s.less
        BY <2>1, <3>2, HalvedKeeps
      <4>2. s.less \in Int /\ s.greater \in Int /\ r.less \in Int /\ r.greater \in Int
        BY <2>1, <2>3 DEF Searching
      <4>3. s.greater - s.less + 1 <= K - (n - 1)
        BY <2>1, <3>2
      <4> HIDE DEF r, K
      <4> QED BY <1>1, <4>1, <4>2, <4>3
    <3> QED BY <3>1, <3>2
  <2>5. n \in 0 .. K
    BY <1>1
  <2>6. F[<<n, s>>] = r
    BY <2>1
  <2> HIDE DEF r, Far
  <2> QED BY <2>2, <2>3, <2>4, <2>5, <2>6 DEF r
<1>3. <<0, first>> \in J
  <2>1. first \in Searching
    BY <1>1 DEF Searching
  <2>2. Search(vec, i, first)
    BY <1>1, <2>1 DEF Search
  <2>3. Far(0, first) /\ 0 \in 0 .. K
    BY <1>1
  <2> HIDE DEF first, Far, K
  <2> QED BY <2>1, <2>2, <2>3
<1>4. PICK w : StepsIn(K, J, first, F, w)
  <2>1. \A n \in 1 .. K : \A s : <<n - 1, s>> \in J => <<n, F[<<n, s>>]>> \in J
    BY <1>2
  <2> HIDE DEF F, J, first, K
  <2> QED BY <1>1, <1>3, <2>1, StepsWithin
<1> HIDE DEF F, J, first, K
<1>5. w = [n \in 0 .. K |-> IF n = 0 THEN first ELSE Halved(vec, i, w[n - 1])]
  <2>1. ASSUME NEW n \in 0 .. K, n # 0 PROVE F[<<n, w[n - 1]>>] = Halved(vec, i, w[n - 1])
    <3>1. n \in 1 .. K /\ n - 1 \in 0 .. K
      BY <1>1, <2>1
    <3> QED BY <1>2, <1>4, <3>1 DEF StepsIn
  <2> QED BY <1>4, <2>1 DEF StepsIn
<1>6. Result = [n \in 0 .. K |-> IF n = 0 THEN first ELSE Halved(vec, i, Result[n - 1])]
  BY <1>5
<1> HIDE DEF Result
<1>7. <<K, Result[K]>> \in J
  <2> DEFINE T == {n \in 0 .. K : <<n, Result[n]>> \in J}
  <2>1. 0 \in T
    BY <1>1, <1>3, <1>6
  <2>2. ASSUME NEW n \in 1 .. K, n - 1 \in T PROVE n \in T
    <3>1. <<n - 1, Result[n - 1]>> \in J /\ n \in 0 .. K /\ n # 0
      BY <2>2
    <3>2. Result[n] = Halved(vec, i, Result[n - 1])
      BY <1>6, <3>1
    <3>3. <<n, Result[n]>> \in J
      BY <1>2, <3>1, <3>2
    <3> QED BY <3>1, <3>3
  <2>3. \A n \in 0 .. K : n \in T
    <3> HIDE DEF T
    <3> QED BY <1>1, <2>1, <2>2, Upward
  <2> QED BY <1>1, <2>3
<1> DEFINE r == Result[K]
<1>8. Search(vec, i, r) /\ Far(K, r)
  <2> HIDE DEF Far
  <2> QED BY <1>7 DEF J
<1> HIDE DEF r
<1>9. r.less \in Int /\ r.greater \in Int /\ r.at \in Int
  BY <1>8 DEF Search, Searching
<1>10. Closed(r)
  BY <1>1, <1>8, <1>9 DEF Closed
<1>11. Pos(vec, i) = r.at
  BY DEF Pos, Rounds, r, Result, first, K
<1>12. CASE r.at # -1
  BY <1>1, <1>8, <1>9, <1>11, <1>12 DEF Search, K
<1>13. CASE r.at = -1
  <2>1. \A k \in 1 .. Len(vec) : vec[k].idx1 # i
    BY <1>1, <1>8, <1>9, <1>10, <1>13 DEF Search, Closed, K
  <2> QED BY <1>11, <1>13, <2>1
<1> QED BY <1>12, <1>13

(* An id is found in the packed list exactly when it was packed.           *)
LEMMA IdInCorrect ==
  ASSUME NEW A \in SUBSET Nat, NEW vec, PackedAs(vec, A), NEW x \in Nat
  PROVE  Id_in(vec, x) <=> x \in A
<1> DEFINE i == Cal_idx1(x)
           w == Cal_idx2(x)
           t == Cal_idx3(x)
           p == Pos(vec, i)
<1>1. i \in Int
  BY Parts
<1>2. CASE \E k \in 1 .. Len(vec) : vec[k].idx1 = i
  <2>1. p \in Nat /\ p + 1 \in 1 .. Len(vec) /\ vec[p + 1].idx1 = i
    BY <1>1, <1>2, PosFinds
  <2> DEFINE b == vec[p + 1]
  <2>2. HoldsBlock(b, A)
    BY <2>1, PackedFacts
  <2> HIDE DEF p
  <2>3. b.idx2 = WordsOf(A, i) /\ WordsKept(b.val, b.idx2, A, i)
    BY <2>1, <2>2 DEF HoldsBlock
  <2>4. Id_in(vec, x) <=> w \in b.idx2 /\ t \in b.val[1 + Between(b.idx2, 0, w)]
    BY <2>1 DEF Id_in, p
  <2>5. x \in A => w \in b.idx2 /\ t \in WordOf(A, i, w)
    BY <2>3 DEF WordsOf, WordOf
  <2>6. w \in b.idx2 => b.val[1 + Between(b.idx2, 0, w)] = WordOf(A, i, w)
    BY <2>3 DEF WordsKept
  <2>7. t \in WordOf(A, i, w) => x \in A
    <3>1. SUFFICES ASSUME t \in WordOf(A, i, w) PROVE x \in A
      OBVIOUS
    <3>2. PICK y \in A : Cal_idx1(y) = i /\ Cal_idx2(y) = w /\ Cal_idx3(y) = t
      BY <3>1 DEF WordOf
    <3>3. x = y
      BY <3>2, PartsTell
    <3> QED BY <3>3
  <2> QED BY <2>4, <2>5, <2>6, <2>7
<1>3. CASE ~\E k \in 1 .. Len(vec) : vec[k].idx1 = i
  <2>1. p = -1
    BY <1>1, <1>3, PosFinds
  <2>2. x \notin A
    BY <1>3 DEF PackedAs
  <2> QED BY <2>1, <2>2 DEF Id_in
<1> QED BY <1>2, <1>3

-----------------------------------------------------------------------------
(* The new numbers: the queue takes no vertex twice, every round handles a *)
(* vertex or adds one, and after 2 |V| rounds no vertex is missing.        *)
Queue(V, o) == o \in Seq(V) /\ \A m, n \in 1 .. Len(o) : o[m] = o[n] => m = n

LEMMA QueueFacts ==
  ASSUME NEW V, IsFiniteSet(V), NEW o, Queue(V, o)
  PROVE  /\ Len(o) \in Nat /\ Cardinality(V) \in Nat /\ Len(o) <= Cardinality(V)
         /\ Range(o) \subseteq V
         /\ Len(o) = Cardinality(V) <=> Range(o) = V
<1>1. Len(o) \in Nat /\ DOMAIN o = 1 .. Len(o) /\ \A n \in 1 .. Len(o) : o[n] \in V
  BY DEF Queue
<1>2. Range(o) = {o[n] : n \in 1 .. Len(o)} /\ Range(o) \subseteq V
  BY <1>1 DEF Range
<1>3. IsFiniteSet(1 .. Len(o)) /\ Cardinality(1 .. Len(o)) = Len(o)
  BY <1>1, FS_Interval
<1>4. Cardinality(Range(o)) = Len(o)
  BY <1>2, <1>3, ImageSize DEF Queue
<1>5. Cardinality(V) \in Nat /\ Cardinality(Range(o)) <= Cardinality(V)
      /\ (Cardinality(V) = Cardinality(Range(o)) => V = Range(o))
  BY <1>2, FS_CardinalityType, FS_Subset
<1> QED BY <1>1, <1>2, <1>4, <1>5

LEMMA AppendQueues ==
  ASSUME NEW V, NEW o, Queue(V, o), NEW k \in V, k \notin Range(o)
  PROVE  Queue(V, Append(o, k)) /\ Len(Append(o, k)) = Len(o) + 1
<1> DEFINE r == Append(o, k)
<1>1. o \in Seq(V) /\ Len(o) \in Nat /\ DOMAIN o = 1 .. Len(o)
  BY DEF Queue
<1>2. r \in Seq(V) /\ Len(r) = Len(o) + 1 /\ r[Len(o) + 1] = k
      /\ \A n \in 1 .. Len(o) : r[n] = o[n]
  BY <1>1
<1>3. \A n \in 1 .. Len(o) : o[n] # k
  BY <1>1 DEF Range
<1> HIDE DEF r
<1>4. ASSUME NEW m \in 1 .. Len(r), NEW n \in 1 .. Len(r), r[m] = r[n]
      PROVE  m = n
  <2>1. (m \in 1 .. Len(o) \/ m = Len(o) + 1) /\ (n \in 1 .. Len(o) \/ n = Len(o) + 1)
    BY <1>1, <1>2
  <2>2. CASE m \in 1 .. Len(o) /\ n \in 1 .. Len(o)
    BY <1>2, <1>4, <2>2 DEF Queue
  <2>3. CASE m = Len(o) + 1 /\ n = Len(o) + 1
    BY <2>3
  <2>4. CASE m \in 1 .. Len(o) /\ n = Len(o) + 1
    BY <1>2, <1>3, <1>4, <2>4
  <2>5. CASE m = Len(o) + 1 /\ n \in 1 .. Len(o)
    BY <1>2, <1>3, <1>4, <2>5
  <2> QED BY <2>1, <2>2, <2>3, <2>4, <2>5
<1>5. Queue(V, r)
  BY <1>2, <1>4 DEF Queue
<1> QED BY <1>2, <1>5 DEF r

LEMMA QueuedKeeps ==
  ASSUME NEW V, NEW o, Queue(V, o), NEW k \in V
  PROVE  Queue(V, Queued(o, k)) /\ Len(Queued(o, k)) >= Len(o)
<1>1. Len(o) \in Nat
  BY DEF Queue
<1>2. CASE k \in Range(o)
  BY <1>1, <1>2 DEF Queued
<1>3. CASE k \notin Range(o)
  BY <1>1, <1>3, AppendQueues DEF Queued
<1> QED BY <1>2, <1>3

(* All neighbours of a vertex, one by one.                                 *)
LEMMA ExpandedKeeps ==
  ASSUME NEW V, NEW adj \in [V -> Seq(V)], NEW s, Queue(V, s.order),
         s.done \in Nat, s.done < Len(s.order)
  PROVE  LET r == Expanded(adj, s)
         IN  /\ r = [order |-> r.order, done |-> s.done + 1]
             /\ Queue(V, r.order) /\ Len(r.order) >= Len(s.order)
<1> DEFINE first == s.order
           near == adj[s.order[s.done + 1]]
           K == Len(near)
           F == [z \in (1 .. K) \X Seq(V) |-> Queued(z[2], near[z[1]])]
           J == {z \in (0 .. K) \X Seq(V) : Queue(V, z[2]) /\ Len(z[2]) >= Len(first)}
           Result == CHOOSE o : o = [n \in 0 .. K |-> IF n = 0 THEN first
                                                       ELSE Queued(o[n - 1], near[n])]
<1>1. s.order \in Seq(V) /\ Len(first) \in Nat
  BY DEF Queue
<1>2. near \in Seq(V) /\ K \in Nat /\ \A n \in 1 .. K : near[n] \in V
  <2>1. s.done + 1 \in 1 .. Len(s.order)
    BY <1>1
  <2>2. s.order[s.done + 1] \in V
    BY <1>1, <2>1
  <2> QED BY <2>2
<1> HIDE DEF near, K
<1>3. ASSUME NEW n \in 1 .. K, NEW o, <<n - 1, o>> \in J
      PROVE  <<n, Queued(o, near[n])>> \in J /\ F[<<n, o>>] = Queued(o, near[n])
  <2>1. o \in Seq(V) /\ Queue(V, o) /\ Len(o) >= Len(first)
    BY <1>3
  <2> DEFINE r == Queued(o, near[n])
  <2>2. Queue(V, r) /\ Len(r) >= Len(o)
    BY <1>2, <2>1, QueuedKeeps
  <2>3. r \in Seq(V) /\ Len(r) \in Nat /\ Len(o) \in Nat
    BY <2>1, <2>2 DEF Queue
  <2>4. n \in 0 .. K
    BY <1>2
  <2>5. F[<<n, o>>] = r
    BY <2>1
  <2>6. Len(r) >= Len(first)
    BY <1>1, <2>1, <2>2, <2>3
  <2> HIDE DEF r, first
  <2> QED BY <2>2, <2>3, <2>4, <2>5, <2>6 DEF r
<1>4. <<0, first>> \in J
  BY <1>1, <1>2
<1>5. PICK w : StepsIn(K, J, first, F, w)
  <2>1. \A n \in 1 .. K : \A o : <<n - 1, o>> \in J => <<n, F[<<n, o>>]>> \in J
    BY <1>3
  <2> HIDE DEF F, J, first
  <2> QED BY <1>2, <1>4, <2>1, StepsWithin
<1> HIDE DEF F, J, first
<1>6. w = [n \in 0 .. K |-> IF n = 0 THEN first ELSE Queued(w[n - 1], near[n])]
  <2>1. ASSUME NEW n \in 0 .. K, n # 0 PROVE F[<<n, w[n - 1]>>] = Queued(w[n - 1], near[n])
    <3>1. n \in 1 .. K /\ n - 1 \in 0 .. K
      BY <1>2, <2>1
    <3> QED BY <1>3, <1>5, <3>1 DEF StepsIn
  <2> QED BY <1>5, <2>1 DEF StepsIn
<1>7. Result = [n \in 0 .. K |-> IF n = 0 THEN first ELSE Queued(Result[n - 1], near[n])]
  BY <1>6
<1> HIDE DEF Result
<1>8. <<K, Result[K]>> \in J
  <2> DEFINE T == {n \in 0 .. K : <<n, Result[n]>> \in J}
  <2>1. 0 \in T
    BY <1>2, <1>4, <1>7
  <2>2. ASSUME NEW n \in 1 .. K, n - 1 \in T PROVE n \in T
    <3>1. <<n - 1, Result[n - 1]>> \in J /\ n \in 0 .. K /\ n # 0
      BY <2>2
    <3>2. Result[n] = Queued(Result[n - 1], near[n])
      BY <1>7, <3>1
    <3>3. <<n, Result[n]>> \in J
      BY <1>3, <3>1, <3>2
    <3> QED BY <3>1, <3>3
  <2>3. \A n \in 0 .. K : n \in T
    <3> HIDE DEF T
    <3> QED BY <1>2, <2>1, <2>2, Upward
  <2> QED BY <1>2, <2>3
<1>9. Queue(V, Result[K]) /\ Len(Result[K]) >= Len(s.order)
  BY <1>8 DEF J, first
<1>10. Expanded(adj, s) = [order |-> Result[K], done |-> s.done + 1]
  BY DEF Expanded, Rounds, Result, near, first, K
<1> QED BY <1>9, <1>10

(* A vertex to start from is there as long as one is missing.              *)
LEMMA SeededKeeps ==
  ASSUME NEW V \in SUBSET Nat, IsFiniteSet(V), NEW cores \in [V -> Nat],
         NEW s \in [order : Seq(V), done : Nat], Queue(V, s.order)
  PROVE  LET r == Seeded(cores, s)
         IN  /\ r = [order |-> r.order, done |-> s.done]
             /\ Queue(V, r.order) /\ Len(r.order) >= Len(s.order)
             /\ Range(s.order) # V => Len(r.order) = Len(s.order) + 1
<1> DEFINE rest == V \ Range(s.order)
           Starts(j) == \A k \in rest : \/ cores[k] < cores[j]
                                        \/ cores[k] = cores[j] /\ j <= k
           next == CHOOSE j \in rest : Starts(j)
<1>1. Range(s.order) \subseteq V /\ Len(s.order) \in Nat
  BY QueueFacts
<1>2. Seeded(cores, s) = IF rest = {} THEN s ELSE [s EXCEPT !.order = Append(@, next)]
  BY DEF Seeded
<1>3. CASE rest = {}
  BY <1>1, <1>2, <1>3
<1>4. CASE rest # {}
  <2>1. \E k \in rest : Starts(k)
    <3> DEFINE C == {cores[k] : k \in rest}
    <3>1. IsFiniteSet(rest)
      BY FS_Subset
    <3>2. IsFiniteSet(C)
      <4> HIDE DEF rest
      <4> QED BY <3>1, FiniteImage
    <3>3. C \in SUBSET Nat /\ C # {}
      BY <1>4
    <3>4. PICK c \in C : \A d \in C : d <= c
      <4> HIDE DEF C
      <4> QED BY <3>2, <3>3, FiniteHasGreatest
    <3> DEFINE T == {k \in rest : cores[k] = c}
    <3>5. T \in SUBSET Nat /\ T # {}
      OBVIOUS
    <3>6. PICK k \in T : \A l \in T : k <= l
      <4> HIDE DEF T
      <4> QED BY <3>5, LeastElement
    <3>7. ASSUME NEW l \in rest PROVE cores[l] < cores[k] \/ (cores[l] = cores[k] /\ k <= l)
      <4>1. cores[l] \in C /\ cores[l] <= c /\ cores[k] = c /\ cores[l] \in Nat /\ c \in Nat
        BY <3>3, <3>4
      <4>2. CASE cores[l] = c
        BY <3>6, <4>1, <4>2
      <4> QED BY <4>1, <4>2
    <3> QED BY <3>7
  <2>2. next \in rest
    <3> HIDE DEF Starts, rest
    <3> QED BY <2>1
  <2> HIDE DEF next
  <2> DEFINE longer == Append(s.order, next)
             r == [s EXCEPT !.order = longer]
  <2>3. r = [order |-> Append(s.order, next), done |-> s.done]
    <3> HIDE DEF rest, longer
    <3>1. r = [order |-> longer, done |-> s.done]
      OBVIOUS
    <3> QED BY <3>1 DEF longer
  <2>4. Queue(V, Append(s.order, next)) /\ Len(Append(s.order, next)) = Len(s.order) + 1
    BY <2>2, AppendQueues
  <2> HIDE DEF rest
  <2>5. Seeded(cores, s) = [order |-> Append(s.order, next), done |-> s.done]
    BY <1>2, <1>4, <2>3
  <2>6. Len(Append(s.order, next)) >= Len(s.order)
    BY <1>1, <2>4
  <2> QED BY <2>4, <2>5, <2>6
<1> QED BY <1>3, <1>4

Queueing(V) == [order : Seq(V), done : Nat]

LEMMA AllQueued ==
  ASSUME NEW V \in SUBSET Nat, IsFiniteSet(V), NEW adj \in [V -> Seq(V)],
         NEW cores \in [V -> Nat]
  PROVE  Queue(V, reordered_2_cnns(adj, cores)) /\ Range(reordered_2_cnns(adj, cores)) = V
<1> DEFINE size == Cardinality(V)
           K == 2 * size
           first == [order |-> <<>>, done |-> 0]
           Step(s) == IF s.done < Len(s.order) THEN Expanded(adj, s) ELSE Seeded(cores, s)
           Far(n, s) == s.done <= Len(s.order)
                        /\ (s.done + Len(s.order) >= n \/ Len(s.order) = size)
           F == [z \in (1 .. K) \X Queueing(V) |-> Step(z[2])]
           J == {z \in (0 .. K) \X Queueing(V) : Queue(V, z[2].order) /\ Far(z[1], z[2])}
           Result == CHOOSE s : s = [n \in 0 .. K |-> IF n = 0 THEN first ELSE Step(s[n - 1])]
<1>1. size \in Nat /\ K \in Nat
  BY FS_CardinalityType
<1> HIDE DEF size, K
<1>2. ASSUME NEW n \in 1 .. K, NEW s, <<n - 1, s>> \in J
      PROVE  <<n, Step(s)>> \in J /\ F[<<n, s>>] = Step(s)
  <2>1. s \in Queueing(V) /\ Queue(V, s.order) /\ Far(n - 1, s)
    <3> HIDE DEF Far
    <3> QED BY <1>2
  <2>2. s \in [order : Seq(V), done : Nat] /\ s.done \in Nat /\ s.order \in Seq(V)
    BY <2>1 DEF Queueing
  <2>3. Len(s.order) \in Nat /\ Len(s.order) <= size /\ (Len(s.order) = size <=> Range(s.order) = V)
    BY <2>1, QueueFacts DEF size
  <2> DEFINE r == Step(s)
  <2>4. r \in Queueing(V) /\ Queue(V, r.order) /\ Far(n, r)
    <3>1. CASE s.done < Len(s.order)
      <4> DEFINE e == Expanded(adj, s)
      <4>1. /\ e = [order |-> e.order, done |-> s.done + 1]
            /\ Queue(V, e.order) /\ Len(e.order) >= Len(s.order)
        BY <2>1, <2>2, <3>1, ExpandedKeeps
      <4>2. Len(e.order) \in Nat /\ Len(e.order) <= size /\ e.order \in Seq(V)
        BY <4>1, QueueFacts DEF size, Queue
      <4>3. r = e
        BY <3>1
      <4> HIDE DEF e, r
      <4>4. e.done = s.done + 1
        BY <4>1
      <4>5. e \in Queueing(V)
        BY <2>2, <4>1, <4>2 DEF Queueing
      <4>6. Far(n, e)
        <5>1. e.done <= Len(e.order)
          BY <2>2, <2>3, <3>1, <4>1, <4>2, <4>4
        <5>2. CASE Len(s.order) = size
          BY <1>1, <4>1, <4>2, <5>1, <5>2
        <5>3. CASE s.done + Len(s.order) >= n - 1
          <6>1. e.done + Len(e.order) >= n
            BY <1>1, <2>2, <2>3, <4>1, <4>2, <4>4, <5>3
          <6> QED BY <5>1, <6>1
        <5> QED BY <2>1, <5>2, <5>3
      <4> HIDE DEF Far
      <4> QED BY <4>1, <4>3, <4>5, <4>6
    <3>2. CASE ~(s.done < Len(s.order))
      <4> DEFINE e == Seeded(cores, s)
      <4>1. /\ e = [order |-> e.order, done |-> s.done]
            /\ Queue(V, e.order) /\ Len(e.order) >= Len(s.order)
            /\ Range(s.order) # V => Len(e.order) = Len(s.order) + 1
        BY <2>1, <2>2, SeededKeeps
      <4>2. Len(e.order) \in Nat /\ Len(e.order) <= size /\ e.order \in Seq(V)
        BY <4>1, QueueFacts DEF size, Queue
      <4>3. r = e
        BY <3>2
      <4> HIDE DEF e, r
      <4>4. e.done = s.done
        BY <4>1
      <4>5. e \in Queueing(V)
        BY <2>2, <4>1, <4>2 DEF Queueing
      <4>6. Far(n, e)
        BY <1>1, <2>1, <2>2, <2>3, <3>2, <4>1, <4>2, <4>4
      <4> HIDE DEF Far
      <4> QED BY <4>1, <4>3, <4>5, <4>6
    <3> QED BY <3>1, <3>2
  <2>5. n \in 0 .. K
    BY <1>1
  <2>6. F[<<n, s>>] = r
    <3> HIDE DEF Step
    <3> QED BY <2>1
  <2> HIDE DEF r, Far
  <2> QED BY <2>4, <2>5, <2>6 DEF r
<1>3. <<0, first>> \in J
  <2>1. first \in Queueing(V)
    BY DEF Queueing
  <2>2. Queue(V, first.order)
    BY DEF Queue
  <2>3. Far(0, first) /\ 0 \in 0 .. K
    BY <1>1
  <2> HIDE DEF first, Far
  <2> QED BY <2>1, <2>2, <2>3
<1> HIDE DEF Step
<1>4. PICK w : StepsIn(K, J, first, F, w)
  <2>1. \A n \in 1 .. K : \A s : <<n - 1, s>> \in J => <<n, F[<<n, s>>]>> \in J
    BY <1>2
  <2> HIDE DEF F, J, first
  <2> QED BY <1>1, <1>3, <2>1, StepsWithin
<1> HIDE DEF F, J, first
<1>5. w = [n \in 0 .. K |-> IF n = 0 THEN first ELSE Step(w[n - 1])]
  <2>1. ASSUME NEW n \in 0 .. K, n # 0 PROVE F[<<n, w[n - 1]>>] = Step(w[n - 1])
    <3>1. n \in 1 .. K /\ n - 1 \in 0 .. K
      BY <1>1, <2>1
    <3> QED BY <1>2, <1>4, <3>1 DEF StepsIn
  <2> QED BY <1>4, <2>1 DEF StepsIn
<1>6. Result = [n \in 0 .. K |-> IF n = 0 THEN first ELSE Step(Result[n - 1])]
  BY <1>5
<1> HIDE DEF Result
<1>7. <<K, Result[K]>> \in J
  <2> DEFINE T == {n \in 0 .. K : <<n, Result[n]>> \in J}
  <2>1. 0 \in T
    BY <1>1, <1>3, <1>6
  <2>2. ASSUME NEW n \in 1 .. K, n - 1 \in T PROVE n \in T
    <3>1. <<n - 1, Result[n - 1]>> \in J /\ n \in 0 .. K /\ n # 0
      BY <2>2
    <3>2. Result[n] = Step(Result[n - 1])
      BY <1>6, <3>1
    <3>3. <<n, Result[n]>> \in J
      BY <1>2, <3>1, <3>2
    <3> QED BY <3>1, <3>3
  <2>3. \A n \in 0 .. K : n \in T
    <3> HIDE DEF T
    <3> QED BY <1>1, <2>1, <2>2, Upward
  <2> QED BY <1>1, <2>3
<1> DEFINE r == Result[K]
<1>8. r \in Queueing(V) /\ Queue(V, r.order) /\ Far(K, r)
  <2> HIDE DEF Far
  <2> QED BY <1>7 DEF J
<1> HIDE DEF r
<1>9. Len(r.order) \in Nat /\ Len(r.order) <= size /\ (Len(r.order) = size => Range(r.order) = V)
  BY <1>8, QueueFacts DEF size
<1>10. r.done \in Nat
  BY <1>8 DEF Queueing
<1>11. Len(r.order) = size
  BY <1>1, <1>8, <1>9, <1>10 DEF K
<1>12. reordered_2_cnns(adj, cores) = r.order
  BY DEF reordered_2_cnns, Rounds, r, Result, first, Step, K, size
<1> QED BY <1>8, <1>9, <1>11, <1>12

(* No number is given twice.                                               *)
LEMMA Renumbered ==
  ASSUME NEW V \in SUBSET Nat, IsFiniteSet(V), NEW adj \in [V -> Seq(V)],
         NEW cores \in [V -> Nat]
  PROVE  /\ cnns_2_reordered(adj, cores) \in [V -> Nat]
         /\ \A u, v \in V :
              cnns_2_reordered(adj, cores)[u] = cnns_2_reordered(adj, cores)[v] => u = v
<1> DEFINE order == reordered_2_cnns(adj, cores)
           r == cnns_2_reordered(adj, cores)
           Spots(v) == {i \in 1 .. Len(order) : order[i] = v}
<1>1. Queue(V, order) /\ Range(order) = V
  BY AllQueued
<1>2. order \in Seq(V) /\ Len(order) \in Nat /\ DOMAIN order = 1 .. Len(order)
  BY <1>1 DEF Queue
<1>3. r = [v \in V |-> SelectInSeq(order, LAMBDA u : u = v) - 1]
  BY DEF cnns_2_reordered
<1> HIDE DEF order, r
<1>4. ASSUME NEW v \in V
      PROVE  r[v] \in Nat /\ order[r[v] + 1] = v
  <2>1. \E i \in 1 .. Len(order) : order[i] = v
    BY <1>1, <1>2 DEF Range
  <2>2. SelectInSeq(order, LAMBDA u : u = v) = Min(Spots(v))
    BY <2>1 DEF SelectInSeq
  <2>3. PICK i \in Spots(v) : \A k \in Spots(v) : i <= k
    <3>1. Spots(v) \in SUBSET Nat /\ Spots(v) # {}
      BY <2>1
    <3> HIDE DEF Spots
    <3> QED BY <3>1, LeastElement
  <2>4. Min(Spots(v)) \in Spots(v)
    <3> HIDE DEF Spots
    <3> QED BY <2>3 DEF Min
  <2>5. r[v] = Min(Spots(v)) - 1
    BY <1>3, <2>2
  <2> QED BY <1>2, <2>4, <2>5
<1>5. r \in [V -> Nat]
  BY <1>3, <1>4
<1> QED BY <1>4, <1>5 DEF r

Once(V, number) == \A x, y \in V : number[x] = number[y] => x = y

DistanceIn(adj, u, v) ==
  IF Range(adj[u]) = {} \/ Range(adj[v]) = {} THEN [base |-> 6, num |-> 0, den |-> 1]
  ELSE [base |-> IF Cardinality(Range(adj[u]) \cap Range(adj[v])) = 0 THEN 4
                 ELSE IF u = v \/ v \in Range(adj[u]) THEN 0 ELSE 2,
        num |-> Cardinality(Range(adj[u])) - Cardinality(Range(adj[u]) \cap Range(adj[v])),
        den |-> Cardinality(Range(adj[u]))]

(* Packed under any numbering that gives no number twice, two vertices are *)
(* as far apart as the graph says.                                         *)
LEMMA DistanceOfGraph ==
  ASSUME NEW V, IsFiniteSet(V), NEW adj \in [V -> Seq(V)], NEW number \in [V -> Nat],
         Once(V, number), NEW u \in V, NEW v \in V
  PROVE  neighDist(Structure_data(u, adj, number), Structure_data(v, adj, number))
           = DistanceIn(adj, u, v)
<1> DEFINE near(x) == Range(adj[x])
           ids(x) == {number[y] : y \in near(x)}
           p == Structure_data(u, adj, number)
           q == Structure_data(v, adj, number)
           both == near(u) \cap near(v)
           cnt == Common(p.neigh_vec, q.neigh_vec)
<1> USE DEF Once
<1>1. ASSUME NEW x \in V
      PROVE  /\ near(x) \subseteq V /\ IsFiniteSet(near(x))
             /\ ids(x) \in SUBSET Nat /\ IsFiniteSet(ids(x))
             /\ Cardinality(ids(x)) = Cardinality(near(x)) /\ Cardinality(near(x)) \in Nat
             /\ Cardinality(near(x)) = 0 <=> near(x) = {}
             /\ PackedAs(Packed(ids(x)), ids(x))
  <2>1. near(x) \subseteq V
    BY DEF Range
  <2>2. IsFiniteSet(near(x))
    BY <2>1, FS_Subset
  <2>3. ids(x) \in SUBSET Nat
    BY <2>1
  <2>4. \A y, z \in near(x) : number[y] = number[z] => y = z
    BY <2>1
  <2> HIDE DEF near
  <2>5. IsFiniteSet(ids(x)) /\ Cardinality(ids(x)) = Cardinality(near(x))
    BY ONLY <2>2, <2>4, ImageSize
  <2>6. Cardinality(near(x)) \in Nat /\ (Cardinality(near(x)) = 0 <=> near(x) = {})
    BY <2>2, FS_CardinalityType, FS_EmptySet
  <2> HIDE DEF ids
  <2>7. PackedAs(Packed(ids(x)), ids(x))
    BY <2>3, <2>5, PackedCorrect
  <2> QED BY <2>1, <2>2, <2>3, <2>5, <2>6, <2>7
<1>2. p = [reordered_id |-> number[u], neigh_num |-> Cardinality(ids(u)),
           neigh_vec |-> Packed(ids(u))]
  BY DEF Structure_data
<1>3. q = [reordered_id |-> number[v], neigh_num |-> Cardinality(ids(v)),
           neigh_vec |-> Packed(ids(v))]
  BY DEF Structure_data
<1>4. cnt = Cardinality(both) /\ cnt \in Nat
  <2>1. /\ near(u) \subseteq V /\ IsFiniteSet(near(u))
        /\ ids(u) \in SUBSET Nat /\ IsFiniteSet(ids(u)) /\ PackedAs(Packed(ids(u)), ids(u))
    BY <1>1
  <2>2. /\ near(v) \subseteq V /\ IsFiniteSet(near(v))
        /\ ids(v) \in SUBSET Nat /\ IsFiniteSet(ids(v)) /\ PackedAs(Packed(ids(v)), ids(v))
    BY <1>1
  <2>3. ids(u) \cap ids(v) = {number[y] : y \in both}
    <3> HIDE DEF near
    <3> QED BY <2>1, <2>2
  <2>4. IsFiniteSet(both) /\ \A y, z \in both : number[y] = number[z] => y = z
    <3>1. both \subseteq near(u)
      OBVIOUS
    <3> HIDE DEF near
    <3> QED BY <2>1, <3>1, FS_Subset
  <2>5. Cardinality({number[y] : y \in both}) = Cardinality(both)
    <3> HIDE DEF both
    <3> QED BY ONLY <2>4, ImageSize
  <2> HIDE DEF p, q, ids, both
  <2>6. cnt = Cardinality(ids(u) \cap ids(v))
    <3>1. Common(Packed(ids(u)), Packed(ids(v))) = Cardinality(ids(u) \cap ids(v))
      BY <2>1, <2>2, CommonCounts
    <3> QED BY <1>2, <1>3, <3>1
  <2>7. Cardinality(both) \in Nat
    BY <2>4, FS_CardinalityType
  <2> QED BY <2>3, <2>5, <2>6, <2>7
<1>5. Id_in(p.neigh_vec, q.reordered_id) <=> v \in near(u)
  <2>1. ids(u) \in SUBSET Nat /\ PackedAs(Packed(ids(u)), ids(u)) /\ near(u) \subseteq V
    BY <1>1
  <2>2. number[v] \in ids(u) <=> v \in near(u)
    <3> HIDE DEF near
    <3> QED BY <2>1
  <2> HIDE DEF p, q, ids
  <2>3. Id_in(Packed(ids(u)), number[v]) <=> number[v] \in ids(u)
    BY <2>1, IdInCorrect
  <2> QED BY <1>2, <1>3, <2>2, <2>3
<1>6. p.reordered_id = q.reordered_id <=> u = v
  BY <1>2, <1>3
<1>7. p.neigh_num = Cardinality(near(u)) /\ q.neigh_num = Cardinality(near(v))
      /\ (p.neigh_num = 0 <=> near(u) = {}) /\ (q.neigh_num = 0 <=> near(v) = {})
  <2>1. Cardinality(ids(u)) = Cardinality(near(u)) /\ (Cardinality(near(u)) = 0 <=> near(u) = {})
    BY <1>1
  <2>2. Cardinality(ids(v)) = Cardinality(near(v)) /\ (Cardinality(near(v)) = 0 <=> near(v) = {})
    BY <1>1
  <2> HIDE DEF p, q, ids, near
  <2> QED BY <1>2, <1>3, <2>1, <2>2
<1> HIDE DEF p, q
<1>8. ASSUME near(u) = {} \/ near(v) = {}
      PROVE  neighDist(p, q) = [base |-> 6, num |-> 0, den |-> 1]
  BY <1>7, <1>8 DEF neighDist
<1>9. ASSUME ~(near(u) = {} \/ near(v) = {})
      PROVE  neighDist(p, q) =
               [base |-> IF cnt = 0 THEN 4 ELSE IF u = v \/ v \in near(u) THEN 0 ELSE 2,
                num |-> Cardinality(near(u)) - cnt, den |-> Cardinality(near(u))]
  <2> DEFINE linked == v \in near(u) \/ u = v
  <2>1. neighDist(p, q) =
          [base |-> CASE cnt = 0 -> 4 [] cnt > 0 /\ ~linked -> 2 [] OTHER -> 0,
           num |-> p.neigh_num - cnt, den |-> p.neigh_num]
    BY <1>5, <1>6, <1>7, <1>9 DEF neighDist
  <2> HIDE DEF near, cnt, both
  <2>2. (CASE cnt = 0 -> 4 [] cnt > 0 /\ ~linked -> 2 [] OTHER -> 0)
          = IF cnt = 0 THEN 4 ELSE IF u = v \/ v \in near(u) THEN 0 ELSE 2
    <3>1. CASE cnt = 0
      BY <3>1
    <3>2. CASE cnt # 0 /\ linked
      BY <1>4, <3>2
    <3>3. CASE cnt # 0 /\ ~linked
      <4>1. cnt > 0
        BY <1>4, <3>3
      <4> QED BY <3>3, <4>1
    <3> QED BY <3>1, <3>2, <3>3
  <2> QED BY <1>7, <2>1, <2>2
<1> HIDE DEF cnt, both, near
<1>10. neighDist(p, q) =
         IF near(u) = {} \/ near(v) = {} THEN [base |-> 6, num |-> 0, den |-> 1]
         ELSE [base |-> IF Cardinality(both) = 0 THEN 4
                        ELSE IF u = v \/ v \in near(u) THEN 0 ELSE 2,
               num |-> Cardinality(near(u)) - Cardinality(both), den |-> Cardinality(near(u))]
  BY <1>4, <1>8, <1>9
<1> QED BY <1>10 DEF p, q, both, near, DistanceIn

-----------------------------------------------------------------------------
(* The node data of the whole graph is packed under one numbering.         *)
PackedOnce ==
  struct_data_ # <<>> =>
    \E number \in [Vertex -> Nat] :
      /\ Once(Vertex, number)
      /\ struct_data_ = [v \in Vertex |-> Structure_data(v, ori_adj, number)]

LEMMA LoadedInvariant == LoadedSpec => [](IInv /\ PackedOnce)
<1>1. LoadedInit => IInv /\ PackedOnce
  BY InitInv DEF LoadedInit, PackedOnce
<1>2. ASSUME IInv, PackedOnce, [LoadedNext]_built PROVE IInv' /\ PackedOnce'
  <2>1. CASE Decompose
    <3>1. IInv'
      BY <2>1, <1>2, NextInv DEF Decompose
    <3>2. ori_adj' = ori_adj /\ struct_data_' = struct_data_
      BY <2>1 DEF Decompose, Next, Lower, Pass, NextVertex, Finish, Terminated, vars
    <3> QED BY <1>2, <3>1, <3>2 DEF PackedOnce
  <2>2. CASE Init_Nodes
    <3> DEFINE number == cnns_2_reordered(ori_adj, core_list)
    <3>1. UNCHANGED vars /\ Returned
          /\ struct_data_' = [v \in Vertex |-> Structure_data(v, ori_adj, number)]
      BY <2>2 DEF Init_Nodes
    <3>2. core_list \in [Vertex -> Nat] /\ ori_adj \in [Vertex -> Seq(Vertex)]
      BY <1>2, <3>1 DEF Returned, IInv, Published, TypeOK
    <3>3. IsFiniteSet(Vertex) /\ Vertex \in SUBSET Nat
      BY Vertices
    <3>4. number \in [Vertex -> Nat] /\ Once(Vertex, number)
      BY <3>2, <3>3, Renumbered DEF Once
    <3>5. ori_adj' = ori_adj
      BY <3>1 DEF vars
    <3> HIDE DEF number
    <3>6. PackedOnce'
      BY <3>1, <3>4, <3>5 DEF PackedOnce
    <3>7. IInv'
      BY <1>2, <3>1, NextInv
    <3> QED BY <3>6, <3>7
  <2>3. CASE UNCHANGED built
    <3>1. UNCHANGED vars /\ struct_data_' = struct_data_ /\ ori_adj' = ori_adj
      BY <2>3 DEF built, vars
    <3>2. IInv'
      BY <1>2, <3>1, NextInv
    <3> QED BY <1>2, <3>1, <3>2 DEF PackedOnce
  <2> QED BY <1>2, <2>1, <2>2, <2>3 DEF LoadedNext
<1> QED BY <1>1, <1>2, PTL DEF LoadedSpec

(* The words, blocks and new numbers give the distance that the graph      *)
(* gives, whatever the width of a word and the words of a block.           *)
THEOREM DistanceCorrect == LoadedSpec => []NearAsInGraph
<1>1. IInv /\ PackedOnce => NearAsInGraph
  <2> SUFFICES ASSUME IInv, PackedOnce, struct_data_ # <<>>, NEW u \in Vertex, NEW v \in Vertex
               PROVE  LET near == Range(ori_adj[u])
                          shared == Cardinality(near \cap Range(ori_adj[v]))
                      IN  neighDist(struct_data_[u], struct_data_[v]) =
                            IF near = {} \/ Range(ori_adj[v]) = {}
                            THEN [base |-> 6, num |-> 0, den |-> 1]
                            ELSE [base |-> IF shared = 0 THEN 4
                                           ELSE IF u = v \/ v \in near THEN 0 ELSE 2,
                                  num |-> Cardinality(near) - shared,
                                  den |-> Cardinality(near)]
    BY DEF NearAsInGraph
  <2>1. PICK number \in [Vertex -> Nat] :
          Once(Vertex, number) /\ struct_data_ = [w \in Vertex |-> Structure_data(w, ori_adj, number)]
    BY DEF PackedOnce
  <2>2. ori_adj \in [Vertex -> Seq(Vertex)] /\ IsFiniteSet(Vertex)
    BY Vertices DEF IInv, TypeOK
  <2>3. struct_data_[u] = Structure_data(u, ori_adj, number)
        /\ struct_data_[v] = Structure_data(v, ori_adj, number)
    BY <2>1
  <2>4. number \in [Vertex -> Nat] /\ Once(Vertex, number)
    BY <2>1
  <2>5. neighDist(Structure_data(u, ori_adj, number), Structure_data(v, ori_adj, number))
          = DistanceIn(ori_adj, u, v)
    BY ONLY <2>2, <2>4, u \in Vertex, v \in Vertex, DistanceOfGraph
  <2> QED BY <2>3, <2>5 DEF DistanceIn
<1> QED BY <1>1, LoadedInvariant, PTL

-----------------------------------------------------------------------------
(* What every round keeps holds after the last.                            *)
LEMMA Carried ==
  ASSUME NEW K \in Nat, NEW J, NEW r, <<0, r[0]>> \in J,
         \A n \in 1 .. K : <<n - 1, r[n - 1]>> \in J => <<n, r[n]>> \in J
  PROVE  <<K, r[K]>> \in J
<1> DEFINE T == {n \in 0 .. K : <<n, r[n]>> \in J}
<1>1. 0 \in T
  OBVIOUS
<1>2. ASSUME NEW n \in 1 .. K, n - 1 \in T PROVE n \in T
  <2>1. <<n - 1, r[n - 1]>> \in J /\ n \in 0 .. K
    BY <1>2
  <2> QED BY <2>1
<1>3. \A n \in 0 .. K : n \in T
  <2> HIDE DEF T
  <2> QED BY <1>1, <1>2, Upward
<1> QED BY <1>3

-----------------------------------------------------------------------------
(* Sorting keeps the members of a list.                                    *)
LEMMA SortedMembers ==
  ASSUME NEW V \in SUBSET Int, NEW s \in Seq(V)
  PROVE  Ordered(s) \in Seq(V) /\ Range(Ordered(s)) = Range(s)
<1> DEFINE K == Len(s)
           before(i) == {j \in 1 .. K : s[j] < s[i] \/ (s[j] = s[i] /\ j < i)}
           rank == [i \in 1 .. K |-> Cardinality(before(i))]
           at1(n) == CHOOSE i \in 1 .. K : Cardinality(before(i)) = n - 1
<1>1. K \in Nat /\ DOMAIN s = 1 .. K /\ \A i \in 1 .. K : s[i] \in Int /\ s[i] \in V
  <2>1. K \in Nat /\ DOMAIN s = 1 .. K
    OBVIOUS
  <2>2. \A i \in 1 .. K : s[i] \in V
    OBVIOUS
  <2>3. \A i \in 1 .. K : s[i] \in Int
    <3> HIDE DEF K
    <3> QED BY <2>2
  <2> QED BY <2>1, <2>2, <2>3
<1> HIDE DEF K
<1>2. IsFiniteSet(1 .. K) /\ Cardinality(1 .. K) = K
  BY <1>1, FS_Interval
<1>3. IsFiniteSet(0 .. K - 1) /\ Cardinality(0 .. K - 1) = K
  BY <1>1, FS_Interval
<1>4. ASSUME NEW i \in 1 .. K
      PROVE  IsFiniteSet(before(i)) /\ Cardinality(before(i)) \in Nat /\ Cardinality(before(i)) < K
  <2>1. before(i) \subseteq (1 .. K) \ {i}
    BY <1>1
  <2>2. IsFiniteSet((1 .. K) \ {i}) /\ Cardinality((1 .. K) \ {i}) = K - 1
    <3> DEFINE S == 1 .. K
    <3>1. IsFiniteSet(S) /\ Cardinality(S) = K /\ i \in S
      BY <1>2
    <3> HIDE DEF S
    <3>2. IsFiniteSet(S \ {i}) /\ Cardinality(S \ {i}) = Cardinality(S) - 1
      BY ONLY <3>1, FS_RemoveElement
    <3> QED BY <3>1, <3>2 DEF S
  <2>3. IsFiniteSet(before(i)) /\ Cardinality(before(i)) <= K - 1
    <3> HIDE DEF before
    <3> QED BY <2>1, <2>2, FS_Subset
  <2>4. Cardinality(before(i)) \in Nat
    BY <2>3, FS_CardinalityType
  <2> HIDE DEF before
  <2> QED BY <1>1, <2>3, <2>4
<1>5. ASSUME NEW i \in 1 .. K, NEW j \in 1 .. K, s[i] < s[j] \/ (s[i] = s[j] /\ i < j)
      PROVE  Cardinality(before(i)) < Cardinality(before(j))
  <2>1. before(i) \subseteq before(j) /\ i \in before(j) /\ i \notin before(i)
    BY <1>1, <1>5
  <2>2. Cardinality(before(i)) <= Cardinality(before(j))
        /\ (Cardinality(before(j)) = Cardinality(before(i)) => before(j) = before(i))
    <3> HIDE DEF before
    <3> QED BY <1>4, <2>1, FS_Subset
  <2> HIDE DEF before
  <2> QED BY <1>4, <2>1, <2>2
<1> HIDE DEF before
<1>6. ASSUME NEW i \in 1 .. K, NEW j \in 1 .. K, Cardinality(before(i)) = Cardinality(before(j))
      PROVE  i = j
  <2>1. s[i] < s[j] \/ s[j] < s[i] \/ (s[i] = s[j] /\ (i < j \/ j < i \/ i = j))
    BY <1>1
  <2>2. \A k \in 1 .. K : ~(Cardinality(before(k)) < Cardinality(before(k)))
    BY <1>4
  <2> QED BY <1>5, <1>6, <2>1, <2>2
<1>7. rank \in Injection(1 .. K, 0 .. K - 1)
  <2>1. \A i \in 1 .. K : Cardinality(before(i)) \in 0 .. K - 1
    BY <1>1, <1>4
  <2> QED BY <1>6, <2>1 DEF Injection, IsInjective
<1>8. rank \in Surjection(1 .. K, 0 .. K - 1)
  BY <1>2, <1>3, <1>7, FS_Injection
<1>9. ASSUME NEW n \in 1 .. K
      PROVE  at1(n) \in 1 .. K /\ Cardinality(before(at1(n))) = n - 1
  <2>1. n - 1 \in 0 .. K - 1
    BY <1>1
  <2>2. \E i \in 1 .. K : rank[i] = n - 1
    BY <1>8, <2>1 DEF Surjection
  <2> QED BY <2>2
<1>10. Ordered(s) = [n \in 1 .. K |-> s[at1(n)]]
  BY <1>1 DEF Ordered, before
<1> HIDE DEF at1
<1>11. Ordered(s) \in Seq(V) /\ DOMAIN Ordered(s) = 1 .. K
  BY <1>1, <1>9, <1>10
<1>12. ASSUME NEW x \in Range(s) PROVE x \in Range(Ordered(s))
  <2>1. PICK i \in 1 .. K : x = s[i]
    BY <1>1 DEF Range
  <2> DEFINE n == Cardinality(before(i)) + 1
  <2>2. n \in 1 .. K
    BY <1>1, <1>4
  <2>3. Cardinality(before(at1(n))) = Cardinality(before(i)) /\ at1(n) \in 1 .. K
    BY <1>4, <1>9, <2>2
  <2>4. at1(n) = i
    BY <1>6, <2>3
  <2> QED BY <1>10, <1>11, <2>1, <2>2, <2>4 DEF Range
<1>13. ASSUME NEW x \in Range(Ordered(s)) PROVE x \in Range(s)
  BY <1>1, <1>9, <1>10, <1>11, <1>13 DEF Range
<1> QED BY <1>11, <1>12, <1>13

(* Appending adds one member.                                              *)
LEMMA AppendMembers ==
  ASSUME NEW V, NEW o \in Seq(V), NEW x \in V
  PROVE  /\ Append(o, x) \in Seq(V)
         /\ \A y : y \in Range(Append(o, x)) <=> y \in Range(o) \/ y = x
<1> DEFINE r == Append(o, x)
           K == Len(o)
<1>1. K \in Nat /\ DOMAIN o = 1 .. K /\ DOMAIN r = 1 .. K + 1 /\ r \in Seq(V)
  OBVIOUS
<1>2. r[K + 1] = x /\ \A n \in 1 .. K : r[n] = o[n]
  OBVIOUS
<1> HIDE DEF r, K
<1>3. 1 .. K + 1 = (1 .. K) \cup {K + 1}
  BY <1>1
<1>4. \A y : y \in Range(r) <=> \E n \in 1 .. K + 1 : r[n] = y
  BY <1>1 DEF Range
<1>5. \A y : y \in Range(o) <=> \E n \in 1 .. K : o[n] = y
  BY <1>1 DEF Range
<1>6. \A y : y \in Range(r) <=> y \in Range(o) \/ y = x
  BY <1>2, <1>3, <1>4, <1>5
<1> QED BY <1>1, <1>6 DEF r

-----------------------------------------------------------------------------
(* Reading a file of edges: ids are numbered without repetition, the ids   *)
(* of the lines and no others.                                             *)
LEMMA NotedKeeps ==
  ASSUME NEW V, NEW o, Queue(V, o), NEW x \in V
  PROVE  Queue(V, Noted(o, x)) /\ Range(Noted(o, x)) = Range(o) \cup {x}
<1>1. o \in Seq(V) /\ Len(o) \in Nat /\ DOMAIN o = 1 .. Len(o)
  BY DEF Queue
<1>2. CASE x \in Range(o)
  BY <1>2 DEF Noted
<1>3. CASE x \notin Range(o)
  <2>1. Noted(o, x) = Append(o, x)
    BY <1>3 DEF Noted
  <2>2. Queue(V, Append(o, x))
    BY <1>3, AppendQueues
  <2>3. Range(Append(o, x)) = Range(o) \cup {x}
    BY <1>1, AppendMembers
  <2> QED BY <2>1, <2>2, <2>3
<1> QED BY <1>2, <1>3

Ends(lines, k) == {lines[n][1] : n \in 1 .. k} \cup {lines[n][2] : n \in 1 .. k}

LEMMA NamesNumber ==
  ASSUME NEW V, NEW lines \in Seq(V \X V)
  PROVE  Queue(V, Names(lines)) /\ Range(Names(lines)) = Ends(lines, Len(lines))
<1> DEFINE K == Len(lines)
           Step(n, o) == Noted(Noted(o, lines[n][1]), lines[n][2])
           F == [z \in (1 .. K) \X Seq(V) |-> Step(z[1], z[2])]
           J == {z \in (0 .. K) \X Seq(V) : Queue(V, z[2]) /\ Range(z[2]) = Ends(lines, z[1])}
           Result == CHOOSE o : o = [n \in 0 .. K |-> IF n = 0 THEN <<>> ELSE Step(n, o[n - 1])]
<1>1. K \in Nat /\ \A n \in 1 .. K : lines[n] \in V \X V
  OBVIOUS
<1> HIDE DEF K
<1>2. ASSUME NEW n \in 1 .. K, NEW o, <<n - 1, o>> \in J
      PROVE  <<n, Step(n, o)>> \in J /\ F[<<n, o>>] = Step(n, o)
  <2>1. o \in Seq(V) /\ Queue(V, o) /\ Range(o) = Ends(lines, n - 1)
    BY <1>2
  <2>2. lines[n][1] \in V /\ lines[n][2] \in V
    BY <1>1
  <2>3. Queue(V, Noted(o, lines[n][1])) /\ Range(Noted(o, lines[n][1])) = Range(o) \cup {lines[n][1]}
    BY <2>1, <2>2, NotedKeeps
  <2>4. Queue(V, Step(n, o)) /\ Range(Step(n, o)) = Range(o) \cup {lines[n][1], lines[n][2]}
    BY <2>2, <2>3, NotedKeeps
  <2>5. Ends(lines, n) = Ends(lines, n - 1) \cup {lines[n][1], lines[n][2]}
    <3>1. 1 .. n = (1 .. n - 1) \cup {n}
      BY <1>1
    <3> QED BY <3>1 DEF Ends
  <2>6. Step(n, o) \in Seq(V)
    BY <2>4 DEF Queue
  <2>7. F[<<n, o>>] = Step(n, o)
    <3> HIDE DEF Step
    <3> QED BY <2>1
  <2>8. n \in 0 .. K
    BY <1>1
  <2> HIDE DEF Step
  <2> QED BY <2>1, <2>4, <2>5, <2>6, <2>7, <2>8
<1>3. <<0, <<>> >> \in J
  <2>1. Queue(V, <<>>) /\ Range(<<>>) = {}
    BY DEF Queue, Range
  <2>2. Ends(lines, 0) = {}
    BY DEF Ends
  <2>3. 0 \in 0 .. K /\ <<>> \in Seq(V)
    BY <1>1
  <2> QED BY <2>1, <2>2, <2>3
<1> HIDE DEF Step
<1>4. PICK w : StepsIn(K, J, <<>>, F, w)
  <2>1. \A n \in 1 .. K : \A o : <<n - 1, o>> \in J => <<n, F[<<n, o>>]>> \in J
    BY <1>2
  <2> HIDE DEF F, J
  <2> QED BY <1>1, <1>3, <2>1, StepsWithin
<1> HIDE DEF F, J
<1>5. w = [n \in 0 .. K |-> IF n = 0 THEN <<>> ELSE Step(n, w[n - 1])]
  <2>1. ASSUME NEW n \in 0 .. K, n # 0 PROVE F[<<n, w[n - 1]>>] = Step(n, w[n - 1])
    <3>1. n \in 1 .. K /\ n - 1 \in 0 .. K
      BY <1>1, <2>1
    <3> QED BY <1>2, <1>4, <3>1 DEF StepsIn
  <2> QED BY <1>4, <2>1 DEF StepsIn
<1>6. Result = [n \in 0 .. K |-> IF n = 0 THEN <<>> ELSE Step(n, Result[n - 1])]
  BY <1>5
<1> HIDE DEF Result
<1>7. <<K, Result[K]>> \in J
  <2>1. <<0, Result[0]>> \in J
    BY <1>1, <1>3, <1>6
  <2>2. ASSUME NEW n \in 1 .. K, <<n - 1, Result[n - 1]>> \in J PROVE <<n, Result[n]>> \in J
    <3>1. n \in 0 .. K /\ n # 0
      BY <1>1
    <3>2. Result[n] = Step(n, Result[n - 1])
      BY <1>6, <3>1
    <3> QED BY <1>2, <2>2, <3>2
  <2> QED BY <1>1, <2>1, <2>2, Carried
<1>8. Queue(V, Result[K]) /\ Range(Result[K]) = Ends(lines, K)
  BY <1>7 DEF J
<1>9. Names(lines) = Result[K]
  BY DEF Names, Rounds, Result, Step, K
<1> QED BY <1>8, <1>9 DEF K

(* The number of a name is its place, less one.                            *)
LEMMA NumberFinds ==
  ASSUME NEW V, NEW names, Queue(V, names), NEW x \in Range(names)
  PROVE  Number(names, x) \in 0 .. Len(names) - 1 /\ names[Number(names, x) + 1] = x
<1> DEFINE Spots == {i \in 1 .. Len(names) : names[i] = x}
<1>1. Len(names) \in Nat /\ DOMAIN names = 1 .. Len(names)
  BY DEF Queue
<1>2. Spots # {}
  BY <1>1 DEF Range
<1>3. SelectInSeq(names, LAMBDA y : y = x) = Min(Spots)
  BY <1>2 DEF SelectInSeq
<1>4. Min(Spots) \in Spots
  <2>1. Spots \in SUBSET Nat
    OBVIOUS
  <2> HIDE DEF Spots
  <2>2. \E i \in Spots : \A k \in Spots : i <= k
    BY <1>2, <2>1, LeastElement
  <2> QED BY <2>2 DEF Min
<1> QED BY <1>1, <1>3, <1>4 DEF Number

-----------------------------------------------------------------------------
(* The lists of b mention what those of a do, and each y at each w of more. *)
Grown(V, a, b, more) ==
  /\ b \in [V -> Seq(V)]
  /\ \A w \in V : \A y : y \in Range(b[w]) <=> y \in Range(a[w]) \/ <<w, y>> \in more

(* A list of a graph grows by a neighbour.                                 *)
LEMMA AppendAt ==
  ASSUME NEW V, NEW a \in [V -> Seq(V)], NEW v \in V, NEW u \in V
  PROVE  Grown(V, a, [a EXCEPT ![v] = Append(@, u)], {<<v, u>>})
<1> DEFINE s == Append(a[v], u)
<1>1. s \in Seq(V) /\ \A y : y \in Range(s) <=> y \in Range(a[v]) \/ y = u
  <2>1. a[v] \in Seq(V)
    OBVIOUS
  <2> QED BY <2>1, AppendMembers
<1>2. [a EXCEPT ![v] = Append(@, u)] = [a EXCEPT ![v] = s]
  OBVIOUS
<1> HIDE DEF s
<1> QED BY <1>1, <1>2 DEF Grown

(* The lists of an edge file: the second id of a line is in the list of    *)
(* the first.                                                              *)
LEMMA ListedFacts ==
  ASSUME NEW V, NEW lines \in Seq(V \X V), NEW names, names = Names(lines),
         NEW P, P = 0 .. Len(names) - 1
  PROVE  /\ Listed(lines) \in [P -> Seq(P)]
         /\ \A v, u \in P : u \in Range(Listed(lines)[v])
                              <=> <<names[v + 1], names[u + 1]>> \in Range(lines)
<1> DEFINE K == Len(lines)
           num(x) == Number(names, x)
           from(n) == num(lines[n][1])
           to(n) == num(lines[n][2])
           none == [v \in P |-> <<>>]
           Step(n, a) == [a EXCEPT ![from(n)] = Append(@, to(n))]
           F == [z \in (1 .. K) \X [P -> Seq(P)] |-> Step(z[1], z[2])]
           Told(a, k) == \A v, u \in P : u \in Range(a[v]) <=> \E m \in 1 .. k : from(m) = v /\ to(m) = u
           J == {z \in (0 .. K) \X [P -> Seq(P)] : Told(z[2], z[1])}
           Result == CHOOSE a : a = [n \in 0 .. K |-> IF n = 0 THEN none ELSE Step(n, a[n - 1])]
<1>1. K \in Nat /\ DOMAIN lines = 1 .. K /\ \A n \in 1 .. K : lines[n] \in V \X V
  OBVIOUS
<1>2. Queue(V, names) /\ Range(names) = Ends(lines, K)
  BY NamesNumber
<1>3. Len(names) \in Nat /\ DOMAIN names = 1 .. Len(names)
  BY <1>2 DEF Queue
<1> HIDE DEF K
<1>4. ASSUME NEW n \in 1 .. K
      PROVE  /\ from(n) \in P /\ to(n) \in P
             /\ names[from(n) + 1] = lines[n][1] /\ names[to(n) + 1] = lines[n][2]
  <2>1. lines[n][1] \in Range(names) /\ lines[n][2] \in Range(names)
    BY <1>2 DEF Ends
  <2> QED BY <1>2, <2>1, NumberFinds
<1>5. ASSUME NEW x \in Range(names), NEW v \in P, names[v + 1] = x PROVE num(x) = v
  <2>1. num(x) \in P /\ names[num(x) + 1] = x
    BY <1>2, NumberFinds
  <2>2. num(x) + 1 \in 1 .. Len(names) /\ v + 1 \in 1 .. Len(names)
    BY <1>3, <2>1
  <2>3. num(x) + 1 = v + 1
    BY <1>2, <1>5, <2>1, <2>2 DEF Queue
  <2> QED BY <1>3, <2>1, <2>3
<1> HIDE DEF num
<1>6. ASSUME NEW n \in 1 .. K, NEW a, <<n - 1, a>> \in J
      PROVE  <<n, Step(n, a)>> \in J /\ F[<<n, a>>] = Step(n, a)
  <2>1. a \in [P -> Seq(P)] /\ Told(a, n - 1)
    <3> HIDE DEF Told
    <3> QED BY <1>6
  <2>2. from(n) \in P /\ to(n) \in P
    BY <1>4
  <2>3. Grown(P, a, Step(n, a), {<<from(n), to(n)>>})
    <3> HIDE DEF from, to
    <3> QED BY ONLY <2>1, <2>2, AppendAt DEF Step
  <2>4. F[<<n, a>>] = Step(n, a)
    <3> HIDE DEF Step
    <3> QED BY <2>1
  <2> HIDE DEF Step
  <2>5. 1 .. n = (1 .. n - 1) \cup {n} /\ n \in 0 .. K
    BY <1>1
  <2>6. Told(Step(n, a), n)
    <3> HIDE DEF from, to
    <3> QED BY <2>1, <2>3, <2>5 DEF Grown
  <2> HIDE DEF Told
  <2> QED BY <2>3, <2>4, <2>5, <2>6 DEF Grown
<1>7. <<0, none>> \in J
  <2>1. none \in [P -> Seq(P)] /\ 0 \in 0 .. K
    BY <1>1
  <2>2. \A v \in P : Range(none[v]) = {}
    BY DEF Range
  <2>3. Told(none, 0)
    <3>1. \A m \in 1 .. 0 : FALSE
      OBVIOUS
    <3> HIDE DEF none, from, to
    <3> QED BY <2>2, <3>1
  <2> HIDE DEF none, Told
  <2> QED BY <2>1, <2>3
<1> HIDE DEF Step, none, Told
<1>8. PICK w : StepsIn(K, J, none, F, w)
  <2>1. \A n \in 1 .. K : \A a : <<n - 1, a>> \in J => <<n, F[<<n, a>>]>> \in J
    BY <1>6
  <2> HIDE DEF F, J
  <2> QED BY <1>1, <1>7, <2>1, StepsWithin
<1> HIDE DEF F, J
<1>9. w = [n \in 0 .. K |-> IF n = 0 THEN none ELSE Step(n, w[n - 1])]
  <2>1. ASSUME NEW n \in 0 .. K, n # 0 PROVE F[<<n, w[n - 1]>>] = Step(n, w[n - 1])
    <3>1. n \in 1 .. K /\ n - 1 \in 0 .. K
      BY <1>1, <2>1
    <3> QED BY <1>6, <1>8, <3>1 DEF StepsIn
  <2> QED BY <1>8, <2>1 DEF StepsIn
<1>10. Result = [n \in 0 .. K |-> IF n = 0 THEN none ELSE Step(n, Result[n - 1])]
  BY <1>9
<1> HIDE DEF Result
<1>11. <<K, Result[K]>> \in J
  <2>1. <<0, Result[0]>> \in J
    BY <1>1, <1>7, <1>10
  <2>2. ASSUME NEW n \in 1 .. K, <<n - 1, Result[n - 1]>> \in J PROVE <<n, Result[n]>> \in J
    <3>1. n \in 0 .. K /\ n # 0
      BY <1>1
    <3>2. Result[n] = Step(n, Result[n - 1])
      BY <1>10, <3>1
    <3> QED BY <1>6, <2>2, <3>2
  <2> QED BY <1>1, <2>1, <2>2, Carried
<1>12. Result[K] \in [P -> Seq(P)] /\ Told(Result[K], K)
  BY <1>11 DEF J
<1>13. Listed(lines) = Result[K]
  BY DEF Listed, Rounds, Result, Step, none, K, num
<1>14. ASSUME NEW v \in P, NEW u \in P, NEW m \in 1 .. K, from(m) = v, to(m) = u
       PROVE  <<names[v + 1], names[u + 1]>> \in Range(lines)
  <2>1. lines[m] = <<names[v + 1], names[u + 1]>>
    <3>1. lines[m] = <<lines[m][1], lines[m][2]>>
      BY <1>1
    <3>2. names[from(m) + 1] = lines[m][1] /\ names[to(m) + 1] = lines[m][2]
      BY <1>4
    <3> HIDE DEF from, to
    <3> QED BY <1>14, <3>1, <3>2
  <2> QED BY <1>1, <2>1 DEF Range
<1>15. ASSUME NEW v \in P, NEW u \in P, <<names[v + 1], names[u + 1]>> \in Range(lines)
       PROVE  \E m \in 1 .. K : from(m) = v /\ to(m) = u
  <2>1. PICK m \in 1 .. K : lines[m] = <<names[v + 1], names[u + 1]>>
    BY <1>1, <1>15 DEF Range
  <2>2. lines[m][1] \in Range(names) /\ lines[m][2] \in Range(names)
    BY <1>2 DEF Ends
  <2>3. from(m) = v /\ to(m) = u
    BY <1>5, <2>1, <2>2
  <2> QED BY <2>3
<1> QED BY <1>12, <1>13, <1>14, <1>15 DEF Told

-----------------------------------------------------------------------------
(* Completing the lists both ways.                                         *)
LEMMA WithBackFacts ==
  ASSUME NEW V, NEW a \in [V -> Seq(V)], NEW v \in V, NEW u \in V
  PROVE  Grown(V, a, WithBack(a, v, u), {<<u, v>>})
<1>1. CASE v \in Range(a[u])
  <2>1. WithBack(a, v, u) = a
    BY <1>1 DEF WithBack
  <2> QED BY <1>1, <2>1 DEF Grown
<1>2. CASE v \notin Range(a[u])
  <2>1. WithBack(a, v, u) = [a EXCEPT ![u] = Append(@, v)]
    BY <1>2 DEF WithBack
  <2>2. Grown(V, a, [a EXCEPT ![u] = Append(@, v)], {<<u, v>>})
    BY AppendAt
  <2> QED BY <2>1, <2>2
<1> QED BY <1>1, <1>2

(* A vertex is added to the lists of those in its own.                     *)
LEMMA BackFromFacts ==
  ASSUME NEW V, NEW adj \in [V -> Seq(V)], NEW v \in V
  PROVE  Grown(V, adj, BackFrom(adj, v), Range(adj[v]) \X {v})
<1> DEFINE row == adj[v]
           K == Len(row)
           Step(n, a) == WithBack(a, v, row[n])
           F == [z \in (1 .. K) \X [V -> Seq(V)] |-> Step(z[1], z[2])]
           Told(a, k) == \A w \in V : \A y :
              y \in Range(a[w]) <=> y \in Range(adj[w]) \/ (y = v /\ \E m \in 1 .. k : row[m] = w)
           J == {z \in (0 .. K) \X [V -> Seq(V)] : Told(z[2], z[1])}
           Result == CHOOSE a : a = [n \in 0 .. K |-> IF n = 0 THEN adj ELSE Step(n, a[n - 1])]
<1>1. K \in Nat /\ DOMAIN row = 1 .. K /\ \A n \in 1 .. K : row[n] \in V
  <2>1. row \in Seq(V)
    OBVIOUS
  <2> HIDE DEF row
  <2> QED BY <2>1
<1> HIDE DEF K, row
<1>2. ASSUME NEW n \in 1 .. K, NEW a, <<n - 1, a>> \in J
      PROVE  <<n, Step(n, a)>> \in J /\ F[<<n, a>>] = Step(n, a)
  <2>1. a \in [V -> Seq(V)] /\ Told(a, n - 1)
    <3> HIDE DEF Told
    <3> QED BY <1>2
  <2>2. row[n] \in V
    BY <1>1
  <2>3. Grown(V, a, Step(n, a), {<<row[n], v>>})
    BY <2>1, <2>2, WithBackFacts
  <2>4. F[<<n, a>>] = Step(n, a)
    <3> HIDE DEF Step
    <3> QED BY <2>1
  <2> HIDE DEF Step
  <2>5. 1 .. n = (1 .. n - 1) \cup {n} /\ n \in 0 .. K
    BY <1>1
  <2>6. Told(Step(n, a), n)
    <3> SUFFICES ASSUME NEW w \in V, NEW y
                 PROVE  y \in Range(Step(n, a)[w])
                          <=> y \in Range(adj[w]) \/ (y = v /\ \E m \in 1 .. n : row[m] = w)
      OBVIOUS
    <3>1. y \in Range(a[w])
            <=> y \in Range(adj[w]) \/ (y = v /\ \E m \in 1 .. n - 1 : row[m] = w)
      BY <2>1
    <3>2. y \in Range(Step(n, a)[w]) <=> y \in Range(a[w]) \/ (w = row[n] /\ y = v)
      BY <2>3 DEF Grown
    <3> QED BY <2>5, <3>1, <3>2
  <2> HIDE DEF Told
  <2> QED BY <2>3, <2>4, <2>5, <2>6 DEF Grown
<1>3. <<0, adj>> \in J
  BY <1>1
<1> HIDE DEF Step, Told
<1>4. PICK w : StepsIn(K, J, adj, F, w)
  <2>1. \A n \in 1 .. K : \A a : <<n - 1, a>> \in J => <<n, F[<<n, a>>]>> \in J
    BY <1>2
  <2> HIDE DEF F, J
  <2> QED BY <1>1, <1>3, <2>1, StepsWithin
<1> HIDE DEF F, J
<1>5. w = [n \in 0 .. K |-> IF n = 0 THEN adj ELSE Step(n, w[n - 1])]
  <2>1. ASSUME NEW n \in 0 .. K, n # 0 PROVE F[<<n, w[n - 1]>>] = Step(n, w[n - 1])
    <3>1. n \in 1 .. K /\ n - 1 \in 0 .. K
      BY <1>1, <2>1
    <3> QED BY <1>2, <1>4, <3>1 DEF StepsIn
  <2> QED BY <1>4, <2>1 DEF StepsIn
<1>6. Result = [n \in 0 .. K |-> IF n = 0 THEN adj ELSE Step(n, Result[n - 1])]
  BY <1>5
<1> HIDE DEF Result
<1>7. <<K, Result[K]>> \in J
  <2>1. <<0, Result[0]>> \in J
    BY <1>1, <1>3, <1>6
  <2>2. ASSUME NEW n \in 1 .. K, <<n - 1, Result[n - 1]>> \in J PROVE <<n, Result[n]>> \in J
    <3>1. n \in 0 .. K /\ n # 0
      BY <1>1
    <3>2. Result[n] = Step(n, Result[n - 1])
      BY <1>6, <3>1
    <3> QED BY <1>2, <2>2, <3>2
  <2> QED BY <1>1, <2>1, <2>2, Carried
<1>8. Result[K] \in [V -> Seq(V)] /\ Told(Result[K], K)
  BY <1>7 DEF J
<1>9. BackFrom(adj, v) = Result[K]
  BY DEF BackFrom, Rounds, Result, Step, K, row
<1>10. \A x : x \in Range(row) <=> \E m \in 1 .. K : row[m] = x
  BY <1>1 DEF Range
<1> QED BY <1>8, <1>9, <1>10 DEF Told, row, Grown

(* In the end each of two vertices mentions the other when one of them did *)
(* at first: the lists grow while they are read, but by vertices that      *)
(* mention theirs already.                                                 *)
LEMMA MirroredFacts ==
  ASSUME NEW M \in Nat, NEW V, V = 0 .. M - 1, NEW adj \in [V -> Seq(V)]
  PROVE  /\ Mirrored(adj) \in [V -> Seq(V)]
         /\ \A w, y \in V : y \in Range(Mirrored(adj)[w])
                              <=> y \in Range(adj[w]) \/ w \in Range(adj[y])
<1> DEFINE Step(n, a) == BackFrom(a, n - 1)
           F == [z \in (1 .. M) \X [V -> Seq(V)] |-> Step(z[1], z[2])]
           Told(a, k) == \A w, y \in V :
              /\ y \in Range(adj[w]) => y \in Range(a[w])
              /\ y \in Range(a[w]) => y \in Range(adj[w]) \/ w \in Range(adj[y])
              /\ w \in Range(adj[y]) /\ y < k => y \in Range(a[w])
           J == {z \in (0 .. M) \X [V -> Seq(V)] : Told(z[2], z[1])}
           Result == CHOOSE a : a = [n \in 0 .. M |-> IF n = 0 THEN adj ELSE Step(n, a[n - 1])]
<1>1. Cardinality(DOMAIN adj) = M
  <2>1. DOMAIN adj = 0 .. M - 1
    OBVIOUS
  <2> QED BY <2>1, FS_Interval
<1>2. ASSUME NEW n \in 1 .. M, NEW a, <<n - 1, a>> \in J
      PROVE  <<n, Step(n, a)>> \in J /\ F[<<n, a>>] = Step(n, a)
  <2>1. a \in [V -> Seq(V)] /\ Told(a, n - 1)
    <3> HIDE DEF Told
    <3> QED BY <1>2
  <2>2. n - 1 \in V /\ n \in 0 .. M
    OBVIOUS
  <2>3. Grown(V, a, Step(n, a), Range(a[n - 1]) \X {n - 1})
    BY <2>1, <2>2, BackFromFacts
  <2>4. F[<<n, a>>] = Step(n, a)
    <3> HIDE DEF Step
    <3> QED BY <2>1
  <2> HIDE DEF Step
  <2>5. \A y \in V : y < n => y < n - 1 \/ y = n - 1
    OBVIOUS
  <2>6. Told(Step(n, a), n)
    <3> SUFFICES ASSUME NEW w \in V, NEW y \in V
                 PROVE  /\ y \in Range(adj[w]) => y \in Range(Step(n, a)[w])
                        /\ y \in Range(Step(n, a)[w]) => y \in Range(adj[w]) \/ w \in Range(adj[y])
                        /\ w \in Range(adj[y]) /\ y < n => y \in Range(Step(n, a)[w])
      OBVIOUS
    <3>1. y \in Range(adj[w]) => y \in Range(a[w])
      BY <2>1
    <3>2. y \in Range(a[w]) => y \in Range(adj[w]) \/ w \in Range(adj[y])
      BY <2>1
    <3>3. w \in Range(adj[y]) /\ y < n - 1 => y \in Range(a[w])
      BY <2>1
    <3>4. w \in Range(a[n - 1]) /\ y = n - 1 => w \in Range(adj[y]) \/ y \in Range(adj[w])
      BY <2>1, <2>2
    <3>5. w \in Range(adj[y]) /\ y = n - 1 => w \in Range(a[n - 1])
      BY <2>1, <2>2
    <3>6. y \in Range(Step(n, a)[w])
            <=> y \in Range(a[w]) \/ (w \in Range(a[n - 1]) /\ y = n - 1)
      <4>1. y \in Range(Step(n, a)[w])
              <=> y \in Range(a[w]) \/ <<w, y>> \in Range(a[n - 1]) \X {n - 1}
        BY <2>3 DEF Grown
      <4> QED BY <4>1
    <3> HIDE DEF Told
    <3> QED BY <2>5, <3>1, <3>2, <3>3, <3>4, <3>5, <3>6
  <2> HIDE DEF Told
  <2> QED BY <2>2, <2>3, <2>4, <2>6 DEF Grown
<1>3. <<0, adj>> \in J
  <2>1. Told(adj, 0)
    <3>1. \A y \in V : ~(y < 0)
      OBVIOUS
    <3> QED BY <3>1
  <2> HIDE DEF Told
  <2> QED BY <2>1
<1> HIDE DEF Step, Told
<1>4. PICK w : StepsIn(M, J, adj, F, w)
  <2>1. \A n \in 1 .. M : \A a : <<n - 1, a>> \in J => <<n, F[<<n, a>>]>> \in J
    BY <1>2
  <2> HIDE DEF F, J
  <2> QED BY <1>3, <2>1, StepsWithin
<1> HIDE DEF F, J
<1>5. w = [n \in 0 .. M |-> IF n = 0 THEN adj ELSE Step(n, w[n - 1])]
  <2>1. ASSUME NEW n \in 0 .. M, n # 0 PROVE F[<<n, w[n - 1]>>] = Step(n, w[n - 1])
    <3>1. n \in 1 .. M /\ n - 1 \in 0 .. M
      BY <2>1
    <3> QED BY <1>2, <1>4, <3>1 DEF StepsIn
  <2> QED BY <1>4, <2>1 DEF StepsIn
<1>6. Result = [n \in 0 .. M |-> IF n = 0 THEN adj ELSE Step(n, Result[n - 1])]
  BY <1>5
<1> HIDE DEF Result
<1>7. <<M, Result[M]>> \in J
  <2>1. <<0, Result[0]>> \in J
    BY <1>3, <1>6
  <2>2. ASSUME NEW n \in 1 .. M, <<n - 1, Result[n - 1]>> \in J PROVE <<n, Result[n]>> \in J
    <3>1. n \in 0 .. M /\ n # 0
      OBVIOUS
    <3>2. Result[n] = Step(n, Result[n - 1])
      BY <1>6, <3>1
    <3> QED BY <1>2, <2>2, <3>2
  <2> QED BY <2>1, <2>2, Carried
<1>8. Result[M] \in [V -> Seq(V)] /\ Told(Result[M], M)
  BY <1>7 DEF J
<1>9. Mirrored(adj) = Result[M]
  BY <1>1 DEF Mirrored, Rounds, Result, Step
<1>10. \A y \in V : y < M
  OBVIOUS
<1> QED BY <1>8, <1>9, <1>10 DEF Told

-----------------------------------------------------------------------------
(* What the graph r of a file has in common with what the file means.      *)
Pictures(f, r) ==
  /\ Queue(Entities(f), r.names)
  /\ DOMAIN r.adj = 0 .. Len(r.names) - 1
  /\ \A u, v \in DOMAIN r.adj :
       u \in Range(r.adj[v]) <=> u # v /\ Joined(f, r.names[v + 1], r.names[u + 1])
  /\ \A x, y \in Entities(f) :
       x # y /\ Joined(f, x, y) => x \in Range(r.names) /\ y \in Range(r.names)

(* What is read from a file of edges pictures it.                          *)
LEMMA HomoPictures ==
  ASSUME NEW f, f.layout = "edges", Plain(f)
  PROVE  Pictures(f, Homo(f))
<1> DEFINE lines == f.lines
           names == Names(lines)
           M == Len(names)
           P == 0 .. M - 1
           adj == Mirrored(Listed(lines))
           r == Homo(f)
<1>1. lines \in Seq(Nat \X Nat) /\ \A l \in Range(lines) : l[1] # l[2]
  BY DEF Plain
<1>2. Queue(Nat, names) /\ Range(names) = Ends(lines, Len(lines))
  BY <1>1, NamesNumber
<1>3. M \in Nat /\ DOMAIN names = 1 .. M
  BY <1>2 DEF Queue
<1>4. Entities(f) = Range(names)
  <2>1. Entities(f) = {l[1] : l \in Range(lines)} \cup {l[2] : l \in Range(lines)}
    BY DEF Entities
  <2>2. Range(lines) = {lines[n] : n \in 1 .. Len(lines)}
    BY <1>1 DEF Range
  <2> QED BY <1>2, <2>1, <2>2 DEF Ends
<1>5. Queue(Entities(f), names)
  <2>1. \A n \in 1 .. M : names[n] \in Entities(f)
    BY <1>3, <1>4 DEF Range
  <2>2. names \in Seq(Nat)
    BY <1>2 DEF Queue
  <2> HIDE DEF names
  <2>3. names = [n \in 1 .. M |-> names[n]]
    BY <1>3, <2>2
  <2>4. names \in Seq(Entities(f))
    BY <1>3, <2>1, <2>3
  <2> QED BY <1>2, <2>4 DEF Queue
<1> HIDE DEF names
<1>6. /\ Listed(lines) \in [P -> Seq(P)]
      /\ \A v, u \in P : u \in Range(Listed(lines)[v])
                           <=> <<names[v + 1], names[u + 1]>> \in Range(lines)
  BY <1>1, ListedFacts DEF names
<1>7. /\ adj \in [P -> Seq(P)]
      /\ \A v, u \in P : u \in Range(adj[v])
                           <=> u \in Range(Listed(lines)[v]) \/ v \in Range(Listed(lines)[u])
  <2> HIDE DEF P
  <2> QED BY <1>3, <1>6, MirroredFacts DEF P
<1>8. r.names = names /\ r.adj = Sorted(adj)
  BY DEF Homo, names
<1>9. DOMAIN r.adj = P /\ \A v \in P : Range(r.adj[v]) = Range(adj[v])
  <2>1. P \in SUBSET Int
    BY <1>3
  <2> HIDE DEF P, adj
  <2>2. DOMAIN r.adj = P /\ \A v \in P : r.adj[v] = Ordered(adj[v]) /\ adj[v] \in Seq(P)
    BY <1>7, <1>8 DEF Sorted
  <2>3. ASSUME NEW v \in P PROVE Range(Ordered(adj[v])) = Range(adj[v])
    <3>1. adj[v] \in Seq(P)
      BY <2>2
    <3> QED BY <2>1, <3>1, SortedMembers
  <2> QED BY <2>2, <2>3
<1>10. ASSUME NEW u \in P, NEW v \in P
       PROVE  u \in Range(r.adj[v]) <=> u # v /\ Joined(f, names[v + 1], names[u + 1])
  <2>1. Joined(f, names[v + 1], names[u + 1])
          <=> \/ <<names[v + 1], names[u + 1]>> \in Range(lines)
              \/ <<names[u + 1], names[v + 1]>> \in Range(lines)
    BY DEF Joined
  <2>2. u = v => ~(<<names[v + 1], names[u + 1]>> \in Range(lines))
    <3>1. ASSUME NEW x, <<x, x>> \in Range(lines) PROVE FALSE
      <4>1. <<x, x>>[1] # <<x, x>>[2]
        BY <1>1, <3>1
      <4> QED BY <4>1
    <3> QED BY <3>1
  <2> HIDE DEF P, adj, r
  <2> QED BY <1>6, <1>7, <1>9, <2>1, <2>2
<1> HIDE DEF r, P
<1> QED BY <1>4, <1>5, <1>8, <1>9, <1>10 DEF Pictures, P, r

(* A member has a place in the list of a graph that pictures a file.       *)
LEMMA PlaceOf ==
  ASSUME NEW f, NEW r, Pictures(f, r)
  PROVE  /\ Len(r.names) \in Nat
         /\ \A v \in DOMAIN r.adj : r.names[v + 1] \in Entities(f) /\ r.names[v + 1] \in Range(r.names)
         /\ \A x \in Range(r.names) : \E v \in DOMAIN r.adj : r.names[v + 1] = x
         /\ \A u, v \in DOMAIN r.adj : r.names[u + 1] = r.names[v + 1] => u = v
<1> DEFINE s == r.names
           P == 0 .. Len(s) - 1
<1>1. s \in Seq(Entities(f)) /\ \A m, n \in 1 .. Len(s) : s[m] = s[n] => m = n
  BY DEF Pictures, Queue
<1>2. DOMAIN r.adj = P
  BY DEF Pictures
<1> HIDE DEF s
<1>3. Len(s) \in Nat /\ DOMAIN s = 1 .. Len(s) /\ \A n \in 1 .. Len(s) : s[n] \in Entities(f)
  BY <1>1
<1>4. \A v \in P : v + 1 \in 1 .. Len(s)
  BY <1>3
<1>5. \A v \in P : s[v + 1] \in Entities(f) /\ s[v + 1] \in Range(s)
  BY <1>3, <1>4 DEF Range
<1>6. ASSUME NEW x \in Range(s) PROVE \E v \in P : s[v + 1] = x
  <2>1. PICK n \in 1 .. Len(s) : s[n] = x
    BY <1>3 DEF Range
  <2>2. n - 1 \in P /\ (n - 1) + 1 = n
    BY <1>3
  <2> QED BY <2>1, <2>2
<1>7. ASSUME NEW u \in P, NEW v \in P, s[u + 1] = s[v + 1] PROVE u = v
  <2>1. u + 1 = v + 1
    BY <1>1, <1>4, <1>7
  <2> QED BY <1>3, <2>1
<1> QED BY <1>2, <1>3, <1>5, <1>6, <1>7 DEF s

-----------------------------------------------------------------------------
(* The neighbours in the network that a file describes.                    *)
Meet(f, x) == {y \in Entities(f) \ {x} : Joined(f, x, y)}

Named(r, T) == {r.names[v + 1] : v \in T}

(* A vertex has as many neighbours among those of T as what it stands for  *)
(* has among what they stand for.                                          *)
LEMMA SameDegree ==
  ASSUME NEW f, NEW r, Pictures(f, r), NEW v \in DOMAIN r.adj, NEW T \in SUBSET DOMAIN r.adj
  PROVE  Cardinality(Meet(f, r.names[v + 1]) \cap Named(r, T))
           = Cardinality(Range(r.adj[v]) \cap T)
<1> DEFINE x == r.names[v + 1]
           S == Range(r.adj[v]) \cap T
           name(u) == r.names[u + 1]
<1>1. S \subseteq DOMAIN r.adj /\ IsFiniteSet(DOMAIN r.adj)
  <2>1. Len(r.names) \in Nat /\ DOMAIN r.adj = 0 .. Len(r.names) - 1
    BY PlaceOf DEF Pictures
  <2>2. 0 \in Int /\ Len(r.names) - 1 \in Int
    BY <2>1
  <2> QED BY <2>1, <2>2, FS_Interval
<1>2. IsFiniteSet(S)
  BY <1>1, FS_Subset
<1>3. ASSUME NEW u \in T
      PROVE  /\ name(u) \in Entities(f)
             /\ u \in Range(r.adj[v]) <=> u # v /\ Joined(f, x, name(u))
             /\ u # v <=> name(u) # x
  <2>1. u \in DOMAIN r.adj
    OBVIOUS
  <2> QED BY <2>1, PlaceOf DEF Pictures
<1>4. Meet(f, x) \cap {name(u) : u \in T} = {name(u) : u \in S}
  <2> HIDE DEF x, name
  <2>1. ASSUME NEW u \in T PROVE name(u) \in Meet(f, x) <=> u \in Range(r.adj[v])
    BY <1>3, <2>1 DEF Meet
  <2> QED BY <2>1
<1>5. \A s, t \in S : name(s) = name(t) => s = t
  BY <1>1, PlaceOf
<1>6. Cardinality({name(u) : u \in S}) = Cardinality(S)
  <2> DEFINE g == [u \in S |-> name(u)]
  <2>1. \A s, t \in S : g[s] = g[t] => s = t
    BY <1>5
  <2>2. {g[u] : u \in S} = {name(u) : u \in S}
    <3> HIDE DEF name, S
    <3> QED OBVIOUS
  <2> HIDE DEF g, S
  <2>3. Cardinality({g[u] : u \in S}) = Cardinality(S)
    BY <1>2, <2>1, ImageSize
  <2> QED BY <2>2, <2>3
<1> QED BY <1>4, <1>6 DEF Named

(* C is the largest set of vertices with c neighbours or more in the set.  *)
IsCore(adj, c, C) ==
  /\ C \in SUBSET DOMAIN adj /\ \A v \in C : Cardinality(Range(adj[v]) \cap C) >= c
  /\ \A T \in SUBSET DOMAIN adj :
       (\A v \in T : Cardinality(Range(adj[v]) \cap T) >= c) => T \subseteq C

(* A core of the graph stands for a core of the network.                   *)
LEMMA CoreStands ==
  ASSUME NEW f, NEW r, Pictures(f, r), NEW c \in Nat \ {0},
         NEW C, IsCore(r.adj, c, C), NEW core, core = Named(r, C)
  PROVE  /\ \A x \in core : Cardinality(Meet(f, x) \cap core) >= c
         /\ \A S \in SUBSET Entities(f) :
              (\A x \in S : Cardinality(Meet(f, x) \cap S) >= c) => S \subseteq core
<1> USE DEF IsCore
<1>1. ASSUME NEW x \in core PROVE Cardinality(Meet(f, x) \cap core) >= c
  <2>1. PICK v \in C : x = r.names[v + 1]
    BY DEF Named
  <2>2. Cardinality(Meet(f, x) \cap core) = Cardinality(Range(r.adj[v]) \cap C)
    <3>1. v \in DOMAIN r.adj
      OBVIOUS
    <3>2. Cardinality(Meet(f, r.names[v + 1]) \cap Named(r, C))
            = Cardinality(Range(r.adj[v]) \cap C)
      BY <3>1, SameDegree
    <3> QED BY <2>1, <3>2
  <2> QED BY <2>1, <2>2
<1>2. ASSUME NEW S \in SUBSET Entities(f), \A x \in S : Cardinality(Meet(f, x) \cap S) >= c
      PROVE  S \subseteq core
  <2> DEFINE T == {v \in DOMAIN r.adj : r.names[v + 1] \in S}
  <2>1. ASSUME NEW x \in S PROVE x \in Range(r.names)
    <3>1. Meet(f, x) \cap S # {}
      <4>1. CASE Meet(f, x) \cap S = {}
        <5>1. Cardinality(Meet(f, x) \cap S) = 0
          BY <4>1, FS_EmptySet
        <5>2. Cardinality(Meet(f, x) \cap S) >= c
          BY <1>2
        <5> QED BY <5>1, <5>2
      <4> QED BY <4>1
    <3>2. PICK y \in Meet(f, x) : y \in S
      BY <3>1
    <3> QED BY <3>2 DEF Meet, Pictures
  <2>2. S = Named(r, T)
    <3>1. ASSUME NEW x \in S PROVE x \in Named(r, T)
      <4>1. PICK v \in DOMAIN r.adj : r.names[v + 1] = x
        BY <2>1, PlaceOf
      <4> QED BY <4>1 DEF Named
    <3> QED BY <3>1 DEF Named
  <2>3. ASSUME NEW v \in T PROVE Cardinality(Range(r.adj[v]) \cap T) >= c
    <3>1. v \in DOMAIN r.adj /\ r.names[v + 1] \in S /\ T \in SUBSET DOMAIN r.adj
      OBVIOUS
    <3> HIDE DEF T
    <3>2. Cardinality(Meet(f, r.names[v + 1]) \cap S) = Cardinality(Range(r.adj[v]) \cap T)
      BY <2>2, <3>1, SameDegree
    <3>3. Cardinality(Meet(f, r.names[v + 1]) \cap S) >= c
      BY <1>2, <3>1
    <3> QED BY <3>2, <3>3
  <2>4. T \subseteq C
    <3>1. T \in SUBSET DOMAIN r.adj
      OBVIOUS
    <3> HIDE DEF T
    <3> QED BY <2>3, <3>1
  <2> QED BY <2>2, <2>4 DEF Named
<1> QED BY <1>1, <1>2

-----------------------------------------------------------------------------
At(f, n) == f.vertices[n].id
PathType(f) == f.path[Len(f.path)].type

(* The n-th vertex is found at place n, and no other id is found.          *)
LEMMA PlaceFinds ==
  ASSUME NEW f, f.layout # "edges", Plain(f)
  PROVE  /\ Len(f.vertices) \in Nat /\ DOMAIN f.vertices = 1 .. Len(f.vertices)
         /\ \A n \in DOMAIN f.vertices : Place(f, At(f, n)) = n
         /\ \A x : Place(f, x) # 0 => Place(f, x) \in DOMAIN f.vertices /\ At(f, Place(f, x)) = x
<1> DEFINE s == f.vertices
           spots(x) == {i \in 1 .. Len(s) : s[i].id = x}
<1>1. /\ s \in Seq([id : Nat, type : Nat])
      /\ \A m, n \in DOMAIN s : s[m].id = s[n].id => m = n
  BY DEF Plain
<1>2. Len(s) \in Nat /\ DOMAIN s = 1 .. Len(s)
  BY <1>1
<1>3. \A x : Place(f, x) = IF spots(x) = {} THEN 0 ELSE Min(spots(x))
  BY DEF Place, SelectInSeq
<1>4. ASSUME NEW x, spots(x) # {} PROVE Min(spots(x)) \in spots(x)
  <2> DEFINE T == spots(x)
  <2>1. T \in SUBSET Nat
    OBVIOUS
  <2> HIDE DEF T
  <2>2. \E i \in T : \A k \in T : i <= k
    BY <1>4, <2>1, LeastElement DEF T
  <2>3. Min(T) \in T
    BY <2>2 DEF Min
  <2> QED BY <2>3 DEF T
<1> HIDE DEF s
<1>5. ASSUME NEW n \in DOMAIN s PROVE Place(f, s[n].id) = n
  <2>1. spots(s[n].id) = {n}
    BY <1>1, <1>2
  <2>2. Min(spots(s[n].id)) = n
    BY <1>4, <2>1
  <2> QED BY <1>3, <2>1, <2>2
<1>6. ASSUME NEW x, Place(f, x) # 0 PROVE Place(f, x) \in DOMAIN s /\ s[Place(f, x)].id = x
  <2>1. Place(f, x) \in spots(x)
    BY <1>3, <1>4, <1>6
  <2> QED BY <1>2, <2>1
<1> QED BY <1>2, <1>5, <1>6 DEF At, s

(* The code's hop between places is a link between ids.                    *)
LEMMA ReachedLinks ==
  ASSUME NEW f, f.layout # "edges", Plain(f), NEW n \in DOMAIN f.vertices, NEW hop
  PROVE  /\ Reached(f, n, hop) \subseteq DOMAIN f.vertices
         /\ \A m \in DOMAIN f.vertices :
              m \in Reached(f, n, hop) <=> Linked(f, At(f, n), hop, At(f, m))
<1> DEFINE V == DOMAIN f.vertices
           known == {k \in DOMAIN f.links : Place(f, f.links[k].id) # 0}
           row == Rows(f)[n]
<1>1. /\ \A k \in V : Place(f, At(f, k)) = k /\ k # 0
      /\ \A x : Place(f, x) # 0 => Place(f, x) \in V /\ At(f, Place(f, x)) = x
  BY PlaceFinds
<1>2. \A r : r \in Range(f.links) /\ r.id = At(f, n) <=> r = row
  <2>1. DOMAIN f.links = 1 .. Len(f.links) /\ Len(f.links) \in Nat
    BY DEF Plain
  <2>2. known \in SUBSET Nat /\ IsFiniteSet(known)
    <3>1. IsFiniteSet(1 .. Len(f.links))
      BY <2>1, FS_Interval
    <3>2. known \subseteq 1 .. Len(f.links)
      BY <2>1
    <3>3. 1 .. Len(f.links) \subseteq Nat
      BY <2>1
    <3> HIDE DEF known
    <3>4. IsFiniteSet(known)
      BY <3>1, <3>2, FS_Subset
    <3> QED BY <3>2, <3>3, <3>4
  <2> DEFINE order == InOrder(known)
             J == Cardinality(known)
  <2>3. /\ J \in Nat /\ \A j \in 1 .. J : order[j] \in known
        /\ \A k \in known : \E j \in 1 .. J : order[j] = k
    <3> HIDE DEF known
    <3> QED BY <2>2, OrderFacts
  <2>4. DOMAIN order = 1 .. J
    BY DEF InOrder
  <2>5. Rows(f) = [j \in 1 .. J |-> f.links[order[j]]]
    BY <2>4 DEF Rows
  <2>6. DOMAIN Rows(f) = V /\ \A j \in DOMAIN Rows(f) : Rows(f)[j].id = At(f, j)
    BY DEF Plain, At
  <2> HIDE DEF order, J
  <2>7. row.id = At(f, n) /\ row \in Range(f.links)
    <3>1. n \in 1 .. J
      BY <2>5, <2>6
    <3>2. row = f.links[order[n]] /\ order[n] \in DOMAIN f.links
      BY <2>3, <2>5, <3>1
    <3> HIDE DEF row
    <3> QED BY <2>6, <3>2 DEF row, Range
  <2>8. ASSUME NEW r, r \in Range(f.links), r.id = At(f, n) PROVE r = row
    <3>1. PICK k \in DOMAIN f.links : r = f.links[k]
      BY <2>8 DEF Range
    <3>2. k \in known
      BY <1>1, <2>8, <3>1
    <3>3. PICK j \in 1 .. J : order[j] = k
      BY <2>3, <3>2
    <3>4. j \in V /\ Rows(f)[j] = r
      BY <2>5, <2>6, <3>1, <3>3
    <3>5. At(f, j) = At(f, n)
      BY <2>6, <2>8, <3>4
    <3>6. j = n
      BY <1>1, <3>4, <3>5
    <3> QED BY <3>4, <3>6
  <2> QED BY <2>7, <2>8
<1> HIDE DEF row
<1>3. Reached(f, n, hop) =
        {m \in {Place(f, l.id) : l \in {k \in row.to : k.kind \in hop.kinds /\ Place(f, k.id) # 0}} :
           f.vertices[m].type = hop.type}
  BY DEF Reached, row
<1>4. Reached(f, n, hop) \subseteq V
  BY <1>1, <1>3
<1>5. ASSUME NEW m \in V
      PROVE  m \in Reached(f, n, hop) <=> Linked(f, At(f, n), hop, At(f, m))
  <2>1. TypeOf(f, At(f, m)) = f.vertices[m].type
    BY <1>1 DEF TypeOf
  <2>2. (\E r \in Range(f.links) : r.id = At(f, n) /\ \E l \in r.to : l.id = At(f, m) /\ l.kind \in hop.kinds)
          <=> \E l \in row.to : l.id = At(f, m) /\ l.kind \in hop.kinds
    BY <1>2
  <2>3. \A l : l.id = At(f, m) <=> Place(f, l.id) # 0 /\ Place(f, l.id) = m
    BY <1>1
  <2>4. m \in Reached(f, n, hop)
          <=> f.vertices[m].type = hop.type /\ \E l \in row.to : l.id = At(f, m) /\ l.kind \in hop.kinds
    BY <1>3, <2>3
  <2> QED BY <2>1, <2>2, <2>4 DEF Linked
<1> QED BY <1>4, <1>5

(* The ids of the vertex file, one for each place.                         *)
Known(f) == {w.id : w \in Range(f.vertices)}

LEMMA KnownPlaces ==
  ASSUME NEW f, f.layout # "edges", Plain(f)
  PROVE  /\ \A n \in DOMAIN f.vertices : At(f, n) \in Known(f) /\ TypeOf(f, At(f, n)) = f.vertices[n].type
         /\ \A x \in Known(f) : \E n \in DOMAIN f.vertices : x = At(f, n)
         /\ \A m, n \in DOMAIN f.vertices : At(f, m) = At(f, n) => m = n
<1>1. \A n \in DOMAIN f.vertices : At(f, n) \in Known(f)
  BY DEF Known, Range, At
<1>2. \A n \in DOMAIN f.vertices : TypeOf(f, At(f, n)) = f.vertices[n].type
  BY PlaceFinds DEF TypeOf
<1>3. \A x \in Known(f) : \E n \in DOMAIN f.vertices : x = At(f, n)
  BY DEF Known, Range, At
<1>4. \A m, n \in DOMAIN f.vertices : At(f, m) = At(f, n) => m = n
  BY DEF Plain, At
<1> QED BY <1>1, <1>2, <1>3, <1>4

(* The partners of a vertex are those it is joined to.                     *)
LEMMA PartnersJoin ==
  ASSUME NEW f, f.layout # "edges", Plain(f), NEW n \in DOMAIN f.vertices
  PROVE  /\ Partners(f, n) \subseteq DOMAIN f.vertices
         /\ \A d \in DOMAIN f.vertices :
              d \in Partners(f, n) <=> d # n /\ Joined(f, At(f, n), At(f, d))
<1> DEFINE V == DOMAIN f.vertices
           hop(h, m) == Reached(f, m, f.path[h])
           to(h, x) == {w \in Known(f) : Linked(f, x, f.path[h], w)}
<1>1. ASSUME NEW m \in V, NEW h
      PROVE  hop(h, m) \subseteq V /\ \A k \in V : k \in hop(h, m) <=> At(f, k) \in to(h, At(f, m))
  BY KnownPlaces, ReachedLinks
<1>2. /\ \A k \in V : At(f, k) \in Known(f)
      /\ \A x \in Known(f) : \E k \in V : x = At(f, k)
      /\ \A j, k \in V : At(f, j) = At(f, k) => j = k
  BY KnownPlaces
<1>3. \A h, x : to(h, x) \subseteq Known(f)
  OBVIOUS
<1>4. CASE Len(f.path) = 2
  <2>1. Partners(f, n) = (UNION {hop(2, a) : a \in hop(1, n)}) \ {n}
    BY <1>4 DEF Partners
  <2>2. \A x, y : Joined(f, x, y) <=> \E a \in to(1, x) : y \in to(2, a)
    BY <1>4 DEF Joined, Known
  <2> HIDE DEF hop, to
  <2>3. Partners(f, n) \subseteq V
    BY <1>1, <2>1
  <2>4. ASSUME NEW d \in V
        PROVE  (\E a \in hop(1, n) : d \in hop(2, a)) <=> \E a \in to(1, At(f, n)) : At(f, d) \in to(2, a)
    BY <1>1, <1>2, <1>3
  <2>5. ASSUME NEW d \in V
        PROVE  d \in Partners(f, n) <=> d # n /\ Joined(f, At(f, n), At(f, d))
    <3>1. d \in Partners(f, n) <=> d # n /\ \E a \in hop(1, n) : d \in hop(2, a)
      <4> DEFINE A == hop(1, n)
                 G(a) == hop(2, a)
      <4>1. Partners(f, n) = (UNION {G(a) : a \in A}) \ {n}
        BY <2>1
      <4> HIDE DEF A, G
      <4>2. d \in Partners(f, n) <=> d # n /\ \E a \in A : d \in G(a)
        BY <4>1
      <4> QED BY <4>2 DEF A, G
    <3>2. Joined(f, At(f, n), At(f, d)) <=> \E a \in to(1, At(f, n)) : At(f, d) \in to(2, a)
      BY <2>2
    <3> QED BY <2>4, <3>1, <3>2
  <2> QED BY <2>3, <2>5
<1>5. CASE Len(f.path) = 4
  <2>1. Partners(f, n) =
          {d \in V \ {n} :
             \E a \in hop(1, n) : \E b \in hop(2, a) \ {n} : \E c \in hop(3, b) :
               c - 1 # At(f, a) /\ d \in hop(4, c) /\ d - 1 # At(f, b)}
    BY <1>5 DEF Partners, At
  <2>2. \A x, y : Joined(f, x, y) <=>
          \E a \in to(1, x) : \E b \in to(2, a) \ {x, y} : \E c \in to(3, b) \ {a} : y \in to(4, c)
    BY <1>5 DEF Joined, Known
  <2>3. \A k \in V : At(f, k) = k - 1 /\ k \in Nat
    BY <1>5, PlaceFinds DEF Plain, At
  <2>4. \A j, k \in V : j - 1 # At(f, k) <=> j # k
    BY <2>3
  <2> HIDE DEF hop, to
  <2>5. Partners(f, n) \subseteq V
    BY <2>1
  <2>6. ASSUME NEW d \in V, NEW a \in V, NEW b \in V, NEW c \in V
        PROVE  /\ a \in hop(1, n) <=> At(f, a) \in to(1, At(f, n))
               /\ b \in hop(2, a) \ {n} /\ d - 1 # At(f, b)
                    <=> At(f, b) \in to(2, At(f, a)) \ {At(f, n), At(f, d)}
               /\ c \in hop(3, b) /\ c - 1 # At(f, a) <=> At(f, c) \in to(3, At(f, b)) \ {At(f, a)}
               /\ d \in hop(4, c) <=> At(f, d) \in to(4, At(f, c))
    <3>1. /\ d - 1 # At(f, b) <=> At(f, b) # At(f, d)
          /\ b # n <=> At(f, b) # At(f, n)
          /\ c - 1 # At(f, a) <=> At(f, c) # At(f, a)
      BY <1>2, <2>4
    <3> QED BY <1>1, <3>1
  <2>7. ASSUME NEW d \in V, d \in Partners(f, n)
        PROVE  d # n /\ Joined(f, At(f, n), At(f, d))
    <3>1. PICK a \in hop(1, n) : \E b \in hop(2, a) \ {n} : \E c \in hop(3, b) :
            c - 1 # At(f, a) /\ d \in hop(4, c) /\ d - 1 # At(f, b)
      BY <2>1, <2>7
    <3>2. a \in V
      BY <1>1
    <3>3. PICK b \in hop(2, a) \ {n} : \E c \in hop(3, b) :
            c - 1 # At(f, a) /\ d \in hop(4, c) /\ d - 1 # At(f, b)
      BY <3>1
    <3>4. b \in V
      BY <1>1, <3>2
    <3>5. PICK c \in hop(3, b) : c - 1 # At(f, a) /\ d \in hop(4, c) /\ d - 1 # At(f, b)
      BY <3>3
    <3>6. c \in V
      BY <1>1, <3>4
    <3>7. /\ At(f, a) \in to(1, At(f, n)) /\ At(f, b) \in to(2, At(f, a)) \ {At(f, n), At(f, d)}
          /\ At(f, c) \in to(3, At(f, b)) \ {At(f, a)} /\ At(f, d) \in to(4, At(f, c))
      BY <2>6, <3>2, <3>4, <3>5, <3>6
    <3> QED BY <2>1, <2>2, <2>7, <3>7
  <2>8. ASSUME NEW d \in V, d # n, Joined(f, At(f, n), At(f, d))
        PROVE  d \in Partners(f, n)
    <3>1. PICK p \in to(1, At(f, n)) :
            \E q \in to(2, p) \ {At(f, n), At(f, d)} : \E r \in to(3, q) \ {p} : At(f, d) \in to(4, r)
      BY <2>2, <2>8
    <3>2. PICK q \in to(2, p) \ {At(f, n), At(f, d)} : \E r \in to(3, q) \ {p} : At(f, d) \in to(4, r)
      BY <3>1
    <3>3. PICK r \in to(3, q) \ {p} : At(f, d) \in to(4, r)
      BY <3>2
    <3>4. p \in Known(f) /\ q \in Known(f) /\ r \in Known(f)
      BY <1>3
    <3>5. PICK a \in V : p = At(f, a)
      BY <1>2, <3>4
    <3>6. PICK b \in V : q = At(f, b)
      BY <1>2, <3>4
    <3>7. PICK c \in V : r = At(f, c)
      BY <1>2, <3>4
    <3>8. /\ a \in hop(1, n) /\ b \in hop(2, a) \ {n} /\ d - 1 # At(f, b)
          /\ c \in hop(3, b) /\ c - 1 # At(f, a) /\ d \in hop(4, c)
      BY <2>6, <3>1, <3>2, <3>3, <3>5, <3>6, <3>7
    <3> QED BY <2>1, <2>8, <3>8
  <2> QED BY <2>5, <2>7, <2>8
<1>6. Len(f.path) \in {2, 4}
  BY DEF Plain
<1> QED BY <1>4, <1>5, <1>6

-----------------------------------------------------------------------------
(* The number of a name is where it stands.                                *)
LEMMA NumberOf ==
  ASSUME NEW V, NEW names, Queue(V, names), NEW u \in 0 .. Len(names) - 1
  PROVE  names[u + 1] \in Range(names) /\ Number(names, names[u + 1]) = u
<1> DEFINE x == names[u + 1]
           k == Number(names, x)
<1>1. Len(names) \in Nat /\ DOMAIN names = 1 .. Len(names)
  BY DEF Queue
<1>2. u + 1 \in 1 .. Len(names)
  BY <1>1
<1>3. x \in Range(names)
  BY <1>1, <1>2 DEF Range
<1>4. k \in 0 .. Len(names) - 1 /\ names[k + 1] = x
  <2> HIDE DEF x
  <2> QED BY <1>3, NumberFinds
<1> HIDE DEF k
<1>5. k + 1 \in 1 .. Len(names)
  BY <1>1, <1>4
<1>6. k + 1 = u + 1
  BY <1>2, <1>4, <1>5 DEF Queue
<1>7. k = u
  BY <1>4, <1>6
<1> QED BY <1>3, <1>7 DEF k

(* A set of numbers in order has the members of the set.                   *)
LEMMA OrderMembers ==
  ASSUME NEW S \in SUBSET Nat, IsFiniteSet(S)
  PROVE  Range(InOrder(S)) = S
<1>1. /\ Cardinality(S) \in Nat
      /\ \A n \in 1 .. Cardinality(S) : InOrder(S)[n] \in S
      /\ \A x \in S : \E n \in 1 .. Cardinality(S) : InOrder(S)[n] = x
  BY OrderFacts
<1>2. DOMAIN InOrder(S) = 1 .. Cardinality(S)
  BY DEF InOrder
<1> QED BY <1>1, <1>2 DEF Range

(* The vertices kept are those the network is about, but for some that are *)
(* joined to none.                                                         *)
LEMMA KeptFacts ==
  ASSUME NEW f, f.layout # "edges", Plain(f)
  PROVE  /\ Kept(f) \in SUBSET Nat /\ IsFiniteSet(Kept(f)) /\ Kept(f) \subseteq DOMAIN f.vertices
         /\ \A n \in Kept(f) : At(f, n) \in Entities(f)
         /\ \A m, n \in DOMAIN f.vertices :
              /\ At(f, m) \in Entities(f) /\ At(f, n) \in Entities(f)
              /\ m # n /\ Joined(f, At(f, m), At(f, n))
              => m \in Kept(f) /\ n \in Kept(f)
<1> DEFINE V == DOMAIN f.vertices
<1>1. V = 1 .. Len(f.vertices) /\ Len(f.vertices) \in Nat
  BY PlaceFinds
<1>2. Kept(f) = {n \in V : f.vertices[n].type = PathType(f) /\ (f.keep \/ Partners(f, n) # {})}
  BY DEF Kept, Plain, PathType
<1>3. \A n \in V : At(f, n) \in Entities(f) <=> f.vertices[n].type = PathType(f)
  <2>1. Entities(f) = {x \in Known(f) : TypeOf(f, x) = PathType(f)}
    BY DEF Entities, Known, PathType
  <2> QED BY <2>1, KnownPlaces
<1>4. Kept(f) \in SUBSET Nat /\ IsFiniteSet(Kept(f)) /\ Kept(f) \subseteq V
  <2>1. Kept(f) \subseteq V
    BY <1>2
  <2>2. IsFiniteSet(V) /\ V \in SUBSET Nat
    BY <1>1, FS_Interval
  <2> HIDE DEF V
  <2> QED BY <2>1, <2>2, FS_Subset
<1>5. ASSUME NEW m \in V, NEW n \in V, At(f, m) \in Entities(f), At(f, n) \in Entities(f),
             m # n, Joined(f, At(f, m), At(f, n))
      PROVE  m \in Kept(f) /\ n \in Kept(f)
  <2>1. Joined(f, At(f, n), At(f, m))
    BY <1>5 DEF Plain
  <2>2. n \in Partners(f, m) /\ m \in Partners(f, n)
    BY <1>5, <2>1, PartnersJoin
  <2> QED BY <1>2, <1>3, <1>5, <2>2
<1> QED BY <1>2, <1>3, <1>4, <1>5

(* What is read from a typed file pictures it.                             *)
LEMMA MetaPictures ==
  ASSUME NEW f, f.layout # "edges", Plain(f)
  PROVE  Pictures(f, Meta(f))
<1> DEFINE V == DOMAIN f.vertices
           kept == InOrder(Kept(f))
           K == Cardinality(Kept(f))
           names == [m \in DOMAIN kept |-> f.vertices[kept[m]].id]
           P == 0 .. Len(names) - 1
           r == Meta(f)
           Ids(n) == {f.vertices[p].id : p \in Partners(f, n)} \cap Range(names)
           Numbers(v) == {Number(names, x) : x \in Ids(kept[v + 1])}
<1>1. /\ Kept(f) \in SUBSET Nat /\ IsFiniteSet(Kept(f)) /\ Kept(f) \subseteq V
      /\ \A n \in Kept(f) : At(f, n) \in Entities(f)
  BY KeptFacts
<1>2. /\ K \in Nat /\ DOMAIN kept = 1 .. K
      /\ \A n \in 1 .. K : kept[n] \in Kept(f)
      /\ \A x \in Kept(f) : \E n \in 1 .. K : kept[n] = x
      /\ \A m, n \in 1 .. K : m < n => kept[m] < kept[n]
  <2>1. DOMAIN kept = 1 .. K
    BY DEF InOrder
  <2> QED BY <1>1, <2>1, OrderFacts
<1>3. r.names = names /\ r.adj = [v \in P |-> InOrder(Numbers(v))]
  BY DEF Meta
<1> HIDE DEF kept, K
<1>4. /\ DOMAIN names = 1 .. K /\ Len(names) = K
      /\ \A n \in 1 .. K : names[n] = At(f, kept[n]) /\ names[n] \in Entities(f)
      /\ names \in Seq(Entities(f))
  <2>1. \A n \in 1 .. K : f.vertices[kept[n]].id = At(f, kept[n]) /\ At(f, kept[n]) \in Entities(f)
    BY <1>1, <1>2 DEF At
  <2>2. names = [n \in 1 .. K |-> At(f, kept[n])]
    BY <1>2, <2>1
  <2> QED BY <1>2, <2>1, <2>2
<1> HIDE DEF names
<1>5. Queue(Entities(f), names)
  <2> SUFFICES ASSUME NEW m \in 1 .. K, NEW n \in 1 .. K, names[m] = names[n] PROVE m = n
    BY <1>4 DEF Queue
  <2>1. kept[m] \in V /\ kept[n] \in V /\ kept[m] \in Nat /\ kept[n] \in Nat
    BY <1>1, <1>2
  <2>2. kept[m] = kept[n]
    BY <1>4, <2>1, KnownPlaces
  <2>3. m < n \/ n < m \/ m = n
    BY <1>2
  <2> QED BY <1>2, <2>1, <2>2, <2>3
<1>6. \A x : x \in Range(names) <=> \E n \in Kept(f) : x = At(f, n)
  <2>1. \A x : x \in Range(names) <=> \E n \in 1 .. K : names[n] = x
    BY <1>4 DEF Range
  <2> QED BY <1>2, <1>4, <2>1
<1>7. ASSUME NEW u \in P, NEW v \in P
      PROVE  u \in Range(r.adj[v]) <=> u # v /\ Joined(f, names[v + 1], names[u + 1])
  <2>1. u + 1 \in 1 .. K /\ v + 1 \in 1 .. K
    BY <1>2, <1>4
  <2> DEFINE n == kept[v + 1]
             d == kept[u + 1]
  <2>2. n \in V /\ d \in V /\ names[v + 1] = At(f, n) /\ names[u + 1] = At(f, d)
    BY <1>1, <1>2, <1>4, <2>1
  <2>3. Numbers(v) \in SUBSET Nat /\ IsFiniteSet(Numbers(v))
    <3>1. Numbers(v) \subseteq P
      <4>1. \A x \in Range(names) : Number(names, x) \in P
        BY <1>5, NumberFinds
      <4> QED BY <4>1
    <3>2. IsFiniteSet(P) /\ P \in SUBSET Nat
      BY <1>2, <1>4, FS_Interval
    <3> HIDE DEF P, Numbers
    <3> QED BY <3>1, <3>2, FS_Subset
  <2>4. Range(r.adj[v]) = Numbers(v)
    <3>1. r.adj[v] = InOrder(Numbers(v))
      BY <1>3
    <3> HIDE DEF Numbers
    <3> QED BY <2>3, <3>1, OrderMembers
  <2>5. u \in Numbers(v) <=> names[u + 1] \in Ids(n)
    <3>1. names[u + 1] \in Range(names) /\ Number(names, names[u + 1]) = u
      BY <1>5, NumberOf
    <3>2. \A x \in Range(names) : names[Number(names, x) + 1] = x
      BY <1>5, NumberFinds
    <3>3. Ids(n) \subseteq Range(names)
      OBVIOUS
    <3> HIDE DEF Ids
    <3> QED BY <3>1, <3>2, <3>3
  <2>6. names[u + 1] \in Ids(n) <=> d \in Partners(f, n)
    <3>1. names[u + 1] \in Range(names)
      BY <1>5, NumberOf
    <3>2. Partners(f, n) \subseteq V /\ \A j, k \in V : At(f, j) = At(f, k) => j = k
      BY <2>2, PartnersJoin, KnownPlaces
    <3>3. names[u + 1] \in Ids(n) <=> \E p \in Partners(f, n) : At(f, p) = names[u + 1]
      BY <3>1 DEF At
    <3> QED BY <2>2, <3>2, <3>3
  <2>7. d \in Partners(f, n) <=> d # n /\ Joined(f, At(f, n), At(f, d))
    BY <2>2, PartnersJoin
  <2>8. d # n <=> u # v
    <3>1. n \in Nat /\ d \in Nat
      BY <1>1, <1>2, <2>1
    <3>2. u < v \/ v < u \/ u = v
      BY <1>2, <1>4
    <3>3. u < v => d < n
      BY <1>2, <1>4, <2>1
    <3>4. v < u => n < d
      BY <1>2, <1>4, <2>1
    <3> HIDE DEF n, d
    <3>5. (u < v => u # v) /\ (v < u => u # v)
      BY <1>2, <1>4
    <3>6. u = v => n = d
      BY DEF n, d
    <3> QED BY <3>1, <3>2, <3>3, <3>4, <3>5, <3>6
  <2> QED BY <2>2, <2>4, <2>5, <2>6, <2>7, <2>8
<1>8. ASSUME NEW x \in Entities(f), NEW y \in Entities(f), x # y, Joined(f, x, y)
      PROVE  x \in Range(names) /\ y \in Range(names)
  <2>1. Entities(f) \subseteq Known(f)
    BY DEF Entities, Known
  <2>2. PICK m \in V : x = At(f, m)
    BY <2>1, KnownPlaces
  <2>3. PICK n \in V : y = At(f, n)
    BY <2>1, KnownPlaces
  <2>4. m \in Kept(f) /\ n \in Kept(f)
    BY <1>8, <2>2, <2>3, KeptFacts
  <2> QED BY <1>6, <2>2, <2>3, <2>4
<1>9. DOMAIN r.adj = P
  BY <1>3
<1> HIDE DEF r, P
<1> QED BY <1>3, <1>5, <1>7, <1>8, <1>9 DEF Pictures, P, r

-----------------------------------------------------------------------------
(* While a dataset is loaded, the graph is that of its file, and what is   *)
(* known of a graph that is peeled is known of it.                         *)
FromFile == dataset \in DOMAIN Files /\ ori_adj = Read(Files[dataset]).adj

LEMMA LoadedPeels ==
  ASSUME Simple PROVE LoadedSpec => [](IInv /\ Lag /\ PeelInv /\ FromFile)
<1>1. LoadedInit => IInv /\ Lag /\ PeelInv /\ FromFile
  BY InitInv, InitLag, InitPeels, InitPeelInv DEF LoadedInit, FromFile, Loaded
<1>2. ASSUME IInv, Lag, PeelInv, FromFile, [LoadedNext]_built
      PROVE  IInv' /\ Lag' /\ PeelInv' /\ FromFile'
  <2>1. [Next]_vars /\ dataset' = dataset
    BY <1>2 DEF LoadedNext, Decompose, Init_Nodes, built
  <2>2. IInv' /\ Lag'
    BY <1>2, <2>1, NextInv, NextLag
  <2>3. PeelInv'
    <3>1. [Abstract!Next]_(Abstract!vars)
      BY <1>2, <2>1, NextPeels
    <3>2. CASE UNCHANGED Abstract!vars
      <4>1. /\ Adjacent' = Adjacent /\ Left' = Left /\ Level' = Level
            /\ Coreness' = Coreness
        BY <3>2 DEF Abstract!vars, Adjacent, Left, Level, Coreness
      <4> QED BY <1>2, <4>1 DEF PeelInv, PeelTypeOK, Dense, Within, Open, AtLevel
    <3> QED BY <1>2, <3>1, <3>2, NextPeelInv DEF Abstract!Next
  <2>4. ori_adj' = ori_adj
    BY <2>1 DEF Next, Lower, Pass, NextVertex, Finish, Terminated, vars
  <2> QED BY <1>2, <2>1, <2>2, <2>3, <2>4 DEF FromFile
<1> QED BY <1>1, <1>2, PTL DEF LoadedSpec

(* Both together, for any file.                                            *)
LEMMA FilesPicture ==
  ASSUME NEW f, Plain(f) PROVE Pictures(f, Read(f))
BY HomoPictures, MetaPictures DEF Read

(* From the files to the result: the vertices of coreness c or more stand  *)
(* for the largest set of the network in which each has c neighbours or    *)
(* more, whichever reader made the graph.                                  *)
THEOREM CoreOfFileCorrect ==
  ASSUME Simple, \A d \in DOMAIN Files : Plain(Files[d])
  PROVE  LoadedSpec => []CoreOfFile
<1>1. IInv /\ Lag /\ PeelInv /\ FromFile => CoreOfFile
  <2> SUFFICES ASSUME IInv, PeelInv, FromFile, Returned, NEW c \in DOMAIN bin \ {0}
               PROVE  \A near \in {Network[dataset]}, names \in {Loaded[dataset].names} :
                        \A core \in {{names[v + 1] : v \in Core(c)}} :
                          /\ \A x \in core : Cardinality(near[x] \cap core) >= c
                          /\ \A S \in SUBSET DOMAIN near :
                               (\A x \in S : Cardinality(near[x] \cap S) >= c) => S \subseteq core
    BY DEF CoreOfFile
  <2> DEFINE f == Files[dataset]
             r == Read(f)
             near == Network[dataset]
             core == Named(r, Core(c))
  <2>1. Pictures(f, r)
    BY FilesPicture DEF FromFile
  <2>2. c \in Nat \ {0}
    BY Ranges
  <2>3. /\ \A v \in Core(c) : Cardinality(Range(ori_adj[v]) \cap Core(c)) >= c
        /\ \A S \in SUBSET Vertex :
             (\A v \in S : Cardinality(Range(ori_adj[v]) \cap S) >= c) => S \subseteq Core(c)
        /\ Core(c) \in SUBSET Vertex
    <3>1. at = N /\ core_list = deg
      BY Ranges DEF Returned, Peeling, IInv, Published
    <3>2. \A v \in Vertex : Peeled(v)
      BY <3>1, Ranges DEF Peeled
    <3>3. Left = {} /\ AtLevel(c) = Core(c)
      BY <3>1, <3>2 DEF Left, AtLevel, Coreness, Core
    <3>4. Dense(Core(c), c) /\ \A S \in SUBSET Vertex : Dense(S, c) => S \subseteq Core(c)
      BY <2>2, <3>3, PeelInvExact
    <3>5. Core(c) \in SUBSET Vertex
      BY DEF Core
    <3>6. ASSUME NEW S \in SUBSET Vertex
          PROVE  Dense(S, c) <=> \A v \in S : Cardinality(Range(ori_adj[v]) \cap S) >= c
      <4>1. \A v \in S : Within(v, S) = Cardinality(Range(ori_adj[v]) \cap S)
        BY DEF Within, Adjacent
      <4> QED BY <4>1 DEF Dense
    <3> QED BY <3>4, <3>5, <3>6
  <2>4. r.adj = ori_adj /\ DOMAIN r.adj = Vertex
    BY DEF FromFile, IInv, TypeOK
  <2>5. /\ \A x \in core : Cardinality(Meet(f, x) \cap core) >= c
        /\ \A S \in SUBSET Entities(f) :
             (\A x \in S : Cardinality(Meet(f, x) \cap S) >= c) => S \subseteq core
    <3> DEFINE C == Core(c)
    <3>1. IsCore(r.adj, c, C)
      <4> HIDE DEF r, f
      <4> QED BY <2>3, <2>4 DEF IsCore
    <3>2. core = Named(r, C)
      OBVIOUS
    <3> HIDE DEF r, f, C, core
    <3> QED BY <2>1, <2>2, <3>1, <3>2, CoreStands
  <2>6. DOMAIN near = Entities(f) /\ \A x \in Entities(f) : near[x] = Meet(f, x)
    BY DEF Network, Meet, FromFile
  <2>7. core \subseteq Entities(f)
    BY <2>1, <2>3, <2>4, PlaceOf DEF Named
  <2>8. Loaded[dataset].names = r.names
    BY DEF Loaded, FromFile
  <2> HIDE DEF f, r, near
  <2>9. /\ \A x \in core : Cardinality(near[x] \cap core) >= c
        /\ \A S \in SUBSET DOMAIN near :
             (\A x \in S : Cardinality(near[x] \cap S) >= c) => S \subseteq core
    <3> HIDE DEF core
    <3> QED BY <2>5, <2>6, <2>7
  <2> QED BY <2>8, <2>9 DEF near, Named
<1> QED BY <1>1, LoadedPeels, PTL
=============================================================================
