---------------------------- MODULE IndexProofs ----------------------------
(***************************************************************************)
(* Proofs about the lists of the index: about HierIndex, where they are    *)
(* built, for every graph, every nesting of components, every max_degree   *)
(* and every number of layers; and about DynamicIndex, where vertices are  *)
(* added to them, for every loaded index and every sequence of new ids.    *)
(***************************************************************************)
EXTENDS HierIndex, DynamicIndex, FiniteSetTheorems, Extrema, TLAPS

(* Two vertices together in a layer are together below it.                 *)
LEMMA Nested ==
  ASSUME NEW u \in Node, NEW v \in Node, NEW k \in 0 .. MaxLayer,
         NEW l \in 0 .. k, Together(u, v, k)
  PROVE  Together(u, v, l)
<1>1. MaxLayer \in Nat /\ Core[u] \in 0 .. MaxLayer /\ Core[v] \in 0 .. MaxLayer
  BY HierAssumption
<1>2. k <= Core[u] /\ k <= Core[v] /\ Compo[u][k] = Compo[v][k]
  BY <1>1 DEF Together, InLayer
<1>3. Compo[u][l] = Compo[v][l]
  BY <1>2, HierAssumption
<1>4. Core[u] >= l /\ Core[v] >= l
  BY <1>1, <1>2
<1> QED BY <1>3, <1>4 DEF Together, InLayer

(* Return_Maximum_Common_Layer finds the highest common layer.             *)
LEMMA MaxCommonLayerProperties ==
  ASSUME NEW u \in Node, NEW v \in Node
  PROVE  /\ MaxCommonLayer(u, v) \in 0 .. MaxLayer
         /\ MaxCommonLayer(u, v) = 0 \/ Together(u, v, MaxCommonLayer(u, v))
         /\ \A k \in 0 .. MaxLayer :
              Together(u, v, k) => k <= MaxCommonLayer(u, v)
<1>1. MaxLayer \in Nat
  BY HierAssumption
<1>2. CommonLayers(u, v) \in SUBSET (0 .. MaxLayer) /\ CommonLayers(u, v) # {}
  BY <1>1 DEF CommonLayers
<1>3. \E k \in CommonLayers(u, v) : \A l \in CommonLayers(u, v) : l <= k
  BY <1>1, <1>2, GreatestElement
<1>4. /\ MaxCommonLayer(u, v) \in CommonLayers(u, v)
      /\ \A l \in CommonLayers(u, v) : l <= MaxCommonLayer(u, v)
  BY <1>3 DEF MaxCommonLayer
<1>5. \A k \in 0 .. MaxLayer : Together(u, v, k) => k \in CommonLayers(u, v)
  BY <1>1 DEF CommonLayers
<1>6. MaxCommonLayer(u, v) = 0 \/ Together(u, v, MaxCommonLayer(u, v))
  BY <1>4 DEF CommonLayers
<1> QED BY <1>2, <1>4, <1>5, <1>6

-----------------------------------------------------------------------------
Carriers(list, k) == {j \in DOMAIN list : Carries(list[j], k)}

LEMMA CarriersFinite ==
  ASSUME NEW list \in Seq(Entries), NEW k
  PROVE  IsFiniteSet(Carriers(list, k))
<1>1. IsFiniteSet(1 .. Len(list))
  BY FS_Interval
<1>2. Carriers(list, k) \in SUBSET (1 .. Len(list))
  BY DEF Carriers
<1> QED BY <1>1, <1>2, FS_Subset

(* A layer sees every entry that carries it when they are few enough.      *)
LEMMA SeenAll ==
  ASSUME NEW list \in Seq(Entries), NEW k,
         Cardinality(Carriers(list, k)) <= Degree
  PROVE  Seen(list, k) = Carriers(list, k)
<1>1. ASSUME NEW j \in Carriers(list, k)
      PROVE  Cardinality({m \in UpTo(list, j) : Carries(list[m], k)}) <= Degree
  <2> DEFINE C == {m \in UpTo(list, j) : Carries(list[m], k)}
  <2>1. C \in SUBSET Carriers(list, k)
    BY <1>1 DEF Carriers, UpTo
  <2>2. IsFiniteSet(C) /\ Cardinality(C) <= Cardinality(Carriers(list, k))
    BY <2>1, CarriersFinite, FS_Subset
  <2>3. Cardinality(C) \in Nat /\ Cardinality(Carriers(list, k)) \in Nat
    BY <2>2, CarriersFinite, FS_CardinalityType
  <2>4. Degree \in Nat
    BY HierAssumption
  <2> QED BY <2>2, <2>3, <2>4
<1> QED BY <1>1 DEF Seen, Carriers

(* Appending to a list hides nothing that a layer sees.                    *)
LEMMA ViewGrows ==
  ASSUME NEW list \in Seq(Entries), NEW new \in Seq(Entries), NEW k
  PROVE  View(list, k) \subseteq View(list \o new, k)
<1> DEFINE longer == list \o new
<1>1. longer \in Seq(Entries) /\ Len(longer) = Len(list) + Len(new)
  OBVIOUS
<1>2. \A j \in DOMAIN list : j \in DOMAIN longer /\ longer[j] = list[j]
  OBVIOUS
<1> HIDE DEF longer
<1>3. ASSUME NEW j \in Seen(list, k)
      PROVE  j \in Seen(longer, k)
  <2>1. j \in DOMAIN list /\ UpTo(list, j) = UpTo(longer, j)
    BY <1>3 DEF Seen, UpTo
  <2>2. \A m \in UpTo(list, j) : m \in DOMAIN list
    BY <2>1 DEF UpTo
  <2>3. {m \in UpTo(list, j) : Carries(list[m], k)}
          = {m \in UpTo(longer, j) : Carries(longer[m], k)}
    BY <2>1, <2>2, <1>2
  <2> QED BY <1>2, <1>3, <2>1, <2>3 DEF Seen
<1>4. \A j \in Seen(list, k) : list[j].id = longer[j].id
  BY <1>2 DEF Seen
<1>5. View(list, k) \subseteq View(longer, k)
  BY <1>3, <1>4 DEF View
<1> QED BY <1>5 DEF longer

-----------------------------------------------------------------------------
(* The inductive invariant.  The tags are what Return_Maximum_Common_Layer *)
(* gives; the layer being built has not more than max_degree entries that  *)
(* carry it, so that it sees them all, and they are distinct; and what is  *)
(* not built yet is empty.                                                 *)
TagsMaximal ==
  \A v \in Tracked : \A j \in DOMAIN hier_adj[v] :
    LET e == hier_adj[v][j]
    IN  /\ e.tag = MaxCommonLayer(e.id, v)
        /\ Strays \/ Together(e.id, v, 0)

Distinct ==
  \A v \in Tracked : \A i, j \in Carriers(hier_adj[v], layer) :
    hier_adj[v][i].id = hier_adj[v][j].id => i = j

LockedIsView == \A v \in todo : locked[v] = View(hier_adj[v], layer)

Fits ==
  \A v \in Tracked : Cardinality(Carriers(hier_adj[v], layer)) <= Degree

Unbuilt ==
  \A v \in Tracked : \A k \in 0 .. MaxLayer :
    (k > layer \/ (k = layer /\ v \in todo)) => built[k][v] = {}

IInv ==
  /\ TypeOK
  /\ todo \subseteq InLayer(layer)
  /\ TagsMaximal
  /\ Strays \/ NoDuplicates
  /\ Distinct
  /\ LockedIsView
  /\ Fits
  /\ Unbuilt
  /\ LayerKeepsLinks

LEMMA InitIInv == Init => IInv
<1> SUFFICES ASSUME Init PROVE IInv
  OBVIOUS
<1> USE DEF Init
<1>1. MaxLayer \in Nat /\ Tracked \subseteq Node /\ Degree \in Nat
  BY HierAssumption
<1>2. \A v \in Tracked : DOMAIN hier_adj[v] = {} /\ hier_adj[v] \in Seq(Entries)
  OBVIOUS
<1>3. TypeOK
  BY <1>1, <1>2 DEF TypeOK
<1>4. \A v \in Tracked : \A k : View(hier_adj[v], k) = {} /\ Carriers(hier_adj[v], k) = {}
  BY <1>2 DEF View, Seen, Carriers
<1>5. LockedIsView
  BY <1>4 DEF LockedIsView
<1>6. Fits
  <2>1. \A v \in Tracked : Carriers(hier_adj[v], layer) = {}
    BY <1>4
  <2>2. \A v \in Tracked : Cardinality(Carriers(hier_adj[v], layer)) = 0
    <3>1. Cardinality({}) = 0
      BY FS_EmptySet
    <3> HIDE DEF Init
    <3> QED BY <2>1, <3>1
  <2> HIDE DEF Init
  <2> QED BY <1>1, <2>2 DEF Fits
<1>7. TagsMaximal /\ NoDuplicates /\ Distinct
  BY <1>2, <1>4 DEF TagsMaximal, NoDuplicates, Distinct
<1>8. Unbuilt
  BY <1>1 DEF Unbuilt
<1>9. LayerKeepsLinks
  BY <1>1 DEF LayerKeepsLinks
<1> QED BY <1>3, <1>5, <1>6, <1>7, <1>8, <1>9 DEF IInv

-----------------------------------------------------------------------------
(* What Save appends: the tagged entries of the added vertices.            *)
LEMMA TaggedProperties ==
  ASSUME NEW v \in Tracked, NEW A \in SUBSET Node, IsFiniteSet(A),
         NEW order \in Orders(A)
  PROVE  LET new == Tagged(v, order)
         IN  /\ new \in Seq(Entries) /\ DOMAIN new = 1 .. Cardinality(A)
             /\ \A j \in DOMAIN new :
                  new[j].id \in A /\ new[j].tag = MaxCommonLayer(new[j].id, v)
             /\ \A i, j \in DOMAIN new : new[i].id = new[j].id => i = j
             /\ \A u \in A : \E j \in DOMAIN new : new[j].id = u
<1> DEFINE n == Cardinality(A)
           new == Tagged(v, order)
<1>1. n \in Nat
  BY FS_CardinalityType
<1>2. /\ order \in [1 .. n -> A]
      /\ \A i, j \in 1 .. n : order[i] = order[j] => i = j
  BY DEF Orders
<1>3. v \in Node
  BY HierAssumption
<1>4. \A j \in 1 .. n : /\ order[j] \in A
                        /\ MaxCommonLayer(order[j], v) \in 0 .. MaxLayer
  BY <1>2, <1>3, MaxCommonLayerProperties
<1>5. /\ new = [j \in 1 .. n |->
                 [tag |-> MaxCommonLayer(order[j], v), id |-> order[j]]]
  BY <1>2 DEF Tagged
<1>6. new \in [1 .. n -> Entries]
  BY <1>4, <1>5 DEF Entries
<1>7. new \in Seq(Entries)
  BY <1>1, <1>6
<1>8. \A j \in 1 .. n : new[j].id = order[j] /\ new[j].tag = MaxCommonLayer(order[j], v)
  BY <1>5
<1>9. \A u \in A : \E j \in 1 .. n : order[j] = u
  <2>1. order \in Injection(1 .. n, A)
    BY <1>2 DEF Injection, IsInjective
  <2>2. IsFiniteSet(1 .. n) /\ Cardinality(1 .. n) = n
    BY <1>1, FS_Interval
  <2>3. order \in Surjection(1 .. n, A)
    BY <2>1, <2>2, FS_Injection
  <2> QED BY <2>3 DEF Surjection
<1>10. DOMAIN new = 1 .. n
  BY <1>6
<1> HIDE DEF new
<1>11. \A j \in DOMAIN new : new[j].id \in A /\ new[j].tag = MaxCommonLayer(new[j].id, v)
  BY <1>4, <1>8, <1>10
<1>12. \A i, j \in DOMAIN new : new[i].id = new[j].id => i = j
  BY <1>2, <1>8, <1>10
<1>13. \A u \in A : \E j \in DOMAIN new : new[j].id = u
  BY <1>8, <1>9, <1>10
<1> QED BY <1>7, <1>10, <1>11, <1>12, <1>13 DEF new

LEMMA SaveIInv ==
  ASSUME IInv, NEW v \in Tracked, Save(v)
  PROVE  IInv'
<1>1. /\ MaxLayer \in Nat /\ Degree \in Nat \ {0}
      /\ IsFiniteSet(Node) /\ v \in Node /\ Tracked \subseteq Node
  BY HierAssumption
<1>2. /\ TypeOK /\ TagsMaximal /\ LockedIsView /\ Fits /\ Distinct
      /\ Strays \/ NoDuplicates
      /\ Unbuilt /\ LayerKeepsLinks /\ todo \subseteq InLayer(layer)
  BY DEF IInv
<1>3. PICK S \in Extensions(v) :
        /\ built' = [built EXCEPT ![layer][v] = S]
        /\ \E order \in Orders(Added(v, S)) :
             hier_adj' = [hier_adj EXCEPT ![v] = @ \o Tagged(v, order)]
  BY DEF Save
<1>4. PICK order \in Orders(Added(v, S)) :
        hier_adj' = [hier_adj EXCEPT ![v] = @ \o Tagged(v, order)]
  BY <1>3
<1>5. /\ v \in todo /\ todo' = todo \ {v} /\ layer' = layer /\ locked' = locked
  BY DEF Save
<1>6. /\ layer \in 0 .. MaxLayer /\ hier_adj \in [Tracked -> Seq(Entries)]
      /\ locked \in [Tracked -> SUBSET Node] /\ todo \in SUBSET Tracked
      /\ built \in [0 .. MaxLayer -> [Tracked -> SUBSET Node]]
  BY <1>2 DEF TypeOK
<1> DEFINE A == Added(v, S)
           old == hier_adj[v]
           new == Tagged(v, order)
           both == old \o new
<1>7. /\ S \in SUBSET Node /\ locked[v] \subseteq S /\ Cardinality(S) <= Degree
      /\ \A u \in S : Strays \/ Together(u, v, layer)
  BY <1>3 DEF Extensions, Eligible, InLayer
<1>8. IsFiniteSet(S) /\ IsFiniteSet(A) /\ A \in SUBSET Node
  BY <1>1, <1>7, FS_Subset DEF Added
<1>9. \A u \in S : Strays \/ Together(u, v, 0)
  BY <1>1, <1>6, <1>7, Nested
<1>10. /\ new \in Seq(Entries)
       /\ \A j \in DOMAIN new :
            new[j].id \in A /\ new[j].tag = MaxCommonLayer(new[j].id, v)
       /\ \A i, j \in DOMAIN new : new[i].id = new[j].id => i = j
       /\ \A u \in A : \E j \in DOMAIN new : new[j].id = u
  BY <1>4, <1>8, TaggedProperties
<1>11. old \in Seq(Entries)
  BY <1>6
<1>12. /\ both \in Seq(Entries) /\ Len(both) = Len(old) + Len(new)
       /\ Len(old) \in Nat /\ Len(new) \in Nat
       /\ \A j \in DOMAIN old : j \in DOMAIN both /\ both[j] = old[j]
       /\ \A j \in DOMAIN new : Len(old) + j \in DOMAIN both
                                /\ both[Len(old) + j] = new[j]
       /\ \A j \in DOMAIN both :
            j \in DOMAIN old \/ (j - Len(old) \in DOMAIN new
                                 /\ both[j] = new[j - Len(old)])
  BY <1>10, <1>11
<1>13. hier_adj' = [hier_adj EXCEPT ![v] = both]
  BY <1>4
<1> HIDE DEF new, both
<1>14. hier_adj'[v] = both /\ \A w \in Tracked : w # v => hier_adj'[w] = hier_adj[w]
  BY <1>6, <1>13
<1>15. built' \in [0 .. MaxLayer -> [Tracked -> SUBSET Node]]
       /\ built'[layer][v] = S
       /\ \A k \in 0 .. MaxLayer : \A w \in Tracked :
            (k # layer \/ w # v) => built'[k][w] = built[k][w]
  BY <1>3, <1>6, <1>7
<1>16. TypeOK'
  BY <1>5, <1>6, <1>12, <1>13, <1>15 DEF TypeOK
<1>17. todo' \subseteq InLayer(layer)'
  BY <1>2, <1>5 DEF InLayer
<1>18. \A j \in DOMAIN both :
         /\ both[j].tag = MaxCommonLayer(both[j].id, v)
         /\ Strays \/ Together(both[j].id, v, 0)
  <2>1. TAKE j \in DOMAIN both
  <2>2. CASE j \in DOMAIN old
    BY <1>2, <1>12, <2>2 DEF TagsMaximal
  <2>3. CASE j - Len(old) \in DOMAIN new /\ both[j] = new[j - Len(old)]
    BY <1>9, <1>10, <2>3 DEF Added
  <2> QED BY <1>12, <2>2, <2>3
<1>19. TagsMaximal'
  <2> SUFFICES ASSUME NEW w \in Tracked, NEW j \in DOMAIN hier_adj'[w]
               PROVE  /\ hier_adj'[w][j].tag = MaxCommonLayer(hier_adj'[w][j].id, w)
                      /\ Strays \/ Together(hier_adj'[w][j].id, w, 0)
    BY DEF TagsMaximal, MaxCommonLayer, CommonLayers, Together, InLayer
  <2>1. CASE w = v
    <3>1. hier_adj'[w] = both /\ j \in DOMAIN both
      BY <1>14, <2>1
    <3>2. /\ both[j].tag = MaxCommonLayer(both[j].id, v)
          /\ Strays \/ Together(both[j].id, v, 0)
      BY <1>18, <3>1
    <3> QED BY <2>1, <3>1, <3>2
  <2>2. CASE w # v
    BY <1>2, <1>14, <2>2 DEF TagsMaximal
  <2> QED BY <2>1, <2>2
\* The old entries that carry the layer are all seen, hence locked.
<1>20. \A j \in DOMAIN old : Carries(old[j], layer) => old[j].id \in locked[v]
  <2>1. TAKE j \in DOMAIN old
  <2>2. HAVE Carries(old[j], layer)
  <2>3. j \in Seen(old, layer)
    BY <1>2, <1>11, <2>2, SeenAll DEF Fits, Carriers
  <2> QED BY <1>2, <1>5, <2>3 DEF LockedIsView, View
<1>a. \A i \in DOMAIN old : \A j \in DOMAIN new :
        old[i].id = new[j].id => ~Carries(old[i], layer) /\ Strays
  <2>1. TAKE i \in DOMAIN old
  <2>2. TAKE j \in DOMAIN new
  <2>3. HAVE old[i].id = new[j].id
  <2>4. ~Carries(old[i], layer)
    BY <1>10, <1>20, <2>3 DEF Added
  <2>5. old[i].id \in S /\ old[i].id \in Node
    BY <1>7, <1>10, <2>3 DEF Added
  <2>6. old[i].tag = MaxCommonLayer(old[i].id, v)
    BY <1>2 DEF TagsMaximal
  <2>7. Together(old[i].id, v, layer) => Carries(old[i], layer)
    BY <1>1, <1>6, <2>5, <2>6, MaxCommonLayerProperties DEF Carries
  <2> QED BY <1>7, <2>4, <2>5, <2>7
<1>22. \A i, j \in DOMAIN both :
         /\ both[i].id = both[j].id
         /\ i # j
         => /\ Strays
            /\ \/ i \in DOMAIN old /\ j \in DOMAIN old
               \/ ~Carries(both[i], layer) \/ ~Carries(both[j], layer)
  <2>1. Strays \/ \A i, j \in DOMAIN old : old[i].id = old[j].id => i = j
    BY <1>2 DEF NoDuplicates
  <2>2. TAKE i, j \in DOMAIN both
  <2>3. HAVE both[i].id = both[j].id /\ i # j
  <2>4. CASE i \in DOMAIN old /\ j \in DOMAIN old
    BY <1>12, <2>1, <2>3, <2>4
  <2>5. CASE i \in DOMAIN old /\ j \notin DOMAIN old
    BY <1>12, <1>a, <2>3, <2>5
  <2>6. CASE i \notin DOMAIN old /\ j \in DOMAIN old
    BY <1>12, <1>a, <2>3, <2>6
  <2>7. CASE i \notin DOMAIN old /\ j \notin DOMAIN old
    <3>1. i - Len(old) \in DOMAIN new /\ both[i] = new[i - Len(old)]
      BY <1>12, <2>7
    <3>2. j - Len(old) \in DOMAIN new /\ both[j] = new[j - Len(old)]
      BY <1>12, <2>7
    <3>3. i - Len(old) = j - Len(old)
      BY <1>10, <2>3, <3>1, <3>2
    <3>4. i \in Int /\ j \in Int
      BY <1>12
    <3> QED BY <1>12, <2>3, <3>3, <3>4
  <2> QED BY <2>4, <2>5, <2>6, <2>7
<1>23. (Strays \/ NoDuplicates)'
  <2> SUFFICES ASSUME ~Strays PROVE NoDuplicates'
    OBVIOUS
  <2>1. NoDuplicates
    BY <1>2
  <2> QED BY <2>1, <1>14, <1>22 DEF NoDuplicates
<1>b. \A i, j \in Carriers(both, layer) : both[i].id = both[j].id => i = j
  <2>1. \A i, j \in Carriers(old, layer) : old[i].id = old[j].id => i = j
    BY <1>2 DEF Distinct
  <2> QED BY <2>1, <1>12, <1>22 DEF Carriers
<1>c. Distinct'
  BY <1>2, <1>5, <1>14, <1>b DEF Distinct
<1>24. LockedIsView'
  BY <1>2, <1>5, <1>6, <1>14 DEF LockedIsView
\* The entries that carry the layer now are members of S, one by one.
<1>25. \A j \in Carriers(both, layer) : both[j].id \in S
  <2>1. TAKE j \in Carriers(both, layer)
  <2>2. j \in DOMAIN both /\ Carries(both[j], layer)
    BY DEF Carriers
  <2>3. CASE j \in DOMAIN old
    BY <1>7, <1>12, <1>20, <2>2, <2>3
  <2>4. CASE j - Len(old) \in DOMAIN new /\ both[j] = new[j - Len(old)]
    BY <1>10, <2>4 DEF Added
  <2> QED BY <1>12, <2>2, <2>3, <2>4
<1>26. Cardinality(Carriers(both, layer)) <= Degree
  <2> DEFINE C == Carriers(both, layer)
             f == [j \in C |-> both[j].id]
  <2>1. f \in Injection(C, S)
    BY <1>25, <1>b DEF Injection, IsInjective
  <2> HIDE DEF f
  <2>2. Cardinality(C) <= Cardinality(S) /\ IsFiniteSet(C)
    BY <1>8, <2>1, FS_Injection
  <2>3. Cardinality(C) \in Nat /\ Cardinality(S) \in Nat
    BY <1>8, <2>2, FS_CardinalityType
  <2> QED BY <1>1, <1>7, <2>2, <2>3
<1>27. Fits'
  BY <1>2, <1>5, <1>14, <1>26 DEF Fits
<1>28. Unbuilt'
  BY <1>2, <1>5, <1>6, <1>15 DEF Unbuilt
<1>29. \A u \in S : Together(u, v, layer) => u \in View(both, layer)
  <2>1. ASSUME NEW u \in locked[v] PROVE u \in View(both, layer)
    <3>1. View(old, layer) \subseteq View(both, layer)
      BY <1>10, <1>11, ViewGrows DEF both
    <3> QED BY <1>2, <1>5, <2>1, <3>1 DEF LockedIsView
  <2>2. ASSUME NEW u \in A, Together(u, v, layer) PROVE u \in View(both, layer)
    <3>1. PICK j \in DOMAIN new : new[j].id = u
      BY <1>10, <2>2
    <3>2. both[Len(old) + j] = new[j] /\ Len(old) + j \in DOMAIN both
      BY <1>12
    <3>3. u \in Node
      BY <1>7, <2>2 DEF Added
    <3>4. new[j].tag >= layer
      BY <1>1, <1>6, <1>10, <2>2, <3>1, <3>3, MaxCommonLayerProperties
    <3>5. Len(old) + j \in Carriers(both, layer)
      BY <3>2, <3>4 DEF Carriers, Carries
    <3>6. Len(old) + j \in Seen(both, layer)
      BY <1>12, <1>26, <3>5, SeenAll
    <3> QED BY <3>1, <3>2, <3>6 DEF View
  <2> QED BY <2>1, <2>2 DEF Added
<1>30. LayerKeepsLinks'
  <2> SUFFICES ASSUME NEW k \in 0 .. layer, NEW w \in Tracked, w \in InLayer(k),
                      NEW u \in built'[k][w], Together(u, w, k)
               PROVE  u \in View(hier_adj'[w], k)
    BY <1>5 DEF LayerKeepsLinks, InLayer, Together
  <2>1. CASE w # v
    BY <1>1, <1>2, <1>6, <1>14, <1>15, <2>1 DEF LayerKeepsLinks
  <2>2. CASE w = v /\ k = layer
    BY <1>14, <1>15, <1>29, <2>2
  <2>3. CASE w = v /\ k # layer
    <3>1. View(old, k) \subseteq View(both, k)
      BY <1>10, <1>11, ViewGrows DEF both
    <3>2. built'[k][v] = built[k][v]
      BY <1>1, <1>6, <1>15, <2>3
    <3>3. u \in View(old, k)
      BY <1>2, <2>3, <3>2 DEF LayerKeepsLinks
    <3> QED BY <1>14, <2>3, <3>1, <3>3
  <2> QED BY <2>1, <2>2, <2>3
<1> QED BY <1>16, <1>17, <1>19, <1>23, <1>24, <1>27, <1>28, <1>30, <1>c DEF IInv

LEMMA NextLayerIInv ==
  ASSUME IInv, NextLayer
  PROVE  IInv'
<1>1. /\ MaxLayer \in Nat /\ Degree \in Nat \ {0} /\ Tracked \subseteq Node
  BY HierAssumption
<1>2. /\ TypeOK /\ TagsMaximal /\ LockedIsView /\ Fits /\ Distinct
      /\ Strays \/ NoDuplicates
      /\ Unbuilt /\ LayerKeepsLinks
  BY DEF IInv
<1>3. /\ layer \in 0 .. MaxLayer /\ hier_adj \in [Tracked -> Seq(Entries)]
      /\ built \in [0 .. MaxLayer -> [Tracked -> SUBSET Node]]
  BY <1>2 DEF TypeOK
<1>4. /\ layer < MaxLayer /\ layer' = layer + 1
      /\ hier_adj' = hier_adj /\ built' = built
      /\ todo' = Tracked \cap InLayer(layer + 1)
      /\ locked' = [v \in Tracked |->
                      IF v \in InLayer(layer + 1)
                      THEN View(hier_adj[v], layer + 1) ELSE {}]
  BY DEF NextLayer, Following
<1>5. layer + 1 \in 0 .. MaxLayer
  BY <1>1, <1>3, <1>4
<1>6. \A v \in Tracked : \A k : View(hier_adj[v], k) \in SUBSET Node
  <2>1. TAKE v \in Tracked
  <2>2. \A j \in DOMAIN hier_adj[v] : hier_adj[v][j].id \in Node
    <3>1. \A j \in DOMAIN hier_adj[v] : hier_adj[v][j] \in Entries
      BY <1>3
    <3> QED BY <3>1 DEF Entries
  <2> QED BY <2>2 DEF View, Seen
<1>7. TypeOK'
  <2>1. locked' \in [Tracked -> SUBSET Node]
    BY <1>4, <1>6
  <2> QED BY <1>3, <1>4, <1>5, <2>1 DEF TypeOK
<1>8. todo' \subseteq InLayer(layer)'
  BY <1>4 DEF InLayer
<1>9. TagsMaximal' /\ (Strays \/ NoDuplicates)'
  BY <1>2, <1>4 DEF TagsMaximal, NoDuplicates
<1>10. LockedIsView'
  BY <1>4 DEF LockedIsView
<1>a. \A v \in Tracked :
        Carriers(hier_adj[v], layer + 1) \in SUBSET Carriers(hier_adj[v], layer)
  <2>1. TAKE v \in Tracked
  <2>2. \A j \in DOMAIN hier_adj[v] : hier_adj[v][j] \in Entries
    BY <1>3
  <2>3. \A j \in DOMAIN hier_adj[v] : hier_adj[v][j].tag \in 0 .. MaxLayer
    BY <2>2 DEF Entries
  <2> QED BY <1>1, <1>3, <2>3 DEF Carriers, Carries
<1>b. Distinct'
  BY <1>2, <1>4, <1>a DEF Distinct
<1>11. Fits'
  <2> SUFFICES ASSUME NEW v \in Tracked
               PROVE  Cardinality(Carriers(hier_adj[v], layer + 1)) <= Degree
    BY <1>4 DEF Fits
  <2>1. hier_adj[v] \in Seq(Entries)
    BY <1>3
  <2>3. /\ Cardinality(Carriers(hier_adj[v], layer + 1))
             <= Cardinality(Carriers(hier_adj[v], layer))
        /\ Cardinality(Carriers(hier_adj[v], layer + 1)) \in Nat
        /\ Cardinality(Carriers(hier_adj[v], layer)) \in Nat
    BY <1>a, <2>1, CarriersFinite, FS_Subset, FS_CardinalityType
  <2>4. Cardinality(Carriers(hier_adj[v], layer)) <= Degree
    BY <1>2 DEF Fits
  <2> QED BY <1>1, <2>3, <2>4
<1>12. Unbuilt'
  BY <1>1, <1>2, <1>3, <1>4 DEF Unbuilt
<1>13. LayerKeepsLinks'
  <2> SUFFICES ASSUME NEW k \in 0 .. layer + 1, NEW v \in Tracked, v \in InLayer(k),
                      NEW u \in built[k][v], Together(u, v, k)
               PROVE  u \in View(hier_adj[v], k)
    BY <1>4 DEF LayerKeepsLinks, InLayer, Together
  <2>1. CASE k \in 0 .. layer
    BY <1>2, <2>1 DEF LayerKeepsLinks
  <2>2. CASE k = layer + 1
    BY <1>2, <1>3, <1>5, <2>2 DEF Unbuilt
  <2> QED BY <1>3, <2>1, <2>2
<1> QED BY <1>7, <1>8, <1>9, <1>10, <1>11, <1>12, <1>13, <1>b DEF IInv

LEMMA NextIInv == IInv /\ [Next]_vars => IInv'
<1> SUFFICES ASSUME IInv, [Next]_vars PROVE IInv'
  OBVIOUS
<1>1. CASE \E v \in Tracked : Save(v)
  BY <1>1, SaveIInv
<1>2. CASE NextLayer
  BY <1>2, NextLayerIInv
<1>3. CASE Terminated \/ UNCHANGED vars
  <2>1. UNCHANGED vars
    BY <1>3 DEF Terminated
  <2> QED BY <2>1 DEF vars, IInv, TypeOK, TagsMaximal, NoDuplicates, LockedIsView,
                      Distinct, Fits, Unbuilt, LayerKeepsLinks, InLayer, Together
<1> QED BY <1>1, <1>2, <1>3 DEF Next

-----------------------------------------------------------------------------
(* The types of the variables.                                             *)
THEOREM TypeCorrect == Spec => []TypeOK
<1>1. IInv => TypeOK
  BY DEF IInv
<1> QED BY InitIInv, NextIInv, <1>1, PTL DEF Spec

(* Whatever the layers choose to add, no view of a layer leaves the        *)
(* component: build_one_layer_comp never indexes with a vertex that is     *)
(* outside the layer, and Retrieve never reaches one.                      *)
THEOREM ViewInComponentCorrect == Spec => []ViewInComponent
<1>1. IInv => ViewInComponent
  <2> SUFFICES ASSUME IInv, NEW v \in Tracked, NEW k \in 0 .. Core[v],
                      NEW u \in View(hier_adj[v], k)
               PROVE  Together(u, v, k) \/ (Strays /\ k = 0)
    BY DEF ViewInComponent
  <2>1. TypeOK /\ TagsMaximal /\ v \in Node /\ MaxLayer \in Nat
        /\ Core[v] \in 0 .. MaxLayer
    BY HierAssumption DEF IInv
  <2>2. PICK j \in DOMAIN hier_adj[v] :
          hier_adj[v][j].id = u /\ Carries(hier_adj[v][j], k)
    BY DEF View, Seen
  <2>3. hier_adj[v][j] \in Entries
    BY <2>1, <2>2 DEF TypeOK
  <2>4. /\ u \in Node
        /\ Strays \/ Together(u, v, 0)
        /\ hier_adj[v][j].tag = MaxCommonLayer(u, v)
    BY <2>1, <2>2, <2>3 DEF TagsMaximal, Entries
  <2>5. /\ MaxCommonLayer(u, v) \in 0 .. MaxLayer
        /\ MaxCommonLayer(u, v) = 0 \/ Together(u, v, MaxCommonLayer(u, v))
    BY <2>1, <2>4, MaxCommonLayerProperties
  <2>6. k \in 0 .. MaxCommonLayer(u, v)
    BY <2>1, <2>2, <2>4, <2>5 DEF Carries
  <2>7. CASE k = 0
    BY <2>4, <2>7
  <2>8. CASE k # 0
    <3>1. Together(u, v, MaxCommonLayer(u, v))
      BY <2>5, <2>6, <2>8
    <3> QED BY <2>1, <2>4, <2>5, <2>6, <3>1, Nested
  <2> QED BY <2>7, <2>8
<1> QED BY InitIInv, NextIInv, <1>1, PTL DEF Spec

(* No vertex is appended to a list twice, unless links stray.              *)
THEOREM NoDuplicatesCorrect == ~Strays => (Spec => []NoDuplicates)
<1> SUFFICES ASSUME ~Strays PROVE Spec => []NoDuplicates
  OBVIOUS
<1>1. IInv => NoDuplicates
  BY DEF IInv
<1> QED BY InitIInv, NextIInv, <1>1, PTL DEF Spec

(* Even if they do, each layer starts from distinct neighbours, all that   *)
(* carry it.                                                               *)
THEOREM NoneSeenTwiceCorrect == Spec => []NoneSeenTwice
<1>1. IInv => NoneSeenTwice
  <2> SUFFICES ASSUME IInv, NEW v \in Tracked,
                      NEW i \in DOMAIN hier_adj[v], NEW j \in DOMAIN hier_adj[v],
                      Carries(hier_adj[v][i], layer), Carries(hier_adj[v][j], layer)
               PROVE  /\ i \in Seen(hier_adj[v], layer)
                      /\ hier_adj[v][i].id = hier_adj[v][j].id => i = j
    BY DEF NoneSeenTwice
  <2>1. TypeOK /\ Fits /\ Distinct
    BY DEF IInv
  <2>2. {i, j} \subseteq Carriers(hier_adj[v], layer)
    BY DEF Carriers
  <2>3. Seen(hier_adj[v], layer) = Carriers(hier_adj[v], layer)
    BY <2>1, SeenAll DEF TypeOK, Fits
  <2> QED BY <2>1, <2>2, <2>3 DEF Distinct
<1> QED BY InitIInv, NextIInv, <1>1, PTL DEF Spec

(* Sharing one list between all layers costs no layer a link: what the     *)
(* higher layers append is never in the way of what a layer was built with.*)
THEOREM LayerKeepsLinksCorrect == Spec => []LayerKeepsLinks
<1>1. IInv => LayerKeepsLinks
  BY DEF IInv
<1> QED BY InitIInv, NextIInv, <1>1, PTL DEF Spec

-----------------------------------------------------------------------------
(* MinOf and MaxOf give the least and the greatest element.                *)
LEMMA MinOfLeast ==
  ASSUME NEW S \in SUBSET Nat, S # {}
  PROVE  MinOf(S) \in S /\ \A n \in S : MinOf(S) <= n
<1>1. \E m \in S : \A n \in S : m <= n
  BY LeastElement
<1> QED BY <1>1 DEF MinOf

LEMMA MaxOfGreatest ==
  ASSUME NEW S \in SUBSET Nat, S # {}, IsFiniteSet(S)
  PROVE  MaxOf(S) \in S /\ \A n \in S : n <= MaxOf(S)
<1>1. \E m \in S : \A n \in S : m >= n
  <2>1. PICK m \in S : \A n \in S : n <= m
    BY FiniteHasGreatest
  <2> QED BY <2>1
<1> QED BY <1>1 DEF MaxOf

(* The highest common layer is within both coreness values, and no         *)
(* greater than any layer that both are together in, except 0.             *)
LEMMA HighestBounds ==
  ASSUME NEW core, NEW compo, NEW a, NEW b, core[a] \in Nat, core[b] \in Nat
  PROVE  /\ Highest(core, compo, a, b) \in Nat
         /\ Highest(core, compo, a, b) <= core[a]
         /\ Highest(core, compo, a, b) <= core[b]
<1> DEFINE least == MinOf({core[a], core[b]})
           S == {0} \cup {k \in 0 .. least : compo[a][k] = compo[b][k]}
<1>1. least \in Nat /\ least <= core[a] /\ least <= core[b]
  BY MinOfLeast
<1>2. S \in SUBSET (0 .. least) /\ S # {}
  <2> HIDE DEF least
  <2> QED BY <1>1
<1>3. IsFiniteSet(S)
  <2> HIDE DEF least, S
  <2>1. IsFiniteSet(0 .. least)
    BY <1>1, FS_Interval
  <2> QED BY <1>2, <2>1, FS_Subset
<1>4. MaxOf(S) \in S
  <2> HIDE DEF S
  <2>1. S \in SUBSET Nat
    BY <1>2
  <2> QED BY <1>2, <1>3, <2>1, MaxOfGreatest
<1>5. Highest(core, compo, a, b) = MaxOf(S)
  BY DEF Highest
<1>6. PICK m \in 0 .. least : Highest(core, compo, a, b) = m
  <2> HIDE DEF S, least
  <2> QED BY <1>2, <1>4, <1>5
<1> HIDE DEF least
<1> QED BY <1>1, <1>6

LEMMA HighestSame ==
  ASSUME NEW core, NEW compo, NEW core_2, NEW compo_2, NEW a, NEW b,
         core_2[a] = core[a], core_2[b] = core[b],
         compo_2[a] = compo[a], compo_2[b] = compo[b]
  PROVE  Highest(core_2, compo_2, a, b) = Highest(core, compo, a, b)
BY DEF Highest

(* In a finite set whose elements have different values there is one of    *)
(* every rank.                                                             *)
Rank(S, f, a) == Cardinality({b \in S : f[b] <= f[a]})

LEMMA RankTaken ==
  ASSUME NEW S, IsFiniteSet(S), NEW f \in [S -> Nat],
         \A x, y \in S : f[x] = f[y] => x = y
  PROVE  \A i \in 1 .. Cardinality(S) :
           \E a \in S : Rank(S, f, a) = i
<1> DEFINE Upto(a) == {b \in S : f[b] <= f[a]}
<1> DEFINE n == Cardinality(S)
<1> DEFINE g == [a \in S |-> Cardinality(Upto(a))]
<1>1. n \in Nat
  BY FS_CardinalityType
<1>2. \A a \in S : IsFiniteSet(Upto(a)) /\ Cardinality(Upto(a)) \in 1 .. n
  <2> TAKE a \in S
  <2>1. Upto(a) \in SUBSET S /\ a \in Upto(a)
    OBVIOUS
  <2> HIDE DEF Upto
  <2>2. IsFiniteSet(Upto(a)) /\ Cardinality(Upto(a)) <= n
    BY <2>1, FS_Subset
  <2>3. Cardinality(Upto(a)) \in Nat /\ Cardinality(Upto(a)) # 0
    BY <2>1, <2>2, FS_CardinalityType, FS_EmptySet
  <2> QED BY <1>1, <2>2, <2>3
<1>3. \A a, b \in S : f[a] < f[b] => Cardinality(Upto(a)) < Cardinality(Upto(b))
  <2> SUFFICES ASSUME NEW a \in S, NEW b \in S, f[a] < f[b]
               PROVE  Cardinality(Upto(a)) < Cardinality(Upto(b))
    OBVIOUS
  <2>1. Upto(a) \in SUBSET Upto(b) /\ b \in Upto(b) /\ b \notin Upto(a)
    OBVIOUS
  <2>2. IsFiniteSet(Upto(b)) /\ IsFiniteSet(Upto(a))
    BY <1>2
  <2> HIDE DEF Upto
  <2>3. Cardinality(Upto(a)) <= Cardinality(Upto(b)) /\ Upto(a) # Upto(b)
    BY <2>1, <2>2, FS_Subset
  <2>4. Cardinality(Upto(a)) # Cardinality(Upto(b))
    BY <2>1, <2>2, <2>3, FS_Subset
  <2>5. Cardinality(Upto(a)) \in Nat /\ Cardinality(Upto(b)) \in Nat
    BY <2>2, FS_CardinalityType
  <2> QED BY <2>3, <2>4, <2>5
<1>4. g \in Injection(S, 1 .. n)
  <2>1. g \in [S -> 1 .. n]
    <3> HIDE DEF Upto, n
    <3> QED BY <1>2
  <2>2. ASSUME NEW a \in S, NEW b \in S, g[a] = g[b] PROVE a = b
    <3>1. Cardinality(Upto(a)) = Cardinality(Upto(b))
      BY <2>2
    <3>2. Cardinality(Upto(a)) \in Nat /\ Cardinality(Upto(b)) \in Nat
      BY <1>1, <1>2
    <3> HIDE DEF Upto
    <3>3. ~(f[a] < f[b]) /\ ~(f[b] < f[a])
      BY <1>3, <3>1, <3>2
    <3>4. f[a] = f[b]
      BY <3>3
    <3> QED BY <3>4
  <2> HIDE DEF g
  <2> QED BY <2>1, <2>2 DEF Injection, IsInjective
<1>5. g \in Surjection(S, 1 .. n)
  <2> HIDE DEF g
  <2>1. IsFiniteSet(1 .. n) /\ Cardinality(1 .. n) = n
    BY <1>1, FS_Interval
  <2> QED BY <1>4, <2>1, FS_Injection
<1>6. \A i \in 1 .. n : \E a \in S : g[a] = i
  <2> HIDE DEF g
  <2> QED BY <1>5 DEF Surjection
<1>7. ASSUME NEW i \in 1 .. n PROVE \E a \in S : Cardinality(Upto(a)) = i
  <2> HIDE DEF n, Upto
  <2>1. PICK a \in S : g[a] = i
    BY <1>6
  <2> QED BY <2>1
<1> QED BY <1>7 DEF Rank

(* What the distances in the heap of Robust_Prune_Add are.                 *)
Distances ==
  {d \in [Vertex -> Nat] : \A a, b \in Vertex : d[a] = d[b] => a = b}

LEMMA InDistances ==
  ASSUME NEW u \in Vertex
  PROVE  /\ Cal_Dist[u] \in Distances
         /\ \A v \in Vertex : Offered(u, v) \in Distances
<1>1. /\ Cal_Dist[u] \in [Vertex -> Nat]
      /\ \A a, b \in Vertex : Cal_Dist[u][a] = Cal_Dist[u][b] => a = b
      /\ \A a, b \in Vertex : Cal_Dist[u][a] = Cal_Dist[b][u] => a = b
      /\ \A v \in Vertex : Cal_Dist[v][u] \in Nat
  BY DynamicAssumption DEF DistAssumption
<1>2. Cal_Dist[u] \in Distances
  BY <1>1 DEF Distances
<1>3. ASSUME NEW v \in Vertex PROVE Offered(u, v) \in Distances
  <2>1. PICK d : d = Offered(u, v)
    OBVIOUS
  <2>2. /\ d \in [Vertex -> Nat] /\ d[v] = Cal_Dist[v][u]
        /\ \A a \in Vertex \ {v} : d[a] = Cal_Dist[u][a]
    BY <1>1, <2>1 DEF Offered
  <2>3. ASSUME NEW a \in Vertex, NEW b \in Vertex, d[a] = d[b], a # b PROVE FALSE
    <3>1. CASE a = v
      BY <1>1, <2>2, <2>3, <3>1
    <3>2. CASE b = v
      <4>1. d[a] = Cal_Dist[u][a] /\ d[b] = Cal_Dist[v][u]
        BY <2>2, <2>3, <3>2
      <4> QED BY <1>1, <2>3, <3>2, <4>1
    <3>3. CASE a # v /\ b # v
      BY <1>1, <2>2, <2>3, <3>3
    <3> QED BY <3>1, <3>2, <3>3
  <2> QED BY <2>1, <2>2, <2>3 DEF Distances
<1> QED BY <1>2, <1>3

(* Near lists vertices of the set it is given, and of no other.            *)
LEMMA NearLists ==
  ASSUME NEW d \in Distances, NEW S \in SUBSET Vertex
  PROVE  Near(d, S) \in Seq(S)
<1> DEFINE f == [a \in S |-> d[a]]
<1> DEFINE n == Cardinality(S)
<1> DEFINE Place(a) == Cardinality({b \in S : d[b] <= d[a]})
<1>1. IsFiniteSet(S) /\ n \in Nat
  BY DynamicAssumption, FS_Subset, FS_CardinalityType
<1>2. f \in [S -> Nat] /\ \A x, y \in S : f[x] = f[y] => x = y
  <2>1. \A a \in S : d[a] \in Nat
    BY DEF Distances
  <2>2. \A x, y \in S : d[x] = d[y] => x = y
    BY DEF Distances
  <2> QED BY <2>1, <2>2
<1>3. \A i \in 1 .. n : \E a \in S : Place(a) = i
  <2>1. \A a \in S : {b \in S : d[b] <= d[a]} = {b \in S : f[b] <= f[a]}
    OBVIOUS
  <2>2. \A i \in 1 .. n : \E a \in S : Rank(S, f, a) = i
    <3> HIDE DEF f
    <3> QED BY <1>1, <1>2, RankTaken
  <2>3. ASSUME NEW i \in 1 .. n PROVE \E a \in S : Place(a) = i
    <3>1. PICK a \in S : Rank(S, f, a) = i
      BY <2>2
    <3>2. Place(a) = i
      <4> HIDE DEF f
      <4> QED BY <2>1, <3>1 DEF Rank
    <3> HIDE DEF Place
    <3> QED BY <3>2
  <2> HIDE DEF Place, n
  <2> QED BY <2>3
<1>4. \A i \in 1 .. n : (CHOOSE a \in S : Place(a) = i) \in S
  <2> HIDE DEF Place, n
  <2> QED BY <1>3
<1> DEFINE Nth(i) == CHOOSE a \in S : Place(a) = i
<1>5. Near(d, S) = [i \in 1 .. n |-> Nth(i)]
  BY DEF Near
<1>6. Near(d, S) \in [1 .. n -> S]
  <2>1. \A i \in 1 .. n : Nth(i) \in S
    BY <1>4
  <2> HIDE DEF Nth, n
  <2> QED BY <1>5, <2>1
<1> HIDE DEF n
<1> QED BY <1>1, <1>6

(* Listed gives ids of the list.                                           *)
LEMMA ListedAmong ==
  ASSUME NEW V, NEW E, NEW list \in Seq(E), NEW places \in SUBSET DOMAIN list,
         \A j \in places : list[j].id \in V
  PROVE  Listed(list, places) \in Seq(V)
<1> DEFINE f == [j \in places |-> j]
<1> DEFINE n == Cardinality(places)
<1> DEFINE Nth(i) == CHOOSE j \in places : Cardinality({m \in places : m <= j}) = i
<1>1. DOMAIN list = 1 .. Len(list) /\ Len(list) \in Nat
  OBVIOUS
<1>2. IsFiniteSet(places) /\ n \in Nat /\ places \in SUBSET Nat
  <2>1. IsFiniteSet(1 .. Len(list))
    BY <1>1, FS_Interval
  <2> QED BY <1>1, <2>1, FS_Subset, FS_CardinalityType
<1>3. \A i \in 1 .. n : \E j \in places : Cardinality({m \in places : m <= j}) = i
  <2>1. f \in [places -> Nat] /\ \A x, y \in places : f[x] = f[y] => x = y
    BY <1>2
  <2>2. \A j \in places : {m \in places : f[m] <= f[j]} = {m \in places : m <= j}
    OBVIOUS
  <2>3. \A i \in 1 .. n : \E j \in places : Rank(places, f, j) = i
    <3> HIDE DEF f
    <3> QED BY <1>2, <2>1, RankTaken
  <2>4. ASSUME NEW i \in 1 .. n
        PROVE  \E j \in places : Cardinality({m \in places : m <= j}) = i
    <3>1. PICK j \in places : Rank(places, f, j) = i
      BY <2>3
    <3>2. Cardinality({m \in places : m <= j}) = i
      <4> HIDE DEF f
      <4> QED BY <2>2, <3>1 DEF Rank
    <3> QED BY <3>2
  <2> HIDE DEF n, f
  <2> QED BY <2>4
<1>4. \A i \in 1 .. n : Nth(i) \in places
  <2> HIDE DEF n
  <2> QED BY <1>3
<1>5. \A j \in places : list[j].id \in V
  OBVIOUS
<1>6. Listed(list, places) = [i \in 1 .. n |-> list[Nth(i)].id]
  BY DEF Listed
<1>7. Listed(list, places) \in [1 .. n -> V]
  <2> HIDE DEF n, Nth
  <2> QED BY <1>4, <1>5, <1>6
<1> HIDE DEF n
<1> QED BY <1>2, <1>7

LEMMA ListedIds ==
  ASSUME NEW V, NEW T, NEW list \in Seq([tag : T, id : V]), NEW places \in SUBSET DOMAIN list
  PROVE  Listed(list, places) \in Seq(V)
<1> DEFINE E == [tag : T, id : V]
<1>1. list \in Seq(E)
  OBVIOUS
<1>2. \A j \in places : list[j] \in E
  <2> HIDE DEF E
  <2> QED BY <1>1
<1>3. \A j \in places : list[j].id \in V
  BY <1>2
<1> HIDE DEF E
<1> QED BY <1>1, <1>3, ListedAmong

-----------------------------------------------------------------------------
(* The search stays among the vertices that the lists and the entry        *)
(* vertices lead to.                                                       *)
Searching(V) == [vis : SUBSET V, expand : SUBSET V, result : SUBSET V, cand : SUBSET V]

LEMMA MeetStays ==
  ASSUME NEW V \in SUBSET Vertex, NEW q \in Vertex, NEW S \in Searching(V), NEW w \in V
  PROVE  Meet(q, S, w) \in Searching(V)
<1>1. Closest(Cal_Dist[q], S.result \cup {w}, QueueLen) \in SUBSET V
  BY DEF Closest, Searching
<1> QED BY <1>1 DEF Meet, Searching

LEMMA MetStays ==
  ASSUME NEW V \in SUBSET Vertex, NEW q \in Vertex, NEW A \in Searching(V), NEW list \in Seq(V)
  PROVE  LET met[n \in 0 .. Len(list)] ==
               IF n = 0 THEN A ELSE LET T == met[n - 1] IN Meet(q, T, list[n])
         IN  met[Len(list)] \in Searching(V)
<1> DEFINE K == Len(list)
<1> DEFINE P == Searching(V)
<1> DEFINE Rounds(w) == w = [n \in 0 .. K |-> IF n = 0 THEN A ELSE Meet(q, w[n - 1], list[n])]
<1> DEFINE F == [z \in (1 .. K) \X P |-> Meet(q, z[2], list[z[1]])]
<1>1. K \in Nat /\ \A n \in 1 .. K : list[n] \in V
  OBVIOUS
<1>2. \A n \in 1 .. K : \A S \in P : F[<<n, S>>] = Meet(q, S, list[n]) /\ Meet(q, S, list[n]) \in P
  <2> TAKE n \in 1 .. K
  <2> TAKE S \in P
  <2>1. Meet(q, S, list[n]) \in P
    BY <1>1, MeetStays
  <2>2. <<n, S>> \in (1 .. K) \X P
    OBVIOUS
  <2> HIDE DEF P, K
  <2> QED BY <2>1, <2>2
<1>3. PICK w : Stepwise(K, P, A, F, w)
  <2> HIDE DEF P, K, F
  <2>1. A \in P
    BY DEF P
  <2>2. \A n \in 1 .. K : \A S \in P : F[<<n, S>>] \in P
    BY <1>2
  <2>3. K \in Nat
    BY <1>1
  <2> QED BY <2>1, <2>2, <2>3, StepsExist
<1>4. Rounds(w)
  <2> HIDE DEF P, K, F
  <2>1. w = [n \in 0 .. K |-> w[n]]
    BY <1>3 DEF Stepwise
  <2>2. ASSUME NEW n \in 0 .. K
        PROVE  w[n] = IF n = 0 THEN A ELSE Meet(q, w[n - 1], list[n])
    <3>1. CASE n = 0
      BY <1>3, <3>1 DEF Stepwise
    <3>2. CASE n # 0
      <4>1. n \in 1 .. K /\ n - 1 \in 0 .. K
        BY <1>1, <3>2
      <4>2. w[n] = F[<<n, w[n - 1]>>] /\ w[n - 1] \in P
        BY <1>3, <4>1 DEF Stepwise
      <4> QED BY <1>2, <3>2, <4>1, <4>2
    <3> QED BY <3>1, <3>2
  <2> QED BY <2>1, <2>2
<1> DEFINE r == CHOOSE x : Rounds(x)
<1>5. Rounds(r)
  <2> HIDE DEF Rounds
  <2> QED BY <1>4
<1>6. r[K] \in P
  <2> DEFINE Bad == {n \in 0 .. K : r[n] \notin P}
  <2> HIDE DEF r
  <2>1. CASE Bad # {}
    <3>1. PICK n \in Bad : \A m \in Bad : n <= m
      <4>1. Bad \in SUBSET Nat
        BY <1>1
      <4> HIDE DEF Bad
      <4> QED BY <2>1, <4>1, LeastElement
    <3>2. r[n] = IF n = 0 THEN A ELSE Meet(q, r[n - 1], list[n])
      <4> HIDE DEF P, K
      <4> QED BY <1>5
    <3> HIDE DEF P, K
    <3>3. n # 0
      BY <3>2 DEF P
    <3>4. n - 1 \in 0 .. K /\ ~(n <= n - 1) /\ n \in 1 .. K
      BY <1>1, <3>3
    <3>5. r[n - 1] \in P
      BY <3>1, <3>4
    <3> QED BY <1>2, <3>2, <3>3, <3>4, <3>5
  <2>2. CASE Bad = {}
    <3> HIDE DEF P, K
    <3> QED BY <1>1, <2>2
  <2> QED BY <2>1, <2>2
<1> QED BY <1>6

-----------------------------------------------------------------------------
(* The inductive invariant of the insertions: beside the properties, that  *)
(* ids still to be added are not indexed, that neighbours and links are,   *)
(* and that the truss model knows no vertex of coreness 1.                 *)
Fitting ==
  /\ input \in Inputs /\ input.valid \subseteq valid_nodes /\ valid_nodes \subseteq Vertex
  /\ core_list \in [Vertex -> Layer] /\ DOMAIN compo_l = Vertex
  /\ input.model = "truss" => \A v \in valid_nodes : core_list[v] # 1
  /\ \A v \in valid_nodes : DOMAIN compo_l[v] = 0 .. core_list[v]
  /\ \A v \in valid_nodes : \A k \in 0 .. core_list[v] :
       compo_l[v][k] \in DOMAIN input.sp_l_list[k]
  /\ cur_graph_ori_adj \in [Vertex -> SUBSET Vertex]
  /\ \A v \in valid_nodes : cur_graph_ori_adj[v] \subseteq valid_nodes \ {v}

Linked ==
  /\ hier_adj \in [Vertex -> Seq([tag : Layer, id : valid_nodes])]
  /\ \A v \in Vertex : v \notin valid_nodes => hier_adj[v] = <<>>

Underway ==
  /\ pc \in {"register", "search", "link", "end", "thrown"}
  /\ next \in 1 .. Len(input.add) + 1
  /\ \A i \in DOMAIN input.add :
       i > next \/ (i = next /\ pc = "register") => input.add[i] \notin valid_nodes
  /\ add_neighbors \in Seq(valid_nodes) /\ index \in 1 .. Len(add_neighbors) + 1
  /\ layer \in Layer
  /\ pc \in {"search", "link"} =>
       next <= Len(input.add) /\ cur \in valid_nodes /\ layer <= core_list[cur]

AddInv == Fitting /\ Linked /\ Underway /\ TagsCommon /\ HomeIsNeighbours

LEMMA LoadedLayers ==
  ASSUME NEW in \in Inputs
  PROVE  \E top \in Nat : /\ LayersOf(in) = 0 .. top /\ 1 <= top
                          /\ in.model = "truss" => 2 <= top
<1>1. InputOK(in) /\ Vertex \subseteq Nat
  BY DynamicAssumption
<1>2. PICK top \in Vertex : /\ top >= (IF in.model = "core" THEN 1 ELSE 2)
                            /\ LayersOf(in) = 0 .. top
  BY <1>1 DEF InputOK
<1>3. top \in Nat /\ top >= 1
  BY <1>1, <1>2
<1>4. in.model = "truss" => top >= 2
  BY <1>2
<1> QED BY <1>2, <1>3, <1>4

(* One of a set of vertices has all others below it.                       *)
LEMMA Highmost ==
  ASSUME Fitting, NEW near \in SUBSET valid_nodes, near # {}
  PROVE  /\ IsFiniteSet(near) /\ Cardinality(near) \in Nat
         /\ \A p \in near : Below(near, p) \in Nat /\ Below(near, p) <= Cardinality(near) - 1
         /\ \E o \in near : Below(near, o) = Cardinality(near) - 1
<1>1. near \in SUBSET Nat /\ IsFiniteSet(near) /\ Cardinality(near) \in Nat
  <2>1. near \in SUBSET Vertex
    BY DEF Fitting
  <2> QED BY <2>1, DynamicAssumption, FS_Subset, FS_CardinalityType
<1>2. \A p \in near : core_list[p] \in Nat
  <2>1. PICK top \in Nat : Layer = 0 .. top
    BY LoadedLayers DEF Fitting, Layer
  <2> QED BY <2>1 DEF Fitting
<1> DEFINE Under(p) == {o \in near : \/ core_list[o] < core_list[p]
                                     \/ core_list[o] = core_list[p] /\ o < p}
<1>3. \A p \in near : Cardinality(near \ {p}) = Cardinality(near) - 1 /\ IsFiniteSet(near \ {p})
  BY <1>1, FS_RemoveElement
<1>4. ASSUME NEW p \in near
      PROVE  Below(near, p) \in Nat /\ Below(near, p) <= Cardinality(near) - 1
  <2>1. Under(p) \in SUBSET (near \ {p})
    BY <1>1, <1>2
  <2>2. Below(near, p) = Cardinality(Under(p))
    BY DEF Below
  <2> HIDE DEF Under
  <2>3. IsFiniteSet(Under(p)) /\ Cardinality(Under(p)) <= Cardinality(near \ {p})
    BY <1>3, <2>1, FS_Subset
  <2> QED BY <1>3, <2>2, <2>3, FS_CardinalityType
<1>5. \E o \in near : Below(near, o) = Cardinality(near) - 1
  <2> DEFINE f == [p \in near |-> core_list[p]]
             C == {f[p] : p \in near}
  <2>1. \A p \in near : f[p] = core_list[p]
    OBVIOUS
  <2>2. C \in SUBSET Nat /\ C # {}
    <3> HIDE DEF f
    <3> QED BY <1>2, <2>1
  <2>3. IsFiniteSet(C)
    <3> HIDE DEF f
    <3> QED BY <1>1, FiniteImage
  <2>4. PICK m \in C : \A n \in C : n <= m
    <3> HIDE DEF C
    <3> QED BY <2>2, <2>3, FiniteHasGreatest
  <2> DEFINE T == {p \in near : core_list[p] = m}
  <2>5. T \in SUBSET Nat /\ T # {} /\ IsFiniteSet(T)
    <3>1. T \in SUBSET near
      OBVIOUS
    <3>2. T # {}
      <4> HIDE DEF f
      <4> QED BY <2>1, <2>4
    <3> HIDE DEF T
    <3> QED BY <1>1, <3>1, <3>2, FS_Subset
  <2>6. PICK o \in T : \A n \in T : n <= o
    <3> HIDE DEF T
    <3> QED BY <2>5, FiniteHasGreatest
  <2>7. \A p \in near : core_list[p] <= m
    <3> HIDE DEF f
    <3> QED BY <2>1, <2>4
  <2>8. Under(o) = near \ {o}
    <3>1. o \in near /\ core_list[o] = m
      BY <2>6
    <3>2. \A p \in near : p # o => p \in Under(o)
      <4> TAKE p \in near
      <4> HAVE p # o
      <4>1. core_list[p] <= m /\ core_list[p] \in Nat /\ m \in Nat
        BY <1>2, <2>7, <3>1
      <4>2. CASE core_list[p] = m
        <5>1. p <= o
          BY <2>6, <4>2
        <5> QED BY <1>1, <3>1, <4>2, <5>1
      <4>3. CASE core_list[p] < m
        BY <3>1, <4>3
      <4> QED BY <4>1, <4>2, <4>3
    <3>3. o \notin Under(o)
      BY <1>1, <1>2, <3>1
    <3> HIDE DEF T
    <3> QED BY <3>1, <3>2, <3>3
  <2>9. o \in near
    OBVIOUS
  <2> QED BY <1>3, <2>8, <2>9 DEF Below
<1> QED BY <1>1, <1>4, <1>5

(* The coreness estimated for the core model.                              *)
LEMMA AppCoreFits ==
  ASSUME Fitting, NEW near \in SUBSET valid_nodes
  PROVE  /\ AppCore(near) \in Layer
         /\ (\E p \in near : core_list[p] > 0) => \E p \in near : AppCore(near) <= core_list[p]
<1>1. PICK top \in Nat : Layer = 0 .. top /\ 1 <= top
  BY LoadedLayers DEF Fitting, Layer
<1>2. CASE near = {}
  <2>1. AppCore(near) = 0
    BY <1>2 DEF AppCore
  <2> QED BY <1>1, <1>2, <2>1
<1>3. CASE near # {}
  <2> DEFINE counted == {p \in near : \A o \in near :
                           Below(near, o) >= Below(near, p) => core_list[o] > Below(near, o)}
             c == Cardinality(counted)
  <2>1. AppCore(near) = MaxOf({c, 1})
    BY <1>3 DEF AppCore
  <2>2. /\ IsFiniteSet(near) /\ Cardinality(near) \in Nat
        /\ \A p \in near : Below(near, p) \in Nat /\ Below(near, p) <= Cardinality(near) - 1
    BY <1>3, Highmost
  <2>3. PICK o \in near : Below(near, o) = Cardinality(near) - 1
    BY <1>3, Highmost
  <2>4. c \in Nat /\ c <= Cardinality(near) /\ (counted = {} => c = 0)
    <3>1. counted \in SUBSET near
      OBVIOUS
    <3> HIDE DEF counted
    <3> QED BY <2>2, <3>1, FS_Subset, FS_CardinalityType, FS_EmptySet
  <2>5. MaxOf({c, 1}) \in {c, 1} /\ c <= MaxOf({c, 1}) /\ 1 <= MaxOf({c, 1})
    <3> HIDE DEF c
    <3>1. {c, 1} \in SUBSET Nat /\ {c, 1} # {}
      BY <2>4
    <3>2. IsFiniteSet({c} \cup {1}) /\ {c} \cup {1} = {c, 1}
      BY FS_Singleton, FS_AddElement
    <3> QED BY <3>1, <3>2, MaxOfGreatest
  <2>6. \A p \in near : core_list[p] \in 0 .. top
    BY <1>1 DEF Fitting
  <2>7. CASE counted = {}
    <3>1. AppCore(near) = 1
      <4> HIDE DEF c, counted
      <4> QED BY <2>1, <2>4, <2>5, <2>7
    <3> QED BY <1>1, <2>6, <3>1
  <2>8. CASE counted # {}
    <3>1. core_list[o] > Cardinality(near) - 1
      <4>1. PICK p \in counted : TRUE
        BY <2>8
      <4>2. Below(near, o) >= Below(near, p)
        BY <2>2, <2>3, <4>1
      <4> QED BY <2>3, <4>1, <4>2
    <3>2. c # 0
      <4>1. counted \in SUBSET near
        OBVIOUS
      <4> HIDE DEF counted
      <4> QED BY <2>2, <2>8, <4>1, FS_Subset, FS_EmptySet
    <3>3. AppCore(near) = c
      <4> HIDE DEF c
      <4> QED BY <2>1, <2>4, <2>5, <3>2
    <3>4. c <= core_list[o] /\ core_list[o] \in 0 .. top
      <4> HIDE DEF c
      <4> QED BY <2>2, <2>4, <2>6, <3>1
    <3> HIDE DEF c
    <3> QED BY <1>1, <2>4, <3>3, <3>4
  <2> QED BY <2>7, <2>8
<1> QED BY <1>2, <1>3

(* ... and for the truss model.                                            *)
LEMMA EdgeTrussInNat ==
  ASSUME Fitting, NEW common \in SUBSET valid_nodes
  PROVE  EdgeTruss(common) \in Nat
<1> DEFINE Count(w) == 1 + Cardinality(common) - Below(common, w)
           reached == {w \in common : Count(w) >= core_list[w]}
           S == {Count(w) : w \in reached}
<1>1. EdgeTruss(common) = IF reached = {} THEN 0 ELSE MinOf(S)
  BY DEF EdgeTruss
<1>2. CASE reached = {}
  <2> HIDE DEF reached, S
  <2> QED BY <1>1, <1>2
<1>3. CASE reached # {}
  <2>1. S \in SUBSET Nat
    <3>1. common # {}
      BY <1>3
    <3>2. \A w \in common : Count(w) \in Nat
      BY <3>1, Highmost
    <3> HIDE DEF Count
    <3> QED BY <3>2
  <2>2. S # {}
    BY <1>3
  <2> HIDE DEF S, reached
  <2>3. MinOf(S) \in Nat
    BY <2>1, <2>2, MinOfLeast
  <2> QED BY <1>1, <1>3, <2>3
<1> QED BY <1>2, <1>3

LEMMA AppTrussFits ==
  ASSUME Fitting, input.model = "truss", NEW near \in SUBSET valid_nodes
  PROVE  /\ AppTruss(near) \in Layer /\ AppTruss(near) # 1
         /\ (\E p \in near : core_list[p] > 0) => \E p \in near : AppTruss(near) <= core_list[p]
<1>1. PICK top \in Nat : Layer = 0 .. top /\ 2 <= top
  BY LoadedLayers DEF Fitting, Layer
<1> DEFINE f == [p \in near |-> MinOf({core_list[p], EdgeTruss(near \cap cur_graph_ori_adj[p])})]
           S == {2} \cup {f[p] : p \in near}
<1>2. ASSUME NEW p \in near
      PROVE  f[p] \in Nat /\ f[p] <= core_list[p] /\ core_list[p] \in 0 .. top
  <2>1. core_list[p] \in 0 .. top
    BY <1>1 DEF Fitting
  <2>2. near \cap cur_graph_ori_adj[p] \in SUBSET valid_nodes
    OBVIOUS
  <2>3. EdgeTruss(near \cap cur_graph_ori_adj[p]) \in Nat
    BY <2>2, EdgeTrussInNat
  <2> DEFINE e == EdgeTruss(near \cap cur_graph_ori_adj[p])
  <2>4. f[p] = MinOf({core_list[p], e})
    OBVIOUS
  <2> HIDE DEF e, f
  <2>5. {core_list[p], e} \in SUBSET Nat /\ {core_list[p], e} # {}
    BY <2>1, <2>3 DEF e
  <2>6. MinOf({core_list[p], e}) \in {core_list[p], e} /\ MinOf({core_list[p], e}) <= core_list[p]
    BY <2>5, MinOfLeast
  <2> QED BY <2>1, <2>4, <2>5, <2>6
<1>3. AppTruss(near) = MaxOf(S)
  <2>1. {f[p] : p \in near}
          = {MinOf({core_list[p], EdgeTruss(near \cap cur_graph_ori_adj[p])}) : p \in near}
    OBVIOUS
  <2> HIDE DEF f
  <2> QED BY <2>1 DEF AppTruss
<1>4. S \in SUBSET Nat /\ S # {} /\ IsFiniteSet(S)
  <2> HIDE DEF f
  <2>1. IsFiniteSet(near)
    BY DynamicAssumption, FS_Subset DEF Fitting
  <2>2. IsFiniteSet({f[p] : p \in near})
    BY <2>1, FiniteImage
  <2>3. IsFiniteSet({2} \cup {f[p] : p \in near})
    BY <2>2, FS_Singleton, FS_Union
  <2> QED BY <1>2, <2>3
<1>5. MaxOf(S) \in S /\ 2 <= MaxOf(S)
  <2>1. 2 \in S
    OBVIOUS
  <2> HIDE DEF S
  <2> QED BY <1>4, <2>1, MaxOfGreatest
<1>6. CASE MaxOf(S) = 2
  <2>1. AppTruss(near) = 2
    BY <1>3, <1>6
  <2>2. \A p \in near : core_list[p] # 1
    BY DEF Fitting
  <2> HIDE DEF f, S
  <2> QED BY <1>1, <1>2, <2>1, <2>2
<1>7. CASE MaxOf(S) # 2
  <2>1. PICK p \in near : MaxOf(S) = f[p]
    BY <1>5, <1>7
  <2> HIDE DEF f, S
  <2> QED BY <1>1, <1>2, <1>3, <1>5, <2>1
<1> QED BY <1>6, <1>7

LEMMA AppCorenessFits ==
  ASSUME Fitting, NEW near \in SUBSET valid_nodes
  PROVE  /\ App_Coreness(near) \in Layer
         /\ input.model = "truss" => App_Coreness(near) # 1
         /\ (\E p \in near : core_list[p] > 0)
              => \E p \in near : App_Coreness(near) <= core_list[p]
<1>1. input.model \in {"core", "truss"}
  BY DynamicAssumption DEF Fitting, InputOK
<1>2. CASE input.model = "core"
  BY <1>2, AppCoreFits DEF App_Coreness
<1>3. CASE input.model = "truss"
  BY <1>3, AppTrussFits DEF App_Coreness
<1> QED BY <1>1, <1>2, <1>3

(* The component adopted is one of the layer, and a neighbour's if one of  *)
(* them is in the layer.                                                   *)
LEMMA HomeFits ==
  ASSUME Fitting, NEW near \in SUBSET valid_nodes, NEW k \in Layer
  PROVE  /\ HomeOf(near, k) \in DOMAIN input.sp_l_list[k]
         /\ (\E p \in near : k <= core_list[p])
              => \E p \in near : k \in DOMAIN compo_l[p] /\ compo_l[p][k] = HomeOf(near, k)
<1> DEFINE inLayer == {p \in near : k \in DOMAIN compo_l[p]}
           size == [p \in near |-> node_num_per_compo(k, compo_l[p][k])]
           largest == {p \in inLayer : \A o \in inLayer : size[p] >= size[o]}
<1>1. PICK top \in Nat : Layer = 0 .. top
  BY LoadedLayers DEF Fitting, Layer
<1>2. \A p \in near : core_list[p] \in 0 .. top /\ DOMAIN compo_l[p] = 0 .. core_list[p]
  BY <1>1 DEF Fitting
<1>3. \A p \in inLayer : compo_l[p][k] \in DOMAIN input.sp_l_list[k]
  <2>1. \A p \in inLayer : p \in valid_nodes /\ k \in 0 .. core_list[p]
    BY <1>2
  <2> HIDE DEF inLayer
  <2> QED BY <2>1 DEF Fitting
<1>4. HomeOf(near, k) = IF inLayer = {} THEN 0 ELSE compo_l[MinOf(largest)][k]
  <2>1. {p \in inLayer : \A o \in inLayer :
            node_num_per_compo(k, compo_l[p][k]) >= node_num_per_compo(k, compo_l[o][k])} = largest
    OBVIOUS
  <2> HIDE DEF largest
  <2> QED BY <2>1 DEF HomeOf
<1>5. CASE inLayer = {}
  <2>1. 0 \in DOMAIN input.sp_l_list[k]
    BY DynamicAssumption DEF Fitting, InputOK, Layer
  <2>2. \A p \in near : ~(k <= core_list[p])
    BY <1>1, <1>2, <1>5
  <2> HIDE DEF inLayer
  <2> QED BY <1>4, <1>5, <2>1, <2>2
<1>6. CASE inLayer # {}
  <2>1. \A p \in near : size[p] \in Nat
    <3> TAKE p \in near
    <3> DEFINE N == {v \in input.valid : k \in DOMAIN input.compo_l[v]
                                           /\ input.compo_l[v][k] = compo_l[p][k]}
    <3>1. size[p] = Cardinality(N)
      BY DEF node_num_per_compo
    <3>2. N \in SUBSET Vertex
      BY DEF Fitting
    <3> HIDE DEF N
    <3> QED BY <3>1, <3>2, DynamicAssumption, FS_Subset, FS_CardinalityType
  <2> DEFINE C == {size[p] : p \in inLayer}
  <2>2. C \in SUBSET Nat /\ C # {}
    <3> HIDE DEF size
    <3> QED BY <1>6, <2>1
  <2>3. IsFiniteSet(C)
    <3>1. inLayer \in SUBSET Vertex
      BY DEF Fitting
    <3>2. IsFiniteSet(inLayer)
      <4> HIDE DEF inLayer
      <4> QED BY <3>1, DynamicAssumption, FS_Subset
    <3> HIDE DEF inLayer, size
    <3> QED BY <3>2, FiniteImage
  <2>4. PICK m \in C : \A n \in C : n <= m
    <3> HIDE DEF C
    <3> QED BY <2>2, <2>3, FiniteHasGreatest
  <2>5. largest # {}
    <3> HIDE DEF size
    <3>1. PICK p \in inLayer : m = size[p]
      BY <2>4
    <3>2. \A o \in inLayer : size[p] >= size[o]
      BY <2>1, <2>4, <3>1
    <3> QED BY <3>2
  <2>6. largest \in SUBSET Nat
    BY DynamicAssumption DEF Fitting
  <2>7. MinOf(largest) \in largest
    <3> HIDE DEF largest
    <3> QED BY <2>5, <2>6, MinOfLeast
  <2>8. PICK p \in inLayer : p = MinOf(largest)
    BY <2>7
  <2>9. HomeOf(near, k) = compo_l[p][k]
    <3> HIDE DEF largest, inLayer
    <3> QED BY <1>4, <1>6, <2>8
  <2>10. p \in near /\ k \in DOMAIN compo_l[p]
    OBVIOUS
  <2> HIDE DEF largest, inLayer, size
  <2> QED BY <1>3, <2>8, <2>9, <2>10
<1> QED BY <1>5, <1>6

-----------------------------------------------------------------------------
LEMMA ExpandStays ==
  ASSUME NEW V \in SUBSET Vertex, NEW q \in Vertex, NEW k, NEW S \in Searching(V),
         \A c \in V : Listed(hier_adj[c], Seen(hier_adj[c], k)) \in Seq(V)
  PROVE  Expand(q, k, S) \in Searching(V)
<1> DEFINE c == CHOOSE a \in S.expand : \A b \in S.expand : Cal_Dist[q][a] <= Cal_Dist[q][b]
           list == Listed(hier_adj[c], Seen(hier_adj[c], k))
           A == [S EXCEPT !.expand = @ \ {c}, !.cand = @ \cup {c}]
           Final == LET met[n \in 0 .. Len(list)] ==
                         IF n = 0 THEN A ELSE LET T == met[n - 1] IN Meet(q, T, list[n])
                   IN  met[Len(list)]
<1>1. Expand(q, k, S)
        = IF S.expand = {} \/ Cal_Dist[q][c] > Bound(q, S.result) THEN S ELSE Final
  BY DEF Expand
<1>2. CASE S.expand = {}
  <2> HIDE DEF c, Final
  <2> QED BY <1>1, <1>2
<1>3. CASE S.expand # {}
  <2>1. c \in S.expand
    <3> DEFINE f == [a \in S.expand |-> Cal_Dist[q][a]]
               D == {f[a] : a \in S.expand}
    <3>1. \A a \in S.expand : Cal_Dist[q][a] \in Nat
      BY DynamicAssumption DEF Searching
    <3>2. D \in SUBSET Nat /\ D # {}
      BY <1>3, <3>1
    <3>3. PICK m \in D : \A n \in D : m <= n
      <4> HIDE DEF D
      <4> QED BY <3>2, LeastElement
    <3>4. \E a \in S.expand : \A b \in S.expand : Cal_Dist[q][a] <= Cal_Dist[q][b]
      <4>1. PICK a \in S.expand : m = f[a]
        BY <3>3
      <4>2. \A b \in S.expand : f[a] <= f[b]
        <5> HIDE DEF f
        <5> QED BY <3>3, <4>1
      <4>3. \A b \in S.expand : Cal_Dist[q][a] <= Cal_Dist[q][b]
        BY <4>2
      <4> QED BY <4>3
    <3> QED BY <3>4
  <2>2. c \in V
    <3> HIDE DEF c
    <3> QED BY <2>1 DEF Searching
  <2> HIDE DEF c
  <2>3. list \in Seq(V)
    BY <2>2
  <2>4. A \in Searching(V)
    BY <2>2 DEF Searching
  <2>6. Final \in Searching(V)
    <3> HIDE DEF A, list
    <3> QED BY <2>3, <2>4, MetStays
  <2> HIDE DEF Final
  <2> QED BY <1>1, <2>6
<1> QED BY <1>2, <1>3

LEMMA SearchStays ==
  ASSUME NEW V \in SUBSET Vertex, NEW q \in Vertex, NEW k,
         \A c \in V : Listed(hier_adj[c], Seen(hier_adj[c], k)) \in Seq(V),
         input.sp_l_list[k][compo_l[q][k]] \in V
  PROVE  Search_Add(q, k) \in SUBSET V
<1> DEFINE K == Cardinality(Vertex)
           P == Searching(V)
           sp == input.sp_l_list[k][compo_l[q][k]]
           A == [vis |-> {sp}, expand |-> {sp}, result |-> {sp}, cand |-> {sp}]
           Rounds(w) == w = [n \in 0 .. K |-> IF n = 0 THEN A ELSE Expand(q, k, w[n - 1])]
           F == [z \in (1 .. K) \X P |-> Expand(q, k, z[2])]
<1>1. K \in Nat
  BY DynamicAssumption, FS_CardinalityType
<1>2. A \in P
  BY DEF Searching
<1>3. \A n \in 1 .. K : \A S \in P : F[<<n, S>>] = Expand(q, k, S) /\ Expand(q, k, S) \in P
  <2> TAKE n \in 1 .. K
  <2> TAKE S \in P
  <2>1. Expand(q, k, S) \in P
    BY ExpandStays
  <2>2. <<n, S>> \in (1 .. K) \X P
    OBVIOUS
  <2> HIDE DEF P, K
  <2> QED BY <2>1, <2>2
<1> HIDE DEF A
<1>4. PICK w : Stepwise(K, P, A, F, w)
  <2> HIDE DEF P, K, F
  <2>1. \A n \in 1 .. K : \A S \in P : F[<<n, S>>] \in P
    BY <1>3
  <2> QED BY <1>1, <1>2, <2>1, StepsExist
<1>5. Rounds(w)
  <2> HIDE DEF P, K, F
  <2>1. w = [n \in 0 .. K |-> w[n]]
    BY <1>4 DEF Stepwise
  <2>2. ASSUME NEW n \in 0 .. K
        PROVE  w[n] = IF n = 0 THEN A ELSE Expand(q, k, w[n - 1])
    <3>1. CASE n = 0
      BY <1>4, <3>1 DEF Stepwise
    <3>2. CASE n # 0
      <4>1. n \in 1 .. K /\ n - 1 \in 0 .. K
        BY <1>1, <3>2
      <4>2. w[n] = F[<<n, w[n - 1]>>] /\ w[n - 1] \in P
        BY <1>4, <4>1 DEF Stepwise
      <4> QED BY <1>3, <3>2, <4>1, <4>2
    <3> QED BY <3>1, <3>2
  <2> QED BY <2>1, <2>2
<1> DEFINE r == CHOOSE x : Rounds(x)
<1>6. Rounds(r)
  <2> HIDE DEF Rounds
  <2> QED BY <1>5
<1>7. r[K] \in P
  <2> DEFINE Bad == {n \in 0 .. K : r[n] \notin P}
  <2> HIDE DEF r
  <2>1. CASE Bad # {}
    <3>1. PICK n \in Bad : \A m \in Bad : n <= m
      <4>1. Bad \in SUBSET Nat
        BY <1>1
      <4> HIDE DEF Bad
      <4> QED BY <2>1, <4>1, LeastElement
    <3>2. r[n] = IF n = 0 THEN A ELSE Expand(q, k, r[n - 1])
      <4> HIDE DEF P, K
      <4> QED BY <1>6
    <3> HIDE DEF P, K
    <3>3. n # 0
      BY <1>2, <3>2
    <3>4. n - 1 \in 0 .. K /\ ~(n <= n - 1) /\ n \in 1 .. K
      BY <1>1, <3>3
    <3>5. r[n - 1] \in P
      BY <3>1, <3>4
    <3> QED BY <1>3, <3>2, <3>3, <3>4, <3>5
  <2>2. CASE Bad = {}
    <3> HIDE DEF P, K
    <3> QED BY <1>1, <2>2
  <2> QED BY <2>1, <2>2
<1>8. Search_Add(q, k) = IF Refused(q, k) THEN {} ELSE r[K].cand
  BY DEF Search_Add, A
<1>9. r[K].cand \in SUBSET V
  <2> HIDE DEF r, K
  <2> QED BY <1>7 DEF Searching
<1> HIDE DEF r
<1> QED BY <1>8, <1>9

LEMMA SearchIndexed ==
  ASSUME Fitting, Linked, NEW q \in valid_nodes, NEW k \in 0 .. core_list[q]
  PROVE  Search_Add(q, k) \in SUBSET valid_nodes
<1>1. q \in Vertex /\ core_list[q] \in Layer /\ valid_nodes \in SUBSET Vertex
  BY DEF Fitting
<1>2. PICK top \in Nat : Layer = 0 .. top
  BY LoadedLayers DEF Fitting, Layer
<1>3. k \in Layer /\ compo_l[q][k] \in DOMAIN input.sp_l_list[k]
  BY <1>1, <1>2 DEF Fitting
<1>4. input.sp_l_list[k][compo_l[q][k]] \in valid_nodes
  BY <1>3, DynamicAssumption DEF Fitting, InputOK, Layer
<1>5. ASSUME NEW c \in valid_nodes
      PROVE  Listed(hier_adj[c], Seen(hier_adj[c], k)) \in Seq(valid_nodes)
  <2>1. hier_adj[c] \in Seq([tag : Layer, id : valid_nodes])
    BY <1>1 DEF Linked
  <2>2. Seen(hier_adj[c], k) \in SUBSET DOMAIN hier_adj[c]
    BY DEF Seen
  <2> QED BY <2>1, <2>2, ListedIds
<1> QED BY <1>1, <1>4, <1>5, SearchStays

(* Pruning keeps the locked neighbours and adds some of the pool.          *)
LEMMA PruneAdds ==
  ASSUME NEW V \in SUBSET Vertex, NEW v \in Vertex, NEW d \in Distances,
         NEW front \in Seq(V), NEW pool \in SUBSET V
  PROVE  Robust_Prune_Add(v, d, front, pool) \in Seq(V)
<1> DEFINE others == pool \ ({v} \cup Range(front))
           kept == Closest(d, others, Degree - Len(front))
<1>1. kept \in SUBSET V
  BY DEF Closest
<1>2. Near(d, kept) \in Seq(kept)
  <2> HIDE DEF kept
  <2> QED BY <1>1, NearLists
<1>3. Near(d, kept) \in Seq(V)
  <2> HIDE DEF kept
  <2> QED BY <1>1, <1>2
<1>4. Robust_Prune_Add(v, d, front, pool) = front \o Near(d, kept)
  BY DEF Robust_Prune_Add
<1> HIDE DEF kept
<1> QED BY <1>3, <1>4

-----------------------------------------------------------------------------
(* A list that changes within the types, with tags within what the ends    *)
(* share, disturbs nothing.                                                *)
LEMMA ListChanges ==
  ASSUME Fitting, Linked, TagsCommon, NEW u \in valid_nodes,
         NEW list \in Seq([tag : Layer, id : valid_nodes]),
         \A j \in DOMAIN list : list[j].tag <= Return_Maximum_Common_Layer(u, list[j].id),
         hier_adj' = [hier_adj EXCEPT ![u] = list],
         UNCHANGED <<input, valid_nodes, core_list, compo_l>>
  PROVE  Linked' /\ TagsCommon'
<1>1. u \in Vertex
  BY DEF Fitting
<1>2. Linked'
  <2> DEFINE E == [tag : Layer, id : valid_nodes]
  <2>1. E' = E
    BY DEF Layer
  <2>2. hier_adj \in [Vertex -> Seq(E)] /\ list \in Seq(E)
    BY DEF Linked
  <2> HIDE DEF E
  <2>3. hier_adj' \in [Vertex -> Seq(E)]
    BY <2>2
  <2>4. \A v \in Vertex : v \notin valid_nodes => hier_adj'[v] = <<>>
    BY <1>1 DEF Linked
  <2> QED BY <2>1, <2>3, <2>4 DEF Linked, E
<1>3. TagsCommon'
  <2>1. \A v, w : Return_Maximum_Common_Layer(v, w)' = Return_Maximum_Common_Layer(v, w)
    BY DEF Return_Maximum_Common_Layer
  <2>2. ASSUME NEW v \in valid_nodes, NEW j \in DOMAIN hier_adj'[v]
        PROVE  hier_adj'[v][j].tag <= Return_Maximum_Common_Layer(v, hier_adj'[v][j].id)
    <3>1. v \in Vertex
      BY DEF Fitting
    <3>2. CASE v = u
      BY <1>1, <2>2, <3>2 DEF Linked
    <3>3. CASE v # u
      <4>1. hier_adj'[v] = hier_adj[v]
        BY <3>1, <3>3 DEF Linked
      <4> QED BY <2>2, <4>1 DEF TagsCommon
    <3> QED BY <3>2, <3>3
  <2> QED BY <2>1, <2>2 DEF TagsCommon
<1> QED BY <1>2, <1>3

LEMMA CommonIsLayer ==
  ASSUME Fitting, NEW u \in valid_nodes, NEW v \in valid_nodes
  PROVE  Return_Maximum_Common_Layer(u, v) \in Layer
<1>1. PICK top \in Nat : Layer = 0 .. top
  BY LoadedLayers DEF Fitting, Layer
<1>2. core_list[u] \in 0 .. top /\ core_list[v] \in 0 .. top
  BY <1>1 DEF Fitting
<1>3. /\ Highest(core_list, compo_l, u, v) \in Nat
      /\ Highest(core_list, compo_l, u, v) <= core_list[u]
  BY <1>2, HighestBounds
<1> QED BY <1>1, <1>2, <1>3 DEF Return_Maximum_Common_Layer

-----------------------------------------------------------------------------
(* How many of the first entries of a list carry a layer, and what an      *)
(* exchange and an insertion do to that number and to the view.            *)
Count(list, i, k) == Cardinality({m \in 1 .. i : Carries(list[m], k)})

LEMMA CountTypes ==
  ASSUME NEW E, NEW list \in Seq(E), NEW i \in Nat, NEW k
  PROVE  /\ Count(list, i, k) \in Nat
         /\ Count(list, 0, k) = 0
         /\ Count(list, i + 1, k) = Count(list, i, k) + (IF Carries(list[i + 1], k) THEN 1 ELSE 0)
         /\ \A h \in 0 .. i : Count(list, h, k) <= Count(list, i, k)
<1> DEFINE C(n) == {m \in 1 .. n : Carries(list[m], k)}
<1>1. \A n \in Nat : IsFiniteSet(C(n)) /\ Cardinality(C(n)) \in Nat
  <2> TAKE n \in Nat
  <2>1. IsFiniteSet(1 .. n) /\ C(n) \in SUBSET (1 .. n)
    BY FS_Interval
  <2> HIDE DEF C
  <2> QED BY <2>1, FS_Subset, FS_CardinalityType
<1>2. C(0) = {}
  OBVIOUS
<1>3. C(i + 1) = IF Carries(list[i + 1], k) THEN C(i) \cup {i + 1} ELSE C(i)
  <2>1. 1 .. (i + 1) = (1 .. i) \cup {i + 1}
    OBVIOUS
  <2> QED BY <2>1
<1>4. i + 1 \notin C(i)
  OBVIOUS
<1>5. \A h \in 0 .. i : C(h) \in SUBSET C(i)
  OBVIOUS
<1>6. \A n : Count(list, n, k) = Cardinality(C(n))
  BY DEF Count
<1> HIDE DEF C
<1>7. Cardinality(C(i + 1)) = Cardinality(C(i)) + (IF Carries(list[i + 1], k) THEN 1 ELSE 0)
  <2>1. CASE Carries(list[i + 1], k)
    BY <1>1, <1>3, <1>4, <2>1, FS_AddElement
  <2>2. CASE ~Carries(list[i + 1], k)
    BY <1>1, <1>3, <2>2
  <2> QED BY <2>1, <2>2
<1>8. \A h \in 0 .. i : Cardinality(C(h)) <= Cardinality(C(i))
  BY <1>1, <1>5, FS_Subset
<1>9. Cardinality(C(0)) = 0
  BY <1>2, FS_EmptySet
<1>10. i + 1 \in Nat /\ 0 \in Nat
  OBVIOUS
<1>11. /\ Count(list, i, k) = Cardinality(C(i)) /\ Count(list, 0, k) = Cardinality(C(0))
       /\ Count(list, i + 1, k) = Cardinality(C(i + 1))
       /\ \A h \in 0 .. i : Count(list, h, k) = Cardinality(C(h))
  BY <1>6
<1> QED BY <1>1, <1>7, <1>8, <1>9, <1>11

(* A layer sees what carries it and is among the first of these.           *)
LEMMA SeenCount ==
  ASSUME NEW list, NEW k
  PROVE  Seen(list, k)
           = {j \in DOMAIN list : Carries(list[j], k) /\ Count(list, j, k) <= Degree}
BY DEF Seen, Count, UpTo

(* Insertion at a place moves what follows by one.                         *)
LEMMA InsertAtPlaces ==
  ASSUME NEW E, NEW list \in Seq(E), NEW i \in 1 .. Len(list) + 1, NEW e \in E
  PROVE  /\ InsertAt(list, i, e) \in Seq(E)
         /\ Len(InsertAt(list, i, e)) = Len(list) + 1
         /\ InsertAt(list, i, e)[i] = e
         /\ \A j \in 1 .. i - 1 : InsertAt(list, i, e)[j] = list[j]
         /\ \A j \in i .. Len(list) : InsertAt(list, i, e)[j + 1] = list[j]
<1> DEFINE a == SubSeq(list, 1, i - 1)
           b == SubSeq(list, i, Len(list))
<1>1. a \in Seq(E) /\ Len(a) = i - 1 /\ \A j \in 1 .. (i - 1) : a[j] = list[j]
  OBVIOUS
<1>2. b \in Seq(E) /\ Len(b) = Len(list) - i + 1
      /\ \A j \in 1 .. (Len(list) - i + 1) : b[j] = list[i + j - 1]
  OBVIOUS
<1>3. InsertAt(list, i, e) = (a \o <<e>>) \o b
  BY DEF InsertAt
<1>4. <<e>> \in Seq(E) /\ Len(<<e>>) = 1 /\ <<e>>[1] = e
  OBVIOUS
<1> HIDE DEF a, b
<1> DEFINE c == a \o <<e>>
<1>5. c \in Seq(E) /\ Len(c) = i /\ \A j \in 1 .. i : c[j] = IF j < i THEN a[j] ELSE e
  BY <1>1, <1>4
<1>6. c \o b \in Seq(E) /\ Len(c \o b) = i + Len(b)
      /\ \A j \in 1 .. (i + Len(b)) : (c \o b)[j] = IF j <= i THEN c[j] ELSE b[j - i]
  <2> HIDE DEF c
  <2>1. b \in Seq(E) /\ c \in Seq(E) /\ Len(c) = i /\ Len(b) \in Nat /\ i \in Nat
    BY <1>2, <1>5
  <2>2. c \o b \in Seq(E) /\ Len(c \o b) = i + Len(b)
    BY <2>1
  <2>3. \A j \in 1 .. (i + Len(b)) : (c \o b)[j] = IF j <= i THEN c[j] ELSE b[j - i]
    BY <2>1
  <2> QED BY <2>2, <2>3
<1>7. i + Len(b) = Len(list) + 1
  BY <1>2
<1>8. \A j \in 1 .. i - 1 : (c \o b)[j] = list[j]
  <2> HIDE DEF c
  <2>1. \A j \in 1 .. i - 1 : j \in 1 .. (i + Len(b)) /\ j <= i /\ j < i /\ j \in 1 .. i
    BY <1>7
  <2> QED BY <1>1, <1>5, <1>6, <2>1
<1>9. (c \o b)[i] = e
  <2> HIDE DEF c
  <2>1. i \in 1 .. (i + Len(b)) /\ i <= i /\ ~(i < i) /\ i \in 1 .. i
    BY <1>7
  <2> QED BY <1>5, <1>6, <2>1
<1>10. ASSUME NEW j \in i .. Len(list) PROVE (c \o b)[j + 1] = list[j]
  <2> HIDE DEF c
  <2>1. j + 1 \in 1 .. (i + Len(b)) /\ ~(j + 1 <= i) /\ (j + 1) - i \in 1 .. (Len(list) - i + 1)
    BY <1>7
  <2>2. (c \o b)[j + 1] = b[(j + 1) - i]
    BY <1>6, <2>1
  <2>3. b[(j + 1) - i] = list[i + ((j + 1) - i) - 1]
    BY <1>2, <2>1
  <2>4. i + ((j + 1) - i) - 1 = j
    OBVIOUS
  <2> QED BY <2>2, <2>3, <2>4
<1>11. Len(c \o b) = Len(list) + 1 /\ c \o b \in Seq(E)
  <2> HIDE DEF c
  <2> QED BY <1>6, <1>7
<1> HIDE DEF c
<1>12. InsertAt(list, i, e) = c \o b
  BY <1>3 DEF c
<1> QED BY <1>8, <1>9, <1>10, <1>11, <1>12

LEMMA CountInserted ==
  ASSUME NEW E, NEW list \in Seq(E), NEW q \in 1 .. Len(list) + 1, NEW e \in E, NEW k
  PROVE  /\ \A i \in 0 .. q - 1 : Count(InsertAt(list, q, e), i, k) = Count(list, i, k)
         /\ \A i \in q - 1 .. Len(list) :
              Count(InsertAt(list, q, e), i + 1, k)
                = Count(list, i, k) + (IF Carries(e, k) THEN 1 ELSE 0)
<1> DEFINE w == InsertAt(list, q, e)
<1>1. /\ w \in Seq(E) /\ w[q] = e
      /\ \A j \in 1 .. q - 1 : w[j] = list[j]
      /\ \A j \in q .. Len(list) : w[j + 1] = list[j]
  <2>1. w \in Seq(E) /\ w[q] = e
    BY InsertAtPlaces
  <2>2. \A j \in 1 .. q - 1 : w[j] = list[j]
    BY InsertAtPlaces
  <2>3. \A j \in q .. Len(list) : w[j + 1] = list[j]
    BY InsertAtPlaces
  <2> QED BY <2>1, <2>2, <2>3
<1> HIDE DEF w
<1>2. ASSUME NEW i \in 0 .. q - 1 PROVE Count(w, i, k) = Count(list, i, k)
  <2>1. \A m \in 1 .. i : w[m] = list[m]
    <3>1. \A m \in 1 .. i : m \in 1 .. q - 1
      OBVIOUS
    <3> QED BY <1>1, <3>1
  <2>2. {m \in 1 .. i : Carries(w[m], k)} = {m \in 1 .. i : Carries(list[m], k)}
    BY <2>1
  <2> QED BY <2>2 DEF Count
<1> DEFINE one == IF Carries(e, k) THEN 1 ELSE 0
           Bad == {i \in q - 1 .. Len(list) : Count(w, i + 1, k) # Count(list, i, k) + one}
<1>3. Bad = {}
  <2> SUFFICES ASSUME Bad # {} PROVE FALSE
    OBVIOUS
  <2>1. PICK i \in Bad : \A j \in Bad : i <= j
    <3>1. Bad \in SUBSET Nat
      OBVIOUS
    <3> HIDE DEF Bad
    <3> QED BY <3>1, LeastElement
  <2>2. i \in q - 1 .. Len(list) /\ Count(w, i + 1, k) # Count(list, i, k) + one
    OBVIOUS
  <2>3. i \in Nat /\ q \in Nat \ {0} /\ Len(list) \in Nat
    BY <2>2
  <2>4. /\ Count(w, i, k) \in Nat /\ Count(list, i, k) \in Nat
        /\ Count(w, i + 1, k) = Count(w, i, k) + (IF Carries(w[i + 1], k) THEN 1 ELSE 0)
    BY <1>1, <2>3, CountTypes
  <2>5. i # q - 1
    <3> SUFFICES ASSUME i = q - 1 PROVE FALSE
      OBVIOUS
    <3>1. i + 1 \in 1 .. Len(list) + 1 /\ i + 1 = q /\ i \in 0 .. q - 1
      BY <2>2, <2>3
    <3>2. w[i + 1] = e
      BY <1>1, <3>1
    <3> QED BY <1>2, <2>2, <2>4, <3>1, <3>2
  <2>6. i - 1 \in q - 1 .. Len(list) /\ i - 1 \in Nat /\ ~(i <= i - 1) /\ i - 1 + 1 = i
    BY <2>2, <2>3, <2>5
  <2>7. Count(w, i - 1 + 1, k) = Count(list, i - 1, k) + one
    BY <2>1, <2>6
  <2>8. Count(list, i - 1 + 1, k)
          = Count(list, i - 1, k) + (IF Carries(list[i - 1 + 1], k) THEN 1 ELSE 0)
    BY <2>6, CountTypes
  <2>9. w[i + 1] = list[i]
    <3>1. i \in q .. Len(list)
      BY <2>2, <2>3, <2>5
    <3> QED BY <1>1, <3>1
  <2>10. Count(list, i - 1, k) \in Nat
    BY <2>6, CountTypes
  <2> QED BY <2>2, <2>4, <2>6, <2>7, <2>8, <2>9, <2>10
<1> QED BY <1>2, <1>3 DEF w

(* Where the entries of a list are after an insertion.                     *)
After(q, i) == IF i < q THEN i ELSE i + 1

LEMMA InsertedPlaces ==
  ASSUME NEW E, NEW list \in Seq(E), NEW q \in 1 .. Len(list) + 1, NEW e \in E, NEW k,
         NEW w, w = InsertAt(list, q, e)
  PROVE  /\ \A p : p \in DOMAIN w <=> p = q \/ \E i \in DOMAIN list : p = After(q, i)
         /\ w[q] = e
         /\ \A i \in DOMAIN list :
              /\ w[After(q, i)] = list[i]
              /\ Count(w, After(q, i), k)
                   = Count(list, i, k) + (IF i >= q /\ Carries(e, k) THEN 1 ELSE 0)
         /\ Count(w, q, k) = Count(list, q - 1, k) + (IF Carries(e, k) THEN 1 ELSE 0)
<1> DEFINE L == Len(list)
<1>1. /\ w \in Seq(E) /\ Len(w) = L + 1 /\ w[q] = e
      /\ \A j \in 1 .. q - 1 : w[j] = list[j]
      /\ \A j \in q .. L : w[j + 1] = list[j]
  BY InsertAtPlaces
<1>2. /\ \A i \in 0 .. q - 1 : Count(w, i, k) = Count(list, i, k)
      /\ \A i \in q - 1 .. L :
           Count(w, i + 1, k) = Count(list, i, k) + (IF Carries(e, k) THEN 1 ELSE 0)
  BY CountInserted
<1>3. L \in Nat /\ DOMAIN list = 1 .. L /\ q \in 1 .. L + 1
  OBVIOUS
<1>4. DOMAIN w = 1 .. L + 1
  BY <1>1
<1> HIDE DEF L
<1>5. \A p : p \in DOMAIN w <=> p = q \/ \E i \in DOMAIN list : p = After(q, i)
  <2>1. ASSUME NEW j \in 1 .. L + 1, j # q PROVE \E i \in 1 .. L : j = After(q, i)
    <3>1. CASE j < q
      BY <1>3, <2>1, <3>1 DEF After
    <3>2. CASE j > q
      <4>1. j - 1 \in 1 .. L /\ ~(j - 1 < q) /\ j - 1 + 1 = j
        BY <1>3, <2>1, <3>2
      <4>2. After(q, j - 1) = j
        BY <4>1 DEF After
      <4> QED BY <4>1, <4>2
    <3> QED BY <1>3, <2>1, <3>1, <3>2
  <2>2. \A i \in 1 .. L : After(q, i) \in 1 .. L + 1
    BY <1>3 DEF After
  <2> QED BY <1>3, <1>4, <2>1, <2>2
<1>6. w[q] = e
  BY <1>1
<1>7. ASSUME NEW i \in 1 .. L
      PROVE  /\ w[After(q, i)] = list[i]
             /\ Count(w, After(q, i), k)
                  = Count(list, i, k) + (IF i >= q /\ Carries(e, k) THEN 1 ELSE 0)
  <2>1. CASE i < q
    <3>1. i \in 1 .. L + 1 /\ i \in 0 .. q - 1 /\ i \in 1 .. q - 1 /\ After(q, i) = i
      BY <1>3, <2>1 DEF After
    <3>2. Count(list, i, k) \in Nat
      BY <3>1, CountTypes
    <3> QED BY <1>1, <1>2, <1>3, <2>1, <3>1, <3>2
  <2>2. CASE i >= q
    <3>1. i + 1 \in 1 .. L + 1 /\ i \in q - 1 .. L /\ i \in q .. L /\ After(q, i) = i + 1 /\ i + 1 > q
      BY <1>3, <2>2 DEF After
    <3> QED BY <1>1, <1>2, <1>3, <2>2, <3>1
  <2> QED BY <1>3, <2>1, <2>2
<1>8. Count(w, q, k) = Count(list, q - 1, k) + (IF Carries(e, k) THEN 1 ELSE 0)
  <2>1. q - 1 \in q - 1 .. L /\ q - 1 + 1 = q
    BY <1>3
  <2>2. Count(w, q - 1 + 1, k) = Count(list, q - 1, k) + (IF Carries(e, k) THEN 1 ELSE 0)
    BY <1>2, <2>1
  <2> QED BY <2>1, <2>2
<1> QED BY <1>3, <1>5, <1>6, <1>7, <1>8

(* Exchange of an entry by one that does not carry the layer.              *)
LEMMA CountReplaced ==
  ASSUME NEW E, NEW list \in Seq(E), NEW j \in DOMAIN list, NEW r \in E, NEW k, ~Carries(r, k),
         NEW i \in DOMAIN list
  PROVE  Count(list, i, k) = Count([list EXCEPT ![j] = r], i, k)
                               + (IF Carries(list[j], k) /\ j <= i THEN 1 ELSE 0)
<1> DEFINE w == [list EXCEPT ![j] = r]
           C == {m \in 1 .. i : Carries(list[m], k)}
           D == {m \in 1 .. i : Carries(w[m], k)}
<1>1. DOMAIN w = DOMAIN list /\ w[j] = r /\ \A m \in DOMAIN list : m # j => w[m] = list[m]
  OBVIOUS
<1>2. \A m \in 1 .. i : m \in DOMAIN list
  OBVIOUS
<1>3. IsFiniteSet(C) /\ Cardinality(C) \in Nat /\ C \in SUBSET (1 .. i)
  <2>1. IsFiniteSet(1 .. i) /\ C \in SUBSET (1 .. i)
    BY FS_Interval
  <2> HIDE DEF C
  <2> QED BY <2>1, FS_Subset, FS_CardinalityType
<1>4. D = C \ {j}
  <2> HIDE DEF w
  <2> QED BY <1>1, <1>2
<1>5. j \in C <=> Carries(list[j], k) /\ j <= i
  OBVIOUS
<1> HIDE DEF C, D
<1>6. Cardinality(C) = Cardinality(D) + (IF j \in C THEN 1 ELSE 0)
  <2>1. CASE j \in C
    <3>1. Cardinality(C \ {j}) = Cardinality(C) - 1
      BY <1>3, <2>1, FS_RemoveElement
    <3> QED BY <1>3, <1>4, <2>1, <3>1
  <2>2. CASE j \notin C
    <3>1. D = C
      BY <1>4, <2>2
    <3> QED BY <1>3, <2>2, <3>1
  <2> QED BY <2>1, <2>2
<1> QED BY <1>5, <1>6 DEF Count, C, D

-----------------------------------------------------------------------------
(* Neither changes the view of a layer that the entries do not carry, ...  *)
LEMMA ViewReplaced ==
  ASSUME NEW E, NEW list \in Seq(E), NEW j \in DOMAIN list, NEW r \in E, NEW k,
         ~Carries(r, k), ~Carries(list[j], k)
  PROVE  View([list EXCEPT ![j] = r], k) = View(list, k)
<1> DEFINE w == [list EXCEPT ![j] = r]
<1>1. DOMAIN w = DOMAIN list /\ w[j] = r /\ \A m \in DOMAIN list : m # j => w[m] = list[m]
  OBVIOUS
<1>2. \A i \in DOMAIN list : Count(list, i, k) = Count(w, i, k)
  <2> TAKE i \in DOMAIN list
  <2>1. Count(list, i, k) = Count(w, i, k) + 0
    BY CountReplaced
  <2>2. Count(w, i, k) \in Nat
    <3>1. w \in Seq(E) /\ i \in Nat
      OBVIOUS
    <3> HIDE DEF w
    <3> QED BY <3>1, CountTypes
  <2> QED BY <2>1, <2>2
<1> HIDE DEF w
<1>3. Seen(w, k) = Seen(list, k)
  BY <1>1, <1>2, SeenCount
<1>4. \A i \in Seen(list, k) : w[i] = list[i]
  BY <1>1, SeenCount
<1>5. View(w, k) = View(list, k)
  BY <1>3, <1>4 DEF View
<1> QED BY <1>5 DEF w

LEMMA ViewInserted ==
  ASSUME NEW E, NEW list \in Seq(E), NEW q \in 1 .. Len(list) + 1, NEW e \in E, NEW k,
         ~Carries(e, k)
  PROVE  View(InsertAt(list, q, e), k) = View(list, k)
<1>0. PICK w : w = InsertAt(list, q, e)
  OBVIOUS
<1>1. /\ \A p : p \in DOMAIN w <=> p = q \/ \E i \in DOMAIN list : p = After(q, i)
      /\ w[q] = e
      /\ \A i \in DOMAIN list : /\ w[After(q, i)] = list[i]
                                /\ Count(w, After(q, i), k) = Count(list, i, k) + 0
  <2>1. (\A p : p \in DOMAIN w <=> p = q \/ \E i \in DOMAIN list : p = After(q, i)) /\ w[q] = e
    BY <1>0, InsertedPlaces
  <2>2. \A i \in DOMAIN list : w[After(q, i)] = list[i]
    BY <1>0, InsertedPlaces
  <2>3. \A i \in DOMAIN list : Count(w, After(q, i), k) = Count(list, i, k) + 0
    BY <1>0, InsertedPlaces
  <2> QED BY <2>1, <2>2, <2>3
<1>2. \A i \in DOMAIN list : Count(list, i, k) + 0 = Count(list, i, k)
  BY CountTypes
<1>3. \A i \in Seen(list, k) : After(q, i) \in Seen(w, k) /\ w[After(q, i)].id = list[i].id
  BY <1>1, <1>2, SeenCount
<1>4. ASSUME NEW p \in Seen(w, k) PROVE \E i \in Seen(list, k) : w[p].id = list[i].id
  <2>1. p \in DOMAIN w /\ Carries(w[p], k) /\ Count(w, p, k) <= Degree
    BY <1>4, SeenCount
  <2>2. PICK i \in DOMAIN list : p = After(q, i)
    BY <1>1, <2>1
  <2> QED BY <1>1, <1>2, <2>1, <2>2, SeenCount
<1>5. View(w, k) = View(list, k)
  BY <1>3, <1>4 DEF View
<1> QED BY <1>0, <1>5

(* ... and one that the layer sees may be exchanged, if it is put back     *)
(* among the first entries that carry the layer.                           *)
LEMMA ViewExchanged ==
  ASSUME NEW E, NEW list \in Seq(E), NEW j \in DOMAIN list, NEW r \in E, NEW k,
         ~Carries(r, k), Carries(list[j], k), Degree \in Nat, Count(list, j, k) <= Degree,
         NEW q \in 1 .. Len(list) + 1, Count([list EXCEPT ![j] = r], q - 1, k) < Degree
  PROVE  View(InsertAt([list EXCEPT ![j] = r], q, list[j]), k) = View(list, k)
<1> DEFINE R == [list EXCEPT ![j] = r]
           e == list[j]
<1>1. /\ R \in Seq(E) /\ DOMAIN R = DOMAIN list /\ Len(R) = Len(list) /\ R[j] = r
      /\ \A m \in DOMAIN list : m # j => R[m] = list[m]
  OBVIOUS
<1>2. e \in E /\ j \in Nat /\ q - 1 \in Nat /\ DOMAIN list = 1 .. Len(list) /\ q \in Nat
  OBVIOUS
<1>3. \A i \in DOMAIN list :
        Count(list, i, k) = Count(R, i, k) + (IF j <= i THEN 1 ELSE 0)
  BY CountReplaced
<1> HIDE DEF R
<1>0. PICK w : w = InsertAt(R, q, e)
  OBVIOUS
<1>4. /\ \A p : p \in DOMAIN w <=> p = q \/ \E i \in DOMAIN list : p = After(q, i)
      /\ w[q] = e
      /\ \A i \in DOMAIN list :
           /\ w[After(q, i)] = R[i]
           /\ Count(w, After(q, i), k) = Count(R, i, k) + (IF i >= q THEN 1 ELSE 0)
      /\ Count(w, q, k) = Count(R, q - 1, k) + 1
  <2>1. Carries(e, k) /\ q \in 1 .. Len(R) + 1
    BY <1>1
  <2> HIDE DEF e
  <2>2. (\A p : p \in DOMAIN w <=> p = q \/ \E i \in DOMAIN R : p = After(q, i)) /\ w[q] = e
    BY <1>1, <1>0, <1>2, <2>1, InsertedPlaces
  <2>3. \A i \in DOMAIN R : w[After(q, i)] = R[i]
    BY <1>1, <1>0, <1>2, <2>1, InsertedPlaces
  <2>4. \A i \in DOMAIN R :
          Count(w, After(q, i), k) = Count(R, i, k) + (IF i >= q THEN 1 ELSE 0)
    BY <1>1, <1>0, <1>2, <2>1, InsertedPlaces
  <2>5. Count(w, q, k) = Count(R, q - 1, k) + 1
    BY <1>1, <1>0, <1>2, <2>1, InsertedPlaces
  <2> QED BY <1>1, <2>2, <2>3, <2>4, <2>5
<1>5. \A i \in Nat : Count(R, i, k) \in Nat /\ \A h \in 0 .. i : Count(R, h, k) <= Count(R, i, k)
  BY <1>1, CountTypes
<1>6. Count(R, j, k) < Degree /\ Count(R, q - 1, k) < Degree
  <2>1. Count(list, j, k) = Count(R, j, k) + 1
    BY <1>2, <1>3
  <2>2. Count(R, j, k) \in Nat
    BY <1>2, <1>5
  <2>3. Count(list, j, k) <= Degree /\ Degree \in Nat
    OBVIOUS
  <2>4. Count(R, q - 1, k) < Degree
    BY DEF R
  <2> QED BY <2>1, <2>2, <2>3, <2>4
<1>7. q \in Seen(w, k) /\ w[q].id = list[j].id
  <2>1. Count(w, q, k) <= Degree
    BY <1>2, <1>4, <1>5, <1>6
  <2> QED BY <1>4, <2>1, SeenCount
<1>8. j \in Seen(list, k)
  BY SeenCount
<1>9. ASSUME NEW i \in DOMAIN list, i # j
      PROVE  i \in Seen(list, k) <=> After(q, i) \in Seen(w, k)
  <2>1. R[i] = list[i] /\ w[After(q, i)] = list[i] /\ After(q, i) \in DOMAIN w /\ i \in Nat
    BY <1>1, <1>2, <1>4, <1>9
  <2>2. Count(R, i, k) >= Degree => j <= i /\ i >= q
    <3> SUFFICES ASSUME Count(R, i, k) >= Degree PROVE j <= i /\ i >= q
      OBVIOUS
    <3>1. ~(i <= j) /\ ~(i <= q - 1)
      BY <1>2, <1>5, <1>6, <2>1
    <3> QED BY <1>2, <2>1, <3>1
  <2>3. Count(list, i, k) <= Degree <=> Count(w, After(q, i), k) <= Degree
    BY <1>3, <1>4, <1>5, <2>1, <2>2
  <2> QED BY <2>1, <2>3, SeenCount
<1>10. ASSUME NEW i \in Seen(list, k) PROVE \E p \in Seen(w, k) : w[p].id = list[i].id
  <2>1. CASE i = j
    BY <1>7, <2>1
  <2>2. CASE i # j
    <3>1. i \in DOMAIN list
      BY SeenCount
    <3>2. After(q, i) \in Seen(w, k) /\ w[After(q, i)] = list[i]
      BY <1>1, <1>4, <1>9, <2>2, <3>1
    <3> QED BY <3>2
  <2> QED BY <2>1, <2>2
<1>11. ASSUME NEW p \in Seen(w, k) PROVE \E i \in Seen(list, k) : w[p].id = list[i].id
  <2>1. p \in DOMAIN w /\ Carries(w[p], k)
    BY SeenCount
  <2>2. CASE p = q
    BY <1>7, <1>8, <2>2
  <2>3. CASE p # q
    <3>1. PICK i \in DOMAIN list : p = After(q, i)
      BY <1>4, <2>1, <2>3
    <3>2. i # j
      BY <1>1, <1>4, <2>1, <3>1
    <3>3. i \in Seen(list, k) /\ w[p] = list[i]
      BY <1>1, <1>4, <1>9, <3>1, <3>2
    <3> QED BY <3>3
  <2> QED BY <2>2, <2>3
<1>12. View(w, k) = View(list, k)
  BY <1>10, <1>11 DEF View
<1> QED BY <1>0, <1>12 DEF R, e

-----------------------------------------------------------------------------
(* What an offer makes of a list.                                          *)
LEMMA InsertAtKeeps ==
  ASSUME NEW E, NEW list \in Seq(E), NEW i \in 1 .. Len(list) + 1, NEW e \in E
  PROVE  /\ InsertAt(list, i, e) \in Seq(E)
         /\ \A j \in DOMAIN InsertAt(list, i, e) :
              InsertAt(list, i, e)[j] = e \/ \E m \in DOMAIN list : InsertAt(list, i, e)[j] = list[m]
<1> DEFINE w == InsertAt(list, i, e)
<1>1. /\ w \in Seq(E) /\ Len(w) = Len(list) + 1 /\ w[i] = e
      /\ \A j \in 1 .. i - 1 : w[j] = list[j]
      /\ \A j \in i .. Len(list) : w[j + 1] = list[j]
  <2>1. w \in Seq(E) /\ Len(w) = Len(list) + 1 /\ w[i] = e
    BY InsertAtPlaces
  <2>2. \A j \in 1 .. i - 1 : w[j] = list[j]
    BY InsertAtPlaces
  <2>3. \A j \in i .. Len(list) : w[j + 1] = list[j]
    BY InsertAtPlaces
  <2> QED BY <2>1, <2>2, <2>3
<1> HIDE DEF w
<1>2. ASSUME NEW j \in 1 .. Len(list) + 1
      PROVE  w[j] = e \/ \E m \in DOMAIN list : w[j] = list[m]
  <2>1. CASE j < i
    <3>1. j \in 1 .. i - 1 /\ j \in DOMAIN list
      BY <2>1
    <3> QED BY <1>1, <3>1
  <2>2. CASE j = i
    BY <1>1, <2>2
  <2>3. CASE j > i
    <3>1. j - 1 \in i .. Len(list) /\ j - 1 \in DOMAIN list /\ j - 1 + 1 = j
      BY <2>3
    <3>2. w[j - 1 + 1] = list[j - 1]
      BY <1>1, <3>1
    <3> QED BY <3>1, <3>2
  <2>4. i \in Nat /\ j \in Nat
    OBVIOUS
  <2> QED BY <2>1, <2>2, <2>3, <2>4
<1>3. DOMAIN w = 1 .. Len(list) + 1
  BY <1>1
<1> QED BY <1>1, <1>2, <1>3 DEF w

LEMMA OfferFits ==
  ASSUME Fitting, Linked, TagsCommon, NEW u \in valid_nodes, NEW v \in valid_nodes, NEW k
  PROVE  /\ Offer(hier_adj[u], u, v, k) \in Seq([tag : Layer, id : valid_nodes])
         /\ \A j \in DOMAIN Offer(hier_adj[u], u, v, k) :
              Offer(hier_adj[u], u, v, k)[j].tag
                <= Return_Maximum_Common_Layer(u, Offer(hier_adj[u], u, v, k)[j].id)
<1> DEFINE E == [tag : Layer, id : valid_nodes]
           G == {e \in E : e.tag <= Return_Maximum_Common_Layer(u, e.id)}
           list == hier_adj[u]
           view == View(list, k)
           kept == Range(Robust_Prune_Add(u, Offered(u, v), <<>>, view \cup {v, 0}))
           diff == MinOf(kept \ {0})
           places == {j \in DOMAIN list : list[j].id = diff}
           j == MinOf(places)
           m == Return_Maximum_Common_Layer(u, v)
           replaced == [list EXCEPT ![j] = [tag |-> MinOf({@.tag, m}), id |-> v]]
<1> SUFFICES Offer(list, u, v, k) \in Seq(G)
  <2>1. Offer(list, u, v, k) \in Seq(E)
    <3> HIDE DEF list, E
    <3> QED OBVIOUS
  <2>2. ASSUME NEW i \in DOMAIN Offer(list, u, v, k)
        PROVE  Offer(list, u, v, k)[i].tag
                 <= Return_Maximum_Common_Layer(u, Offer(list, u, v, k)[i].id)
    <3>1. Offer(list, u, v, k)[i] \in G
      <4> HIDE DEF list, G
      <4> QED BY <2>2
    <3> HIDE DEF list, E
    <3> QED BY <3>1
  <2> QED BY <2>1, <2>2
<1>1. list \in Seq(G)
  <2>1. list \in Seq(E) /\ u \in Vertex
    BY DEF Linked, Fitting
  <2>2. \A i \in DOMAIN list : list[i] \in G
    <3> HIDE DEF E
    <3>1. \A i \in DOMAIN list : list[i] \in E
      BY <2>1
    <3> QED BY <3>1 DEF TagsCommon
  <2> HIDE DEF G, list, E
  <2>3. list \in [1 .. Len(list) -> G] /\ Len(list) \in Nat
    BY <2>1, <2>2
  <2> QED BY <2>3
<1>2. Offer(list, u, v, k)
        = IF v \in view \cup {0} \/ v \notin kept \/ places = {} THEN list
          ELSE IF list[j].tag <= m THEN replaced
          ELSE Reinsert(replaced, list[j], m)
  BY DEF Offer
<1>3. CASE places = {}
  <2> HIDE DEF list, view, kept, places, j, m, replaced, G
  <2> QED BY <1>1, <1>2, <1>3
<1>4. CASE places # {}
  <2>1. j \in DOMAIN list
    <3>1. places \in SUBSET Nat
      <4> HIDE DEF list, diff, G
      <4> QED BY <1>1
    <3>2. places \in SUBSET DOMAIN list
      OBVIOUS
    <3> HIDE DEF places
    <3> QED BY <1>4, <3>1, <3>2, MinOfLeast
  <2> HIDE DEF j
  <2>2. list[j] \in G
    <3> HIDE DEF list, G
    <3> QED BY <1>1, <2>1
  <2>3. PICK t : t = MinOf({list[j].tag, m})
    OBVIOUS
  <2>4. t \in Layer /\ t <= m
    <3>1. m \in Layer /\ list[j].tag \in Layer
      BY <2>2, CommonIsLayer
    <3>2. PICK top \in Nat : Layer = 0 .. top
      BY LoadedLayers DEF Fitting, Layer
    <3> HIDE DEF m, list
    <3>3. {list[j].tag, m} \in SUBSET Nat
      BY <3>1, <3>2
    <3> QED BY <2>3, <3>1, <3>3, MinOfLeast
  <2>5. [tag |-> t, id |-> v] \in G
    BY <2>4
  <2>6. replaced = [list EXCEPT ![j] = [tag |-> t, id |-> v]]
    BY <2>3
  <2>7. replaced \in Seq(G)
    <3> HIDE DEF list, replaced, G
    <3> QED BY <1>1, <2>1, <2>5, <2>6
  <2>8. Reinsert(replaced, list[j], m) \in Seq(G)
    <3> DEFINE above == {i \in DOMAIN replaced : replaced[i].tag > m}
               place == {i \in above : Cardinality({n \in above : n <= i}) = Degree - 1}
    <3>1. Reinsert(replaced, list[j], m)
            = IF place = {} THEN replaced ELSE InsertAt(replaced, MinOf(place) + 1, list[j])
      BY DEF Reinsert
    <3>2. place \in SUBSET (1 .. Len(replaced)) /\ Len(replaced) \in Nat
      <4> HIDE DEF replaced, G, m
      <4> QED BY <2>7
    <3> HIDE DEF place, replaced, list, G, m
    <3>3. CASE place = {}
      BY <2>7, <3>1, <3>3
    <3>4. CASE place # {}
      <4>1. MinOf(place) \in place
        <5>1. place \in SUBSET Nat
          BY <3>2
        <5> QED BY <3>4, <5>1, MinOfLeast
      <4>2. MinOf(place) + 1 \in 1 .. Len(replaced) + 1
        <5>1. PICK p \in 1 .. Len(replaced) : p = MinOf(place)
          BY <3>2, <4>1
        <5> QED BY <3>2, <5>1
      <4>3. InsertAt(replaced, MinOf(place) + 1, list[j]) \in Seq(G)
        BY <2>2, <2>7, <4>2, InsertAtKeeps
      <4> QED BY <3>1, <3>4, <4>3
    <3> QED BY <3>3, <3>4
  <2> HIDE DEF list, view, kept, places, m, replaced, G
  <2> QED BY <1>1, <1>2, <2>7, <2>8
<1> QED BY <1>3, <1>4

-----------------------------------------------------------------------------
LEMMA InitAddInv == InitAdd => AddInv
<1> SUFFICES ASSUME InitAdd PROVE AddInv
  OBVIOUS
<1>1. input \in Inputs /\ InputOK(input)
  BY DynamicAssumption DEF InitAdd
<1>2. PICK top \in Nat : Layer = 0 .. top /\ 1 <= top
  BY <1>1, LoadedLayers DEF Layer
<1>3. \A v \in Vertex : v \notin input.complete[v]
  BY <1>1 DEF InputOK
<1>4. Fitting
  <2>1. /\ input.valid \subseteq valid_nodes /\ valid_nodes \subseteq Vertex
        /\ core_list \in [Vertex -> Layer] /\ DOMAIN compo_l = Vertex
    BY <1>1 DEF InitAdd, InputOK, Layer
  <2>2. /\ input.model = "truss" => \A v \in valid_nodes : core_list[v] # 1
        /\ \A v \in valid_nodes : DOMAIN compo_l[v] = 0 .. core_list[v]
        /\ \A v \in valid_nodes : \A k \in 0 .. core_list[v] :
             compo_l[v][k] \in DOMAIN input.sp_l_list[k]
    BY <1>1 DEF InitAdd, InputOK
  <2>3. /\ cur_graph_ori_adj \in [Vertex -> SUBSET Vertex]
        /\ \A v \in valid_nodes : cur_graph_ori_adj[v] \subseteq valid_nodes \ {v}
    BY <1>1, <1>3, <2>1 DEF InitAdd
  <2> QED BY <1>1, <2>1, <2>2, <2>3 DEF Fitting
<1>5. Linked
  BY <1>1 DEF InitAdd, InputOK, Linked, LinksOf, Layer
<1>6. Underway
  <2>1. input.add \in Seq((Vertex \ input.valid) \cup {NoVertex}) /\ NoVertex \notin Vertex
    BY <1>1, DynamicAssumption DEF InputOK
  <2>2. input.valid \subseteq Vertex
    BY <1>1 DEF InputOK
  <2>3. \A i \in DOMAIN input.add : input.add[i] \notin input.valid
    BY <2>1, <2>2
  <2>4. next \in 1 .. Len(input.add) + 1 /\ add_neighbors \in Seq(valid_nodes)
        /\ index \in 1 .. Len(add_neighbors) + 1
    BY <2>1 DEF InitAdd
  <2> QED BY <1>2, <2>3, <2>4 DEF InitAdd, Underway
<1>7. TagsCommon
  BY <1>1 DEF InitAdd, InputOK, TagsCommon, Return_Maximum_Common_Layer
<1>8. HomeIsNeighbours
  BY DEF InitAdd, HomeIsNeighbours, Inserted
<1> QED BY <1>4, <1>5, <1>6, <1>7, <1>8 DEF AddInv

LEMMA RegisterKeeps == AddInv /\ Register => AddInv'
<1> SUFFICES ASSUME AddInv, Register PROVE AddInv'
  OBVIOUS
<1> USE DEF AddInv
<1>1. PICK c \in Vertex : c = cur
  BY DEF Register
<1>2. PICK near : near = input.complete[c] \cap (valid_nodes \cup {c})
  OBVIOUS
<1>3. PICK core : core = App_Coreness(near)
  OBVIOUS
<1>4. PICK home : home = [k \in 0 .. core |-> HomeOf(near, k)]
  OBVIOUS
<1>5. /\ pc = "register" /\ next <= Len(input.add)
      /\ valid_nodes' = valid_nodes \cup {c}
      /\ cur_graph_ori_adj' = [cur_graph_ori_adj EXCEPT ![c] = near]
      /\ core_list' = [core_list EXCEPT ![c] = core]
      /\ compo_l' = [compo_l EXCEPT ![c] = home]
      /\ layer' = 0 /\ pc' = "search"
      /\ UNCHANGED <<input, hier_adj, next, add_neighbors, index>>
  BY <1>1, <1>2, <1>3, <1>4 DEF Register
<1>6. InputOK(input) /\ input \in Inputs
  BY DynamicAssumption DEF Fitting
<1>7. next \in DOMAIN input.add /\ Len(input.add) \in Nat
      /\ DOMAIN input.add = 1 .. Len(input.add)
  BY <1>5, <1>6 DEF Underway, InputOK
<1>8. c \notin valid_nodes /\ c = input.add[next]
  BY <1>1, <1>5, <1>7 DEF Underway, cur
<1>9. near \in SUBSET valid_nodes /\ near \in SUBSET Vertex
  BY <1>2, <1>6 DEF InputOK, Fitting
<1>10. PICK top \in Nat : Layer = 0 .. top
  BY LoadedLayers DEF Fitting, Layer
<1>11. /\ core \in 0 .. top
       /\ input.model = "truss" => core # 1
       /\ (\E p \in near : core_list[p] > 0) => \E p \in near : core <= core_list[p]
  BY <1>3, <1>9, <1>10, AppCorenessFits
<1>12. Layer' = Layer
  BY <1>5 DEF Layer
<1>13. DOMAIN home = 0 .. core /\ \A k \in 0 .. core : home[k] = HomeOf(near, k)
  BY <1>4
<1>14. \A v \in valid_nodes : /\ core_list'[v] = core_list[v] /\ compo_l'[v] = compo_l[v]
                              /\ cur_graph_ori_adj'[v] = cur_graph_ori_adj[v]
  BY <1>5, <1>8 DEF Fitting
<1>15. core_list'[c] = core /\ compo_l'[c] = home /\ cur_graph_ori_adj'[c] = near
  BY <1>5 DEF Fitting
<1>16. Fitting'
  <2>1. /\ (input \in Inputs /\ input.valid \subseteq valid_nodes /\ valid_nodes \subseteq Vertex)'
        /\ (DOMAIN compo_l = Vertex)'
    BY <1>5 DEF Fitting
  <2>2. (core_list \in [Vertex -> Layer])'
    BY <1>5, <1>10, <1>11, <1>12 DEF Fitting
  <2>3. (input.model = "truss" => \A v \in valid_nodes : core_list[v] # 1)'
    BY <1>5, <1>11, <1>14, <1>15 DEF Fitting
  <2>4. (\A v \in valid_nodes : DOMAIN compo_l[v] = 0 .. core_list[v])'
    BY <1>5, <1>13, <1>14, <1>15 DEF Fitting
  <2>5. (\A v \in valid_nodes : \A k \in 0 .. core_list[v] :
           compo_l[v][k] \in DOMAIN input.sp_l_list[k])'
    <3>1. \A k \in 0 .. core : home[k] \in DOMAIN input.sp_l_list[k]
      BY <1>9, <1>10, <1>11, <1>13, HomeFits
    <3> QED BY <1>5, <1>14, <1>15, <3>1 DEF Fitting
  <2>6. (cur_graph_ori_adj \in [Vertex -> SUBSET Vertex])'
    BY <1>5, <1>9 DEF Fitting
  <2>7. (\A v \in valid_nodes : cur_graph_ori_adj[v] \subseteq valid_nodes \ {v})'
    BY <1>5, <1>8, <1>9, <1>14, <1>15 DEF Fitting
  <2> QED BY <2>1, <2>2, <2>3, <2>4, <2>5, <2>6, <2>7 DEF Fitting
<1>17. Linked'
  <2> DEFINE E == [tag : Layer, id : valid_nodes]
             F == [tag : Layer, id : valid_nodes']
  <2>1. E \subseteq F
    BY <1>5
  <2>2. hier_adj \in [Vertex -> Seq(E)]
    BY DEF Linked
  <2>3. F = [tag : Layer, id : valid_nodes]'
    BY <1>12
  <2> HIDE DEF E, F
  <2>4. hier_adj \in [Vertex -> Seq(F)]
    BY <2>1, <2>2
  <2>5. (\A v \in Vertex : v \notin valid_nodes => hier_adj[v] = <<>>)'
    BY <1>5 DEF Linked
  <2> QED BY <1>5, <2>3, <2>4, <2>5 DEF Linked
<1>18. Underway'
  <2>1. \A i \in DOMAIN input.add : i > next => input.add[i] \notin valid_nodes \cup {c}
    <3>1. IsInjective(input.add)
      BY <1>6 DEF InputOK
    <3>2. \A i \in DOMAIN input.add : i > next => input.add[i] # input.add[next]
      BY <1>7, <3>1 DEF IsInjective
    <3> QED BY <1>8, <3>2 DEF Underway
  <2>2. add_neighbors' \in Seq(valid_nodes') /\ (index \in 1 .. Len(add_neighbors) + 1)'
    BY <1>5 DEF Underway
  <2>3. (next \in 1 .. Len(input.add) + 1)' /\ pc' = "search" /\ (layer \in Layer)'
    BY <1>5, <1>10, <1>12 DEF Underway
  <2>4. (next <= Len(input.add) /\ cur \in valid_nodes /\ layer <= core_list[cur])'
    BY <1>5, <1>8, <1>11, <1>15 DEF cur
  <2>5. (\A i \in DOMAIN input.add :
          i > next \/ (i = next /\ pc = "register") => input.add[i] \notin valid_nodes)'
    BY <1>5, <2>1
  <2> QED BY <2>2, <2>3, <2>4, <2>5 DEF Underway
<1>19. TagsCommon'
  <2>1. ASSUME NEW v \in valid_nodes', NEW j \in DOMAIN hier_adj[v]
        PROVE  hier_adj[v][j].tag <= Return_Maximum_Common_Layer(v, hier_adj[v][j].id)'
    <3>1. CASE v = c
      <4>1. hier_adj[c] = <<>>
        BY <1>8 DEF Linked
      <4> QED BY <2>1, <3>1, <4>1
    <3>2. CASE v # c
      <4>1. v \in valid_nodes /\ v \in Vertex
        BY <1>5, <2>1, <3>2 DEF Fitting
      <4>2. hier_adj[v][j].id \in valid_nodes
        <5> DEFINE E == [tag : Layer, id : valid_nodes]
        <5>1. hier_adj[v] \in Seq(E)
          BY <4>1 DEF Linked
        <5>2. hier_adj[v][j] \in E
          <6> HIDE DEF E
          <6> QED BY <2>1, <5>1
        <5> QED BY <5>2
      <4>3. Return_Maximum_Common_Layer(v, hier_adj[v][j].id)'
              = Return_Maximum_Common_Layer(v, hier_adj[v][j].id)
        <5>1. PICK w \in valid_nodes : w = hier_adj[v][j].id
          BY <4>2
        <5>2. Highest(core_list', compo_l', v, w) = Highest(core_list, compo_l, v, w)
          BY <1>14, <4>1, HighestSame
        <5> QED BY <1>5, <5>1, <5>2 DEF Return_Maximum_Common_Layer
      <4> QED BY <2>1, <4>1, <4>3 DEF TagsCommon
    <3> QED BY <3>1, <3>2
  <2> QED BY <1>5, <2>1 DEF TagsCommon
<1>20. HomeIsNeighbours'
  <2>1. ASSUME NEW v \in Inserted', NEW k \in DOMAIN compo_l'[v],
               \E p \in cur_graph_ori_adj'[v] : core_list'[p] > 0
        PROVE  \E p \in cur_graph_ori_adj'[v] :
                 k \in DOMAIN compo_l'[p] /\ compo_l'[p][k] = compo_l'[v][k]
    <3>1. CASE v = c
      <4>1. \E p \in near : core_list[p] > 0
        BY <1>9, <1>14, <1>15, <2>1, <3>1
      <4>2. k \in 0 .. core /\ compo_l'[v][k] = HomeOf(near, k)
        BY <1>13, <1>15, <2>1, <3>1
      <4>3. PICK p \in near : core <= core_list[p]
        BY <1>11, <4>1
      <4>4. k \in Layer /\ k <= core_list[p]
        <5>1. core_list[p] \in 0 .. top
          BY <1>9, <1>10, <4>3 DEF Fitting
        <5> QED BY <1>10, <1>11, <4>2, <4>3, <5>1
      <4>5. PICK o \in near : k \in DOMAIN compo_l[o] /\ compo_l[o][k] = HomeOf(near, k)
        BY <1>9, <4>4, HomeFits
      <4> QED BY <1>9, <1>14, <1>15, <3>1, <4>2, <4>5
    <3>2. CASE v # c
      <4>1. v \in Inserted /\ v \in valid_nodes
        BY <1>5, <2>1, <3>2 DEF Inserted
      <4>2. cur_graph_ori_adj'[v] = cur_graph_ori_adj[v] /\ compo_l'[v] = compo_l[v]
        BY <1>14, <4>1
      <4>3. cur_graph_ori_adj[v] \subseteq valid_nodes
        BY <4>1 DEF Fitting
      <4>4. \E p \in cur_graph_ori_adj[v] : core_list[p] > 0
        BY <1>14, <2>1, <4>2, <4>3
      <4>5. PICK p \in cur_graph_ori_adj[v] :
              k \in DOMAIN compo_l[p] /\ compo_l[p][k] = compo_l[v][k]
        BY <2>1, <4>1, <4>2, <4>4 DEF HomeIsNeighbours
      <4> QED BY <1>14, <4>2, <4>3, <4>5
    <3> QED BY <3>1, <3>2
  <2> QED BY <2>1 DEF HomeIsNeighbours
<1> QED BY <1>16, <1>17, <1>18, <1>19, <1>20

LEMMA AdvanceKeeps ==
  ASSUME AddInv, Advance, pc \in {"search", "link"},
         UNCHANGED <<input, valid_nodes, cur_graph_ori_adj, core_list, compo_l,
                     hier_adj, add_neighbors, index>>
  PROVE  AddInv'
<1> USE DEF AddInv
<1>1. PICK top \in Nat : Layer = 0 .. top
  BY LoadedLayers DEF Fitting, Layer
<1>2. Layer' = Layer
  BY DEF Layer
<1>3. Fitting' /\ Linked'
  BY <1>2 DEF Fitting, Linked
<1>4. TagsCommon' /\ HomeIsNeighbours'
  BY DEF TagsCommon, HomeIsNeighbours, Return_Maximum_Common_Layer, Inserted
<1>5. Len(input.add) \in Nat /\ DOMAIN input.add = 1 .. Len(input.add)
  BY DynamicAssumption DEF Fitting, InputOK
<1>6. core_list[cur] \in 0 .. top
  BY <1>1 DEF Fitting, Underway
<1>7. Underway'
  <2>1. CASE layer < core_list[cur]
    <3>1. layer' = layer + 1 /\ pc' = "search" /\ UNCHANGED next
      BY <2>1 DEF Advance
    <3>2. cur' = cur
      BY <3>1 DEF cur
    <3>3. layer' \in Layer /\ layer' <= core_list[cur]
      BY <1>1, <1>6, <2>1, <3>1 DEF Underway
    <3> QED BY <1>2, <3>1, <3>2, <3>3 DEF Underway
  <2>2. CASE ~(layer < core_list[cur])
    <3>1. next' = next + 1 /\ pc' = "register" /\ UNCHANGED layer
      BY <2>2 DEF Advance
    <3>2. next' \in 1 .. Len(input.add) + 1
      BY <1>5, <3>1 DEF Underway
    <3>3. \A i \in DOMAIN input.add :
            i > next' \/ (i = next' /\ pc' = "register") => input.add[i] \notin valid_nodes
      BY <1>5, <3>1 DEF Underway
    <3> QED BY <1>2, <3>1, <3>2, <3>3 DEF Underway
  <2> QED BY <2>1, <2>2
<1> QED BY <1>3, <1>4, <1>7

LEMMA InsertKeeps == AddInv /\ Insert => AddInv'
<1> SUFFICES ASSUME AddInv, Insert PROVE AddInv'
  OBVIOUS
<1> USE DEF AddInv
<1> DEFINE E == [tag : Layer, id : valid_nodes]
<1>1. PICK c \in valid_nodes : c = cur
  BY DEF Insert, Underway
<1>2. c \in Vertex /\ valid_nodes \in SUBSET Vertex /\ hier_adj[c] \in Seq(E)
  BY DEF Fitting, Linked
<1>3. PICK front : front =
        IF layer = 0 THEN <<>>
        ELSE Listed(hier_adj[c], {j \in DOMAIN hier_adj[c] : Carries(hier_adj[c][j], layer)})
  OBVIOUS
<1>4. front \in Seq(valid_nodes)
  <2> DEFINE carriers == {j \in DOMAIN hier_adj[c] : Carries(hier_adj[c][j], layer)}
  <2>1. Listed(hier_adj[c], carriers) \in Seq(valid_nodes)
    <3>1. carriers \in SUBSET DOMAIN hier_adj[c]
      OBVIOUS
    <3> HIDE DEF carriers
    <3> QED BY <1>2, <3>1, ListedIds
  <2>2. <<>> \in Seq(valid_nodes)
    OBVIOUS
  <2> HIDE DEF carriers
  <2> QED BY <1>3, <2>1, <2>2 DEF carriers
<1>5. Search_Add(c, layer) \in SUBSET valid_nodes
  <2>1. layer \in 0 .. core_list[c]
    <3>1. PICK top \in Nat : Layer = 0 .. top
      BY LoadedLayers DEF Fitting, Layer
    <3>2. layer \in 0 .. top /\ layer <= core_list[c] /\ core_list[c] \in 0 .. top
      BY <1>1, <1>2, <3>1 DEF Fitting, Underway, Insert
    <3> QED BY <3>2
  <2> QED BY <2>1, SearchIndexed
<1>6. PICK neighbors \in Seq(valid_nodes) :
        neighbors = Robust_Prune_Add(c, Cal_Dist[c], front, Search_Add(c, layer))
  BY <1>2, <1>4, <1>5, InDistances, PruneAdds
<1>7. PICK new : new = SubSeq(neighbors, Len(front) + 1, Len(neighbors))
  OBVIOUS
<1>8. new \in Seq(valid_nodes)
  BY <1>4, <1>6, <1>7
<1>9. PICK more : more = [i \in DOMAIN new |-> Entry(c, new[i])]
  OBVIOUS
<1>10. /\ pc = "search" /\ add_neighbors' = neighbors
       /\ hier_adj' = [hier_adj EXCEPT ![c] = @ \o more]
       /\ index' = 1 /\ pc' = "link"
       /\ UNCHANGED <<input, valid_nodes, cur_graph_ori_adj, core_list, compo_l, next, layer>>
  BY <1>1, <1>3, <1>6, <1>7, <1>9 DEF Insert
<1>11. PICK list : list = hier_adj[c] \o more
  OBVIOUS
<1>12. list \in Seq(E) /\ \A j \in DOMAIN list :
         list[j].tag <= Return_Maximum_Common_Layer(c, list[j].id)
  <2> DEFINE G == {e \in E : e.tag <= Return_Maximum_Common_Layer(c, e.id)}
  <2>1. hier_adj[c] \in Seq(G)
    <3>1. \A j \in DOMAIN hier_adj[c] : hier_adj[c][j] \in G
      <4>1. \A j \in DOMAIN hier_adj[c] : hier_adj[c][j] \in E
        <5> HIDE DEF E
        <5> QED BY <1>2
      <4> HIDE DEF E
      <4> QED BY <4>1 DEF TagsCommon
    <3> HIDE DEF G, E
    <3>2. hier_adj[c] \in [1 .. Len(hier_adj[c]) -> G] /\ Len(hier_adj[c]) \in Nat
      BY <1>2, <3>1
    <3> QED BY <3>2
  <2>2. \A w \in valid_nodes : Entry(c, w) \in G
    <3> TAKE w \in valid_nodes
    <3>1. PICK m \in Layer : m = Return_Maximum_Common_Layer(c, w)
      BY CommonIsLayer
    <3>2. m <= m
      <4>1. PICK top \in Nat : Layer = 0 .. top
        BY LoadedLayers DEF Fitting, Layer
      <4> QED BY <4>1
    <3> QED BY <3>1, <3>2 DEF Entry
  <2>3. more \in Seq(G)
    <3>1. DOMAIN new = 1 .. Len(new) /\ Len(new) \in Nat /\ \A i \in DOMAIN new : new[i] \in valid_nodes
      BY <1>8
    <3> HIDE DEF G
    <3>2. more \in [1 .. Len(new) -> G]
      BY <1>9, <2>2, <3>1
    <3> QED BY <3>1, <3>2
  <2>4. list \in Seq(G)
    <3> HIDE DEF G
    <3> QED BY <1>11, <2>1, <2>3
  <2>5. list \in Seq(E)
    <3>1. G \subseteq E
      OBVIOUS
    <3> HIDE DEF G, E
    <3> QED BY <2>4, <3>1
  <2>6. \A j \in DOMAIN list : list[j] \in G
    <3> HIDE DEF G
    <3> QED BY <2>4
  <2> HIDE DEF E
  <2> QED BY <2>5, <2>6
<1>13. hier_adj' = [hier_adj EXCEPT ![c] = list]
  BY <1>10, <1>11
<1>14. Linked' /\ TagsCommon'
  <2>1. UNCHANGED <<input, valid_nodes, core_list, compo_l>>
    BY <1>10
  <2> QED BY <1>12, <1>13, <2>1, ListChanges
<1>15. Layer' = Layer /\ cur' = cur
  BY <1>10 DEF Layer, cur
<1>16. Fitting' /\ HomeIsNeighbours'
  BY <1>10, <1>15 DEF Fitting, HomeIsNeighbours, Inserted
<1>17. Underway'
  <2>1. add_neighbors' \in Seq(valid_nodes') /\ (index \in 1 .. Len(add_neighbors) + 1)'
    BY <1>6, <1>10
  <2> QED BY <1>10, <1>15, <2>1 DEF Underway
<1> QED BY <1>14, <1>16, <1>17

LEMMA OffersKeep == AddInv /\ Make_Edge_Add => AddInv'
<1> SUFFICES ASSUME AddInv, Make_Edge_Add PROVE AddInv'
  OBVIOUS
<1> USE DEF AddInv
<1>1. PICK u \in valid_nodes : u = add_neighbors[index]
  BY DEF Make_Edge_Add, Underway
<1>2. cur \in valid_nodes
  BY DEF Make_Edge_Add, Underway
<1>3. PICK list : list = Offer(hier_adj[u], u, cur, layer)
  OBVIOUS
<1>4. /\ list \in Seq([tag : Layer, id : valid_nodes])
      /\ \A j \in DOMAIN list : list[j].tag <= Return_Maximum_Common_Layer(u, list[j].id)
  BY <1>2, <1>3, OfferFits
<1>5. hier_adj' = [hier_adj EXCEPT ![u] = list]
  BY <1>1, <1>3 DEF Make_Edge_Add
<1>6. /\ pc = "link" /\ index <= Len(add_neighbors) /\ index' = index + 1
      /\ UNCHANGED <<input, valid_nodes, cur_graph_ori_adj, core_list, compo_l,
                     next, layer, add_neighbors, pc>>
  BY DEF Make_Edge_Add
<1>7. Linked' /\ TagsCommon'
  <2>1. UNCHANGED <<input, valid_nodes, core_list, compo_l>>
    BY <1>6
  <2> QED BY <1>4, <1>5, <2>1, ListChanges
<1>8. Layer' = Layer /\ cur' = cur
  BY <1>6 DEF Layer, cur
<1>9. Fitting' /\ HomeIsNeighbours'
  BY <1>6, <1>8 DEF Fitting, HomeIsNeighbours, Inserted
<1>10. Underway'
  <2>1. (index \in 1 .. Len(add_neighbors) + 1)'
    BY <1>6 DEF Underway
  <2> QED BY <1>6, <1>8, <2>1 DEF Underway
<1> QED BY <1>7, <1>9, <1>10

LEMMA NextAddInv == AddInv /\ [NextAdd]_varsAdd => AddInv'
<1> SUFFICES ASSUME AddInv, [NextAdd]_varsAdd PROVE AddInv'
  OBVIOUS
<1> DEFINE Rest == UNCHANGED <<input, valid_nodes, cur_graph_ori_adj, core_list, compo_l,
                               hier_adj, next, layer, add_neighbors, index>>
<1>1. CASE Register
  BY <1>1, RegisterKeeps
<1>2. ASSUME Rest, pc' = pc \/ pc' \in {"thrown", "end"} PROVE AddInv'
  <2>1. Layer' = Layer /\ cur' = cur
    BY <1>2 DEF Layer, cur
  <2>2. Fitting' /\ Linked'
    BY <1>2, <2>1 DEF AddInv, Fitting, Linked
  <2>3. TagsCommon' /\ HomeIsNeighbours'
    BY <1>2 DEF AddInv, TagsCommon, HomeIsNeighbours, Return_Maximum_Common_Layer, Inserted
  <2>4. Underway'
    BY <1>2, <2>1 DEF AddInv, Underway
  <2> QED BY <2>2, <2>3, <2>4 DEF AddInv
<1>3. CASE Unknown
  BY <1>2, <1>3 DEF Unknown
<1>4. CASE Insert
  BY <1>4, InsertKeeps
<1>5. CASE Found
  BY <1>5, AdvanceKeeps DEF Found
<1>6. CASE Make_Edge_Add
  BY <1>6, OffersKeep
<1>7. CASE LayerDone
  BY <1>7, AdvanceKeeps DEF LayerDone
<1>8. CASE Finish
  BY <1>2, <1>8 DEF Finish
<1>9. CASE UNCHANGED varsAdd
  BY <1>2, <1>9 DEF varsAdd
<1> QED BY <1>1, <1>3, <1>4, <1>5, <1>6, <1>7, <1>8, <1>9 DEF NextAdd, TerminatedAdd

(* What is inserted fits the layers and the components of the loaded       *)
(* index, for every graph, index and sequence of new ids.                  *)
THEOREM LayersFitCorrect == SpecAdd => []LayersFit
<1>1. AddInv => LayersFit
  <2> SUFFICES ASSUME AddInv PROVE LayersFit
    OBVIOUS
  <2> USE DEF AddInv
  <2>1. \A v \in valid_nodes : /\ DOMAIN compo_l[v] = 0 .. core_list[v]
                               /\ \A k \in DOMAIN compo_l[v] : compo_l[v][k] \in DOMAIN input.sp_l_list[k]
    BY DEF Fitting
  <2>2. \A v \in Vertex : Range(hier_adj[v]) \subseteq [tag : Layer, id : valid_nodes]
    <3> DEFINE E == [tag : Layer, id : valid_nodes]
    <3>1. \A v \in Vertex : hier_adj[v] \in Seq(E)
      BY DEF Linked
    <3> HIDE DEF E
    <3>2. \A v \in Vertex : Range(hier_adj[v]) \subseteq E
      BY <3>1 DEF Range
    <3> QED BY <3>2 DEF E
  <2>3. Range(add_neighbors) \subseteq valid_nodes
    BY DEF Underway, Range
  <2> QED BY <2>1, <2>2, <2>3 DEF LayersFit, Fitting, Underway
<1> QED BY InitAddInv, NextAddInv, <1>1, PTL DEF SpecAdd

(* An inserted vertex shares the component of one of its neighbours in     *)
(* each of its layers.                                                     *)
THEOREM HomeIsNeighboursCorrect == SpecAdd => []HomeIsNeighbours
<1>1. AddInv => HomeIsNeighbours
  BY DEF AddInv
<1> QED BY InitAddInv, NextAddInv, <1>1, PTL DEF SpecAdd

(* No link is tagged above the layers its ends share, whatever was         *)
(* replaced and put back.                                                  *)
THEOREM TagsCommonCorrect == SpecAdd => []TagsCommon
<1>1. AddInv => TagsCommon
  BY DEF AddInv
<1> QED BY InitAddInv, NextAddInv, <1>1, PTL DEF SpecAdd

-----------------------------------------------------------------------------
(* When the ends of an offered link share the layer it is offered in, a    *)
(* layer they do not share keeps its view of the list, if that is full: an *)
(* entry that gives way is one that the layer of the offer sees, so that   *)
(* it is among the first that carry the higher layer, too, and the place   *)
(* it is put back to is among the first again.                             *)
LEMMA OfferViews ==
  ASSUME Fitting, Linked, TagsCommon, NEW u \in valid_nodes, NEW v \in valid_nodes,
         NEW l \in Layer, NEW k \in Layer,
         l <= Return_Maximum_Common_Layer(u, v), k > Return_Maximum_Common_Layer(u, v),
         Degree # 1, Cardinality(View(hier_adj[u], k)) = Degree
  PROVE  View(Offer(hier_adj[u], u, v, l), k) = View(hier_adj[u], k)
<1> DEFINE E == [tag : Layer, id : valid_nodes]
           list == hier_adj[u]
           view == View(list, l)
           kept == Range(Robust_Prune_Add(u, Offered(u, v), <<>>, view \cup {v, 0}))
           diff == MinOf(kept \ {0})
           places == {j \in DOMAIN list : list[j].id = diff}
           j == MinOf(places)
           m == Return_Maximum_Common_Layer(u, v)
           r == [tag |-> MinOf({list[j].tag, m}), id |-> v]
           R == [list EXCEPT ![j] = r]
           e == list[j]
<1>1. list \in Seq(E) /\ u \in Vertex /\ v \in Vertex /\ 0 \in Vertex /\ valid_nodes \in SUBSET Vertex
  BY DynamicAssumption DEF Linked, Fitting
<1>2. /\ Layer \in SUBSET Nat /\ m \in Nat /\ l \in Nat /\ k \in Nat /\ l <= m /\ m < k
      /\ Degree \in Nat /\ Degree >= 2 /\ m \in Layer
  <2>1. PICK top \in Nat : Layer = 0 .. top
    BY LoadedLayers DEF Fitting, Layer
  <2>2. m \in Layer
    BY CommonIsLayer
  <2> HIDE DEF m
  <2>3. Degree \in Nat /\ Degree >= 2
    BY DynamicAssumption
  <2>4. l <= m /\ k > m
    BY DEF m
  <2> QED BY <2>1, <2>2, <2>3, <2>4
<1>3. \A i \in DOMAIN list : /\ list[i] \in E /\ list[i].tag \in Nat
                             /\ list[i].tag <= Return_Maximum_Common_Layer(u, list[i].id)
  <2>1. \A i \in DOMAIN list : list[i] \in E
    <3> HIDE DEF E, list
    <3> QED BY <1>1
  <2>2. \A i \in DOMAIN list : list[i].tag <= Return_Maximum_Common_Layer(u, list[i].id)
    BY DEF TagsCommon
  <2> HIDE DEF list
  <2> QED BY <1>2, <2>1, <2>2
<1>4. Offer(list, u, v, l)
        = IF v \in view \cup {0} \/ v \notin kept \/ places = {} THEN list
          ELSE IF e.tag <= m THEN R ELSE Reinsert(R, e, m)
  BY DEF Offer
<1>5. kept \in SUBSET (view \cup {v, 0})
  <2> DEFINE V == view \cup {v, 0}
  <2>1. view \in SUBSET valid_nodes
    <3>1. \A i \in Seen(list, l) : list[i].id \in valid_nodes
      BY <1>3 DEF Seen
    <3> QED BY <3>1 DEF View
  <2>2. V \in SUBSET Vertex
    <3> HIDE DEF view
    <3> QED BY <1>1, <2>1
  <2> HIDE DEF V
  <2>3. <<>> \in Seq(V)
    OBVIOUS
  <2>4. Robust_Prune_Add(u, Offered(u, v), <<>>, V) \in Seq(V)
    BY <1>1, <2>2, <2>3, InDistances, PruneAdds
  <2>5. Range(Robust_Prune_Add(u, Offered(u, v), <<>>, V)) \in SUBSET V
    BY <2>4 DEF Range
  <2> QED BY <2>5 DEF V
<1>6. Cardinality(View(list, k)) = Degree
  OBVIOUS
<1> SUFFICES ASSUME v \notin view \cup {0}, v \in kept, places # {}
             PROVE  View(IF e.tag <= m THEN R ELSE Reinsert(R, e, m), k) = View(list, k)
  <2>1. View(Offer(list, u, v, l), k) = View(list, k)
    <3> HIDE DEF list, view, kept, places, e, R, m
    <3>1. CASE v \in view \cup {0} \/ v \notin kept \/ places = {}
      <4>1. Offer(list, u, v, l) = list
        BY <1>4, <3>1
      <4> QED BY <4>1
    <3>2. CASE ~(v \in view \cup {0} \/ v \notin kept \/ places = {})
      <4>1. Offer(list, u, v, l) = IF e.tag <= m THEN R ELSE Reinsert(R, e, m)
        BY <1>4, <3>2
      <4>2. View(IF e.tag <= m THEN R ELSE Reinsert(R, e, m), k) = View(list, k)
        BY <3>2
      <4> QED BY <4>1, <4>2
    <3> QED BY <3>1, <3>2
  <2> HIDE DEF view, kept, places
  <2> QED BY <2>1
<1> HIDE DEF view
<1>7. j \in DOMAIN list /\ list[j].id = diff /\ \A i \in places : j <= i
  <2>1. places \in SUBSET Nat
    <3> HIDE DEF diff, list, E
    <3> QED BY <1>1
  <2>2. j \in places /\ \A i \in places : j <= i
    <3> HIDE DEF places
    <3> QED BY <2>1, MinOfLeast
  <2> HIDE DEF j
  <2> QED BY <2>2
<1>8. kept \in SUBSET Nat /\ diff \in kept \ {0}
  <2>1. view \in SUBSET Nat /\ v \in Nat
    <3>1. \A i \in Seen(list, l) : list[i].id \in valid_nodes
      BY <1>3 DEF Seen
    <3>2. view \in SUBSET valid_nodes
      BY <3>1 DEF View, view
    <3>3. Vertex \in SUBSET Nat
      BY DynamicAssumption
    <3> QED BY <1>1, <3>2, <3>3
  <2> HIDE DEF kept
  <2>2. kept \in SUBSET Nat
    BY <1>5, <2>1
  <2>3. kept \ {0} # {} /\ kept \ {0} \in SUBSET Nat
    BY <2>2
  <2> QED BY <2>2, <2>3, MinOfLeast
<1> HIDE DEF kept, diff
<1>9. r \in E /\ ~Carries(r, k) /\ r.tag \in Nat /\ r.tag <= m
  <2>1. list[j].tag \in Layer
    BY <1>3, <1>7
  <2> HIDE DEF list, j, m
  <2>2. PICK t : t = MinOf({list[j].tag, m})
    OBVIOUS
  <2>3. t \in Layer /\ t \in Nat /\ t <= m
    <3>1. {list[j].tag, m} \in SUBSET Nat
      BY <1>2, <2>1
    <3> QED BY <1>2, <2>1, <2>2, <3>1, MinOfLeast
  <2>4. r = [tag |-> t, id |-> v]
    BY <2>2
  <2> QED BY <1>2, <2>3, <2>4 DEF Carries
<1> HIDE DEF r
<1>10. e \in E /\ e.tag \in Nat /\ (Carries(e, k) <=> e.tag >= k)
  <2> HIDE DEF list, j
  <2> QED BY <1>3, <1>7 DEF Carries
<1>11. ~Carries(e, k) => View(R, k) = View(list, k)
  <2> HIDE DEF E, j, list
  <2> QED BY <1>1, <1>7, <1>9, ViewReplaced
<1>12. CASE e.tag <= m
  <2>1. ~Carries(e, k)
    <3> HIDE DEF e, m
    <3> QED BY <1>2, <1>10, <1>12
  <2> HIDE DEF e, R, m, list
  <2> QED BY <1>11, <1>12, <2>1
<1>13. CASE e.tag > m
  <2>1. diff \in view
    <3>1. diff # v
      <4> HIDE DEF j, list
      <4> SUFFICES ASSUME diff = v PROVE FALSE
        OBVIOUS
      <4>1. e.tag <= Return_Maximum_Common_Layer(u, v)
        BY <1>3, <1>7
      <4> QED BY <1>2, <1>10, <1>13, <4>1
    <3> QED BY <1>5, <1>8, <3>1
  <2>2. PICK s \in Seen(list, l) : list[s].id = diff
    <3> HIDE DEF list
    <3> QED BY <2>1 DEF View, view
  <2>3. s \in DOMAIN list /\ s \in Nat /\ Count(list, s, l) <= Degree /\ j <= s
    <3>1. s \in DOMAIN list /\ Count(list, s, l) <= Degree
      <4> HIDE DEF list
      <4> QED BY SeenCount
    <3>2. s \in places
      <4> HIDE DEF list
      <4> QED BY <2>2, <3>1
    <3> HIDE DEF j, places, list, E
    <3> QED BY <1>1, <1>7, <3>1, <3>2
  <2>4. Count(list, j, k) <= Degree
    <3> HIDE DEF list, j, E
    <3>1. j \in Nat /\ j \in 0 .. s /\ DOMAIN list = 1 .. Len(list)
      BY <1>1, <1>7, <2>3
    <3>2. /\ Count(list, j, l) <= Count(list, s, l) /\ Count(list, j, l) \in Nat
          /\ Count(list, s, l) \in Nat /\ Count(list, j, k) \in Nat
      BY <1>1, <2>3, <3>1, CountTypes
    <3>3. Count(list, j, k) <= Count(list, j, l)
      <4> DEFINE A == {i \in 1 .. j : Carries(list[i], k)}
                 B == {i \in 1 .. j : Carries(list[i], l)}
      <4>1. \A i \in 1 .. j : i \in DOMAIN list
        BY <1>7, <3>1
      <4>2. \A i \in 1 .. j : Carries(list[i], k) => Carries(list[i], l)
        BY <1>2, <1>3, <4>1 DEF Carries
      <4>3. B \in SUBSET (1 .. j) /\ A \in SUBSET B
        BY <4>2
      <4> HIDE DEF A, B
      <4>4. IsFiniteSet(1 .. j)
        BY <3>1, FS_Interval
      <4>5. IsFiniteSet(B) /\ Cardinality(A) <= Cardinality(B)
        BY <4>3, <4>4, FS_Subset
      <4> QED BY <4>5 DEF A, B, Count
    <3> QED BY <1>2, <2>3, <3>2, <3>3
  <2> DEFINE above == {i \in DOMAIN R : R[i].tag > m}
             place == {i \in above : Cardinality({n \in above : n <= i}) = Degree - 1}
  <2>5. Reinsert(R, e, m) = IF place = {} THEN R ELSE InsertAt(R, MinOf(place) + 1, e)
    BY DEF Reinsert
  <2>6. /\ R \in Seq(E) /\ DOMAIN R = DOMAIN list /\ R[j] = r /\ Len(R) = Len(list)
        /\ DOMAIN list = 1 .. Len(list)
        /\ \A i \in DOMAIN list : i # j => R[i] = list[i]
    <3> HIDE DEF list, j, E
    <3> QED BY <1>1, <1>7, <1>9
  <2>7. above \in SUBSET (1 .. Len(R)) /\ IsFiniteSet(above) /\ Cardinality(above) \in Nat
    <3> HIDE DEF R, m
    <3>1. above \in SUBSET (1 .. Len(R)) /\ IsFiniteSet(1 .. Len(R))
      BY <2>6, FS_Interval
    <3> HIDE DEF above
    <3> QED BY <3>1, FS_Subset, FS_CardinalityType
  <2>8. Cardinality(above) >= Degree - 1
    <3> HIDE DEF R, m, list, j, E
    <3>1. Seen(list, k) \ {j} \in SUBSET above
      <4> SUFFICES ASSUME NEW i \in Seen(list, k), i # j PROVE i \in above
        OBVIOUS
      <4>1. i \in DOMAIN list /\ Carries(list[i], k)
        BY DEF Seen
      <4>2. R[i] = list[i] /\ list[i].tag > m
        BY <1>2, <1>3, <2>6, <4>1 DEF Carries
      <4> QED BY <2>6, <4>1, <4>2
    <3>2. IsFiniteSet(Seen(list, k))
      <4>1. Seen(list, k) \in SUBSET (1 .. Len(list))
        BY <2>6 DEF Seen
      <4>2. IsFiniteSet(1 .. Len(list))
        <5>1. 1 \in Int /\ Len(list) \in Int
          BY <1>1
        <5> QED BY <5>1, FS_Interval
      <4> QED BY <4>1, <4>2, FS_Subset
    <3>3. /\ IsFiniteSet(View(list, k))
          /\ Cardinality(View(list, k)) <= Cardinality(Seen(list, k))
      <4> DEFINE f == [i \in Seen(list, k) |-> list[i].id]
      <4>1. f \in Surjection(Seen(list, k), View(list, k))
        BY DEF Surjection, View
      <4> HIDE DEF f
      <4> QED BY <3>2, <4>1, FS_Surjection
    <3>4. Cardinality(Seen(list, k)) >= Degree /\ Cardinality(Seen(list, k)) \in Nat
      BY <1>2, <1>6, <3>2, <3>3, FS_CardinalityType
    <3>5. IsFiniteSet(Seen(list, k) \ {j}) /\ Cardinality(Seen(list, k) \ {j}) >= Degree - 1
      <4>1. CASE j \in Seen(list, k)
        <5>1. /\ IsFiniteSet(Seen(list, k) \ {j})
              /\ Cardinality(Seen(list, k) \ {j}) = Cardinality(Seen(list, k)) - 1
          BY <3>2, <4>1, FS_RemoveElement
        <5> QED BY <1>2, <3>4, <5>1
      <4>2. CASE j \notin Seen(list, k)
        <5>1. Seen(list, k) \ {j} = Seen(list, k)
          BY <4>2
        <5>2. Cardinality(Seen(list, k)) >= Degree - 1
          BY <1>2, <3>4
        <5> QED BY <3>2, <5>1, <5>2, Zenon
      <4> QED BY <4>1, <4>2
    <3> HIDE DEF above
    <3>6. Cardinality(Seen(list, k) \ {j}) <= Cardinality(above)
      BY <2>7, <3>1, FS_Subset
    <3>7. Cardinality(Seen(list, k) \ {j}) \in Nat
      BY <3>5, FS_CardinalityType
    <3> QED BY <1>2, <2>7, <3>5, <3>6, <3>7
  <2>9. place # {}
    <3> DEFINE f == [i \in above |-> i]
    <3> HIDE DEF R
    <3>1. Degree - 1 \in 1 .. Cardinality(above)
      BY <1>2, <2>7, <2>8
    <3>2. f \in [above -> Nat] /\ \A x, y \in above : f[x] = f[y] => x = y
      <4> HIDE DEF above
      <4> QED BY <2>7
    <3>3. \A a \in above : {n \in above : f[n] <= f[a]} = {n \in above : n <= a}
      <4> HIDE DEF above
      <4> QED OBVIOUS
    <3> HIDE DEF f, above
    <3>4. PICK a \in above : Rank(above, f, a) = Degree - 1
      BY <2>7, <3>1, <3>2, RankTaken
    <3> QED BY <3>3, <3>4 DEF Rank
  <2>10. PICK p : p = MinOf(place)
    OBVIOUS
  <2>11. p \in above /\ Cardinality({n \in above : n <= p}) = Degree - 1 /\ p \in 1 .. Len(R)
    <3> HIDE DEF above
    <3>1. place \in SUBSET Nat
      <4>1. place \in SUBSET above
        OBVIOUS
      <4> HIDE DEF place
      <4> QED BY <2>7, <4>1
    <3>2. p \in place
      <4> HIDE DEF place
      <4> QED BY <2>9, <2>10, <3>1, MinOfLeast
    <3> QED BY <2>7, <3>2
  <2>12. Count(R, p, k) < Degree
    <3> DEFINE A == {i \in 1 .. p : Carries(R[i], k)}
               B == {n \in above : n <= p}
    <3>1. \A i \in 1 .. p : i \in DOMAIN list
      <4> HIDE DEF R, above
      <4> QED BY <2>6, <2>11
    <3>2. ASSUME NEW i \in 1 .. p, Carries(R[i], k) PROVE i \in B
      <4>1. i # j
        <5> HIDE DEF R
        <5> QED BY <1>9, <2>6, <3>2
      <4>2. R[i] = list[i] /\ i \in DOMAIN list
        BY <2>6, <3>1, <3>2, <4>1
      <4>3. R[i].tag > m
        <5> HIDE DEF R, list, m
        <5> QED BY <1>2, <1>3, <3>2, <4>2 DEF Carries
      <4> HIDE DEF R
      <4> QED BY <2>6, <4>2, <4>3
    <3>3. A \in SUBSET B
      <4> HIDE DEF B, R
      <4> QED BY <3>2
    <3> HIDE DEF above
    <3>4. IsFiniteSet(B) /\ B \in SUBSET above
      <4>1. B \in SUBSET above
        OBVIOUS
      <4> HIDE DEF B
      <4> QED BY <2>7, <4>1, FS_Subset
    <3> HIDE DEF A, B, R
    <3>5. Cardinality(A) <= Cardinality(B) /\ Cardinality(A) \in Nat
      BY <3>3, <3>4, FS_Subset, FS_CardinalityType
    <3>6. Cardinality(B) = Degree - 1
      BY <2>11 DEF B
    <3> QED BY <1>2, <3>5, <3>6 DEF Count, A
  <2>13. p \in Nat /\ p + 1 \in 1 .. Len(R) + 1 /\ p + 1 \in 1 .. Len(list) + 1 /\ p + 1 - 1 = p
    <3> HIDE DEF R, above, list, E
    <3> QED BY <2>6, <2>11
  <2>14. View(InsertAt(R, p + 1, e), k) = View(list, k)
    <3>1. CASE ~Carries(e, k)
      <4>1. View(R, k) = View(list, k)
        <5> HIDE DEF R, e, list
        <5> QED BY <1>11, <3>1
      <4>2. View(InsertAt(R, p + 1, e), k) = View(R, k)
        <5> HIDE DEF R, e, E, list
        <5> QED BY <1>10, <2>6, <2>13, <3>1, ViewInserted
      <4> HIDE DEF R, e, list
      <4> QED BY <4>1, <4>2
    <3>2. CASE Carries(e, k)
      <4>1. PICK q \in 1 .. Len(list) + 1 : q = p + 1 /\ q - 1 = p
        <5> HIDE DEF list
        <5> QED BY <2>13
      <4>2. Count(R, q - 1, k) < Degree
        <5> HIDE DEF R
        <5> QED BY <2>12, <4>1
      <4> HIDE DEF list, j, E
      <4>3. View(InsertAt(R, q, e), k) = View(list, k)
        BY <1>1, <1>2, <1>7, <1>9, <2>4, <3>2, <4>2, ViewExchanged
      <4> HIDE DEF R, e
      <4> QED BY <4>1, <4>3
    <3> QED BY <3>1, <3>2
  <2>15. ~(e.tag <= m)
    <3> HIDE DEF e, m
    <3> QED BY <1>2, <1>10, <1>13
  <2> HIDE DEF R, e, m, list, place
  <2> QED BY <2>5, <2>9, <2>10, <2>14, <2>15
<1>14. e.tag <= m \/ e.tag > m
  <2> HIDE DEF e, m
  <2> QED BY <1>2, <1>10
<1> QED BY <1>12, <1>13, <1>14

(* Where views are full, a step of the linking changes none that the new   *)
(* vertex does not belong to.                                              *)
LEMMA LinkingKeepsViews ==
  ASSUME Degree # 1, AddInv, OffersShared, [NextAdd]_varsAdd, pc = "link",
         NEW u \in valid_nodes \ {cur}, NEW k \in Layer,
         k > Return_Maximum_Common_Layer(u, cur), Cardinality(View(hier_adj[u], k)) = Degree
  PROVE  View(hier_adj'[u], k) = View(hier_adj[u], k)
<1>1. CASE Make_Edge_Add
  <2>1. PICK v \in valid_nodes : v = add_neighbors[index] /\ v \in Range(add_neighbors)
    BY <1>1 DEF AddInv, Make_Edge_Add, Underway, Range
  <2>2. hier_adj' = [hier_adj EXCEPT ![v] = Offer(hier_adj[v], v, cur, layer)]
    BY <1>1, <2>1 DEF Make_Edge_Add
  <2>3. v \in Vertex /\ u \in Vertex /\ cur \in valid_nodes /\ layer \in Layer
    BY DEF AddInv, Fitting, Underway
  <2>4. CASE u # v
    <3>1. hier_adj'[u] = hier_adj[u]
      BY <2>2, <2>3, <2>4 DEF AddInv, Linked
    <3> QED BY <3>1
  <2>5. CASE u = v
    <3>1. hier_adj'[u] = Offer(hier_adj[u], u, cur, layer)
      BY <2>2, <2>3, <2>5 DEF AddInv, Linked
    <3>2. layer <= Return_Maximum_Common_Layer(u, cur)
      BY <2>1, <2>5 DEF OffersShared
    <3>3. View(Offer(hier_adj[u], u, cur, layer), k) = View(hier_adj[u], k)
      BY <2>3, <3>2, OfferViews DEF AddInv
    <3> QED BY <3>1, <3>3
  <2> QED BY <2>4, <2>5
<1>2. CASE UNCHANGED hier_adj
  BY <1>2
<1>3. Make_Edge_Add \/ UNCHANGED hier_adj
  BY DEF NextAdd, varsAdd, Register, Unknown, Insert, Found, LayerDone, Finish, TerminatedAdd
<1> QED BY <1>1, <1>2, <1>3

(* While vertices are offered only to those that share the layer, and for  *)
(* lists of more than one neighbour, no insertion changes a full view of a *)
(* layer the new vertex is not in.                                         *)
THEOREM FullViewsKeptCorrect == Degree # 1 => (SpecAdd /\ []OffersShared => FullViewsKept)
<1>1. ASSUME Degree # 1, AddInv, OffersShared, [NextAdd]_varsAdd
      PROVE  [pc = "link" => \A u \in valid_nodes \ {cur} : \A k \in Layer :
                LET before == View(hier_adj[u], k)
                IN /\ k > Return_Maximum_Common_Layer(u, cur)
                   /\ Cardinality(before) = Degree
                   => View(hier_adj'[u], k) = before]_varsAdd
  BY <1>1, LinkingKeepsViews
<1> SUFFICES ASSUME Degree # 1 PROVE SpecAdd /\ []OffersShared => FullViewsKept
  OBVIOUS
<1>2. AddInv /\ OffersShared /\ [NextAdd]_varsAdd
        => [pc = "link" => \A u \in valid_nodes \ {cur} : \A k \in Layer :
                LET before == View(hier_adj[u], k)
                IN /\ k > Return_Maximum_Common_Layer(u, cur)
                   /\ Cardinality(before) = Degree
                   => View(hier_adj'[u], k) = before]_varsAdd
  BY <1>1
<1> QED BY InitAddInv, NextAddInv, <1>2, PTL DEF SpecAdd, FullViewsKept

-----------------------------------------------------------------------------
(* When components are nested, offers are made only where they are shared: *)
(* a search that starts in the component follows links of the layer or of  *)
(* higher ones, and these do not leave it.                                 *)
EntriesAtHome ==
  \A k \in Layer : \A c \in DOMAIN input.sp_l_list[k] :
    LET v == input.sp_l_list[k][c]
    IN v \in valid_nodes /\ k <= core_list[v] /\ compo_l[v][k] = c

LEMMA HighestMeets ==
  ASSUME NEW core, NEW compo, NEW a, NEW b, core[a] \in Nat, core[b] \in Nat
  PROVE  /\ Highest(core, compo, a, b) = Highest(core, compo, b, a)
         /\ Highest(core, compo, a, b) \in Nat
         /\ Highest(core, compo, a, b) = 0 \/
              LET h == Highest(core, compo, a, b)
              IN h \in 0 .. MinOf({core[a], core[b]}) /\ compo[a][h] = compo[b][h]
         /\ \A k \in Nat : k <= core[a] /\ k <= core[b] /\ compo[a][k] = compo[b][k]
                             => k <= Highest(core, compo, a, b)
<1> DEFINE least == MinOf({core[a], core[b]})
           S == {0} \cup {k \in 0 .. least : compo[a][k] = compo[b][k]}
<1>1. least \in Nat /\ least \in {core[a], core[b]}
  BY MinOfLeast
<1>2. Highest(core, compo, a, b) = MaxOf(S)
  BY DEF Highest
<1>3. Highest(core, compo, a, b) = Highest(core, compo, b, a)
  <2>1. {core[a], core[b]} = {core[b], core[a]}
    OBVIOUS
  <2>2. {k \in 0 .. least : compo[a][k] = compo[b][k]} = {k \in 0 .. least : compo[b][k] = compo[a][k]}
    OBVIOUS
  <2> QED BY <2>1, <2>2 DEF Highest
<1>4. S \in SUBSET Nat /\ S # {} /\ IsFiniteSet(S)
  <2> HIDE DEF least
  <2>1. \A k \in S : k \in 0 .. least
    BY <1>1
  <2>2. S # {}
    OBVIOUS
  <2> HIDE DEF S
  <2>3. S \in SUBSET (0 .. least)
    BY <2>1
  <2>4. IsFiniteSet(0 .. least)
    BY <1>1, FS_Interval
  <2>5. IsFiniteSet(S)
    BY <2>3, <2>4, FS_Subset
  <2>6. 0 .. least \in SUBSET Nat
    BY <1>1
  <2> QED BY <2>2, <2>3, <2>5, <2>6
<1>5. MaxOf(S) \in S /\ \A n \in S : n <= MaxOf(S)
  <2> HIDE DEF S
  <2> QED BY <1>4, MaxOfGreatest
<1>6. ASSUME NEW k \in Nat, k <= core[a], k <= core[b], compo[a][k] = compo[b][k]
      PROVE  k <= Highest(core, compo, a, b)
  <2>1. k \in 0 .. least
    <3> HIDE DEF least
    <3> QED BY <1>1, <1>6
  <2>2. k \in S
    <3> HIDE DEF least
    <3> QED BY <1>6, <2>1
  <2> HIDE DEF S
  <2> QED BY <1>2, <1>5, <2>2
<1>7. PICK h : h = MaxOf(S)
  OBVIOUS
<1>8. h \in Nat /\ (h = 0 \/ (h \in 0 .. least /\ compo[a][h] = compo[b][h]))
  <2>1. h \in S
    <3> HIDE DEF S
    <3> QED BY <1>5, <1>7
  <2> HIDE DEF least
  <2> QED BY <1>1, <2>1
<1> QED BY <1>2, <1>3, <1>6, <1>7, <1>8

LEMMA SearchAtHome ==
  ASSUME AddInv, EntriesAtHome, NestedHomes, NEW q \in valid_nodes,
         NEW k \in 0 .. core_list[q], k # 0, NEW w \in Search_Add(q, k)
  PROVE  w \in valid_nodes /\ k <= Return_Maximum_Common_Layer(w, q)
<1> USE DEF AddInv
<1>1. PICK top \in Nat : Layer = 0 .. top
  BY LoadedLayers DEF Fitting, Layer
<1>2. /\ q \in Vertex /\ valid_nodes \in SUBSET Vertex /\ k \in Layer /\ k \in Nat
      /\ \A v \in valid_nodes : core_list[v] \in Nat
      /\ compo_l[q][k] \in DOMAIN input.sp_l_list[k]
  BY <1>1 DEF Fitting
<1> DEFINE V == {v \in valid_nodes : k <= core_list[v] /\ compo_l[v][k] = compo_l[q][k]}
<1>3. V \in SUBSET Vertex /\ input.sp_l_list[k][compo_l[q][k]] \in V
  BY <1>2 DEF EntriesAtHome
<1>4. ASSUME NEW c \in V
      PROVE  Listed(hier_adj[c], Seen(hier_adj[c], k)) \in Seq(V)
  <2> DEFINE E == [tag : Layer, id : valid_nodes]
             list == hier_adj[c]
  <2>1. c \in valid_nodes /\ c \in Vertex
    BY <1>2
  <2>2. list \in Seq(E) /\ Seen(list, k) \in SUBSET DOMAIN list
    BY <2>1 DEF Linked, Seen
  <2>3. ASSUME NEW j \in Seen(list, k) PROVE list[j].id \in V
    <3>1. list[j] \in E /\ list[j].tag >= k /\ j \in DOMAIN list
      <4> HIDE DEF E, list
      <4> QED BY <2>2 DEF Seen, Carries
    <3>2. PICK i : i = list[j].id
      OBVIOUS
    <3>3. PICK h : h = Highest(core_list, compo_l, c, i)
      OBVIOUS
    <3>4. i \in valid_nodes /\ list[j].tag \in Nat /\ list[j].tag <= h
      <4>1. i \in valid_nodes /\ list[j].tag \in Layer
        BY <3>1, <3>2
      <4>2. list[j].tag <= h
        BY <2>1, <3>1, <3>2, <3>3 DEF TagsCommon, Return_Maximum_Common_Layer
      <4> QED BY <1>1, <4>1, <4>2
    <3>5. core_list[c] \in Nat /\ core_list[i] \in Nat
      BY <1>2, <2>1, <3>4
    <3>6. /\ h \in Nat
          /\ h = 0 \/ (h \in 0 .. MinOf({core_list[c], core_list[i]}) /\ compo_l[c][h] = compo_l[i][h])
      BY <3>3, <3>5, HighestMeets
    <3> HIDE DEF E, list, V
    <3>7. h # 0 /\ k \in 0 .. h
      BY <1>2, <3>1, <3>4, <3>6
    <3>8. compo_l[c][k] = compo_l[i][k]
      BY <2>1, <3>4, <3>6, <3>7 DEF NestedHomes
    <3>9. h <= core_list[i]
      BY <3>3, <3>5, HighestBounds
    <3>10. k <= core_list[i]
      BY <3>5, <3>6, <3>7, <3>9
    <3> QED BY <3>2, <3>4, <3>8, <3>10 DEF V
  <2> HIDE DEF E, V
  <2> QED BY <2>2, <2>3, ListedAmong
<1>5. Search_Add(q, k) \in SUBSET V
  <2> HIDE DEF V
  <2> QED BY <1>2, <1>3, <1>4, SearchStays
<1>6. w \in valid_nodes /\ k <= core_list[w] /\ compo_l[w][k] = compo_l[q][k]
  BY <1>5
<1>7. k <= core_list[q] /\ core_list[q] \in Nat /\ core_list[w] \in Nat
  BY <1>2, <1>6
<1>8. k <= Highest(core_list, compo_l, w, q)
  BY <1>2, <1>6, <1>7, HighestMeets
<1> QED BY <1>6, <1>8 DEF Return_Maximum_Common_Layer

LEMMA InsertShares ==
  ASSUME AddInv, EntriesAtHome, NestedHomes, Insert
  PROVE  OffersShared'
<1> USE DEF AddInv
<1>1. PICK c \in valid_nodes : c = cur
  BY DEF Insert, Underway
<1>2. PICK top \in Nat : Layer = 0 .. top
  BY LoadedLayers DEF Fitting, Layer
<1>3. /\ c \in Vertex /\ valid_nodes \in SUBSET Vertex /\ layer \in Nat
      /\ layer \in 0 .. core_list[c] /\ \A v \in valid_nodes : core_list[v] \in Nat
  BY <1>1, <1>2 DEF Insert, Fitting, Underway
<1>4. \A w \in valid_nodes :
        /\ Return_Maximum_Common_Layer(w, c) \in Nat
        /\ Return_Maximum_Common_Layer(w, c) = Return_Maximum_Common_Layer(c, w)
  BY <1>3, HighestMeets DEF Return_Maximum_Common_Layer
<1> DEFINE V == {w \in valid_nodes : layer <= Return_Maximum_Common_Layer(w, c)}
           list == hier_adj[c]
           carriers == {j \in DOMAIN list : Carries(list[j], layer)}
           E == [tag : Layer, id : valid_nodes]
<1>5. PICK front : front = IF layer = 0 THEN <<>> ELSE Listed(list, carriers)
  OBVIOUS
<1>6. front \in Seq(V)
  <2>1. list \in Seq(E)
    BY <1>3 DEF Linked
  <2>2. ASSUME NEW j \in carriers PROVE list[j].id \in V
    <3>1. list[j] \in E
      <4> HIDE DEF E, list
      <4> QED BY <2>1
    <3>2. list[j].id \in valid_nodes /\ list[j].tag \in Nat /\ list[j].tag >= layer
      BY <1>2, <3>1 DEF Carries
    <3>3. list[j].tag <= Return_Maximum_Common_Layer(c, list[j].id)
      BY DEF TagsCommon
    <3> HIDE DEF list
    <3> QED BY <1>3, <1>4, <3>2, <3>3
  <2>3. Listed(list, carriers) \in Seq(V)
    <3>1. carriers \in SUBSET DOMAIN list
      OBVIOUS
    <3> HIDE DEF carriers, list, E, V
    <3> QED BY <2>1, <2>2, <3>1, ListedAmong
  <2>4. <<>> \in Seq(V)
    OBVIOUS
  <2> HIDE DEF carriers, list, V
  <2> QED BY <1>5, <2>3, <2>4
<1>7. Search_Add(c, layer) \in SUBSET V
  <2>1. CASE layer = 0
    <3>1. Search_Add(c, layer) \in SUBSET valid_nodes
      BY <1>3, SearchIndexed
    <3> QED BY <1>3, <1>4, <2>1, <3>1
  <2>2. CASE layer # 0
    BY <1>3, <2>2, SearchAtHome
  <2> QED BY <2>1, <2>2
<1>8. V \in SUBSET Vertex
  BY <1>3
<1>9. add_neighbors' = Robust_Prune_Add(c, Cal_Dist[c], front, Search_Add(c, layer))
  BY <1>1, <1>5 DEF Insert
<1>10. Range(add_neighbors') \in SUBSET V
  <2> HIDE DEF V
  <2>1. add_neighbors' \in Seq(V)
    BY <1>3, <1>6, <1>7, <1>8, <1>9, InDistances, PruneAdds
  <2> QED BY <2>1 DEF Range
<1>11. UNCHANGED <<input, core_list, compo_l, next, layer>>
  BY DEF Insert
<1>12. cur' = c /\ \A w : Return_Maximum_Common_Layer(w, c)' = Return_Maximum_Common_Layer(w, c)
  BY <1>1, <1>11 DEF cur, Return_Maximum_Common_Layer
<1> QED BY <1>10, <1>11, <1>12 DEF OffersShared

LEMMA EntriesStay ==
  /\ InitAdd => EntriesAtHome
  /\ AddInv /\ EntriesAtHome /\ [NextAdd]_varsAdd => EntriesAtHome'
<1>1. ASSUME InitAdd PROVE EntriesAtHome
  <2>1. InputOK(input)
    BY <1>1, DynamicAssumption DEF InitAdd
  <2> QED BY <1>1, <2>1 DEF InitAdd, EntriesAtHome, InputOK, Layer
<1>2. ASSUME AddInv, EntriesAtHome, [NextAdd]_varsAdd PROVE EntriesAtHome'
  <2>1. CASE Register
    <3>1. cur \notin valid_nodes /\ cur \in Vertex /\ DOMAIN compo_l = Vertex
          /\ DOMAIN core_list = Vertex
      BY <1>2, <2>1 DEF AddInv, Register, Underway, Fitting, cur
    <3>2. PICK n, x : /\ core_list' = [core_list EXCEPT ![cur] = n]
                      /\ compo_l' = [compo_l EXCEPT ![cur] = x]
      BY <2>1 DEF Register
    <3>3. \A v \in valid_nodes : core_list'[v] = core_list[v] /\ compo_l'[v] = compo_l[v]
      BY <3>1, <3>2
    <3>4. input' = input /\ valid_nodes \subseteq valid_nodes'
      BY <2>1 DEF Register
    <3> QED BY <1>2, <3>3, <3>4 DEF EntriesAtHome, Layer
  <2>2. CASE UNCHANGED <<input, valid_nodes, core_list, compo_l>>
    BY <1>2, <2>2 DEF EntriesAtHome, Layer
  <2>3. Register \/ UNCHANGED <<input, valid_nodes, core_list, compo_l>>
    BY <1>2 DEF NextAdd, varsAdd, Make_Edge_Add, Unknown, Insert, Found, LayerDone, Finish,
                TerminatedAdd
  <2> QED BY <2>1, <2>2, <2>3
<1> QED BY <1>1, <1>2

(* While components stay nested, a vertex is offered only to vertices that *)
(* share the layer with it.                                                *)
THEOREM OffersSharedCorrect == SpecAdd /\ []NestedHomes => []OffersShared
<1>1. InitAdd => OffersShared
  BY DEF InitAdd, OffersShared
<1>2. ASSUME AddInv, EntriesAtHome, NestedHomes, OffersShared, [NextAdd]_varsAdd
      PROVE  OffersShared'
  <2>1. CASE Insert
    BY <1>2, <2>1, InsertShares
  <2>2. CASE Make_Edge_Add
    <3>1. UNCHANGED <<input, core_list, compo_l, next, layer, add_neighbors, pc>>
      BY <2>2 DEF Make_Edge_Add
    <3>2. cur' = cur /\ \A v, w : Return_Maximum_Common_Layer(v, w)' = Return_Maximum_Common_Layer(v, w)
      BY <3>1 DEF cur, Return_Maximum_Common_Layer
    <3> QED BY <1>2, <3>1, <3>2 DEF OffersShared
  <2>3. CASE UNCHANGED varsAdd
    <3>1. UNCHANGED <<input, core_list, compo_l, next, layer, add_neighbors, pc>>
      BY <2>3 DEF varsAdd
    <3>2. cur' = cur /\ \A v, w : Return_Maximum_Common_Layer(v, w)' = Return_Maximum_Common_Layer(v, w)
      BY <3>1 DEF cur, Return_Maximum_Common_Layer
    <3> QED BY <1>2, <3>1, <3>2 DEF OffersShared
  <2>4. CASE pc' # "link"
    BY <2>4 DEF OffersShared
  <2>5. Insert \/ Make_Edge_Add \/ UNCHANGED varsAdd \/ pc' # "link"
    BY <1>2 DEF NextAdd, TerminatedAdd, Register, Unknown, Found, LayerDone, Finish, Advance
  <2> QED BY <2>1, <2>2, <2>3, <2>4, <2>5
<1> QED BY InitAddInv, NextAddInv, EntriesStay, <1>1, <1>2, PTL DEF SpecAdd

=============================================================================
