------------------------- MODULE TrussDecompProofs -------------------------
(***************************************************************************)
(* Proofs about TrussDecomp for every graph and every number of threads.   *)
(***************************************************************************)
EXTENDS TrussDecomp, FiniteSetTheorems, Extrema, TLAPS

-----------------------------------------------------------------------------
(* H_Index returns the greatest i such that i entries are at least i.      *)
LEMMA HIndexProperties ==
  ASSUME NEW W, IsFiniteSet(W), NEW L \in [W -> Nat]
  PROVE  /\ H_Index(L) \in 0 .. Cardinality(W)
         /\ Cardinality(AtLeast(L, H_Index(L))) >= H_Index(L)
         /\ \A j \in 0 .. Cardinality(W) :
              Cardinality(AtLeast(L, j)) >= j => j <= H_Index(L)
<1>1. Cardinality(W) \in Nat /\ DOMAIN L = W
  BY FS_CardinalityType
<1> DEFINE T == {i \in 0 .. Cardinality(W) : Cardinality(AtLeast(L, i)) >= i}
<1>2. 0 \in T
  <2>1. AtLeast(L, 0) \subseteq W
    BY <1>1 DEF AtLeast
  <2>2. Cardinality(AtLeast(L, 0)) \in Nat
    BY <2>1, FS_Subset, FS_CardinalityType
  <2> QED BY <1>1, <2>2
<1>3. PICK i \in T : \A j \in T : j <= i
  <2> HIDE DEF T
  <2>1. T \in SUBSET (0 .. Cardinality(W)) /\ T # {}
    BY <1>2 DEF T
  <2> QED BY <1>1, <2>1, GreatestElement
<1>4. \E k \in 0 .. Cardinality(DOMAIN L) :
        /\ Cardinality(AtLeast(L, k)) >= k
        /\ \A j \in 0 .. Cardinality(DOMAIN L) :
             Cardinality(AtLeast(L, j)) >= j => j <= k
  BY <1>1, <1>3
<1> QED BY <1>1, <1>4 DEF H_Index

(* Lower entries give a lower h-index.                                     *)
LEMMA HIndexMonotone ==
  ASSUME NEW W, IsFiniteSet(W), NEW L \in [W -> Nat], NEW M \in [W -> Nat],
         \A x \in W : L[x] <= M[x]
  PROVE  H_Index(L) <= H_Index(M)
<1> DEFINE k == H_Index(L)
<1>1. k \in 0 .. Cardinality(W) /\ Cardinality(AtLeast(L, k)) >= k
  BY HIndexProperties
<1>2. AtLeast(L, k) \subseteq AtLeast(M, k) /\ AtLeast(M, k) \subseteq W
  BY <1>1, FS_CardinalityType DEF AtLeast
<1>3. IsFiniteSet(AtLeast(M, k))
  BY <1>2, FS_Subset
<1>4. Cardinality(AtLeast(L, k)) <= Cardinality(AtLeast(M, k))
  BY <1>2, <1>3, FS_Subset
<1>5. /\ Cardinality(AtLeast(L, k)) \in Nat
      /\ Cardinality(AtLeast(M, k)) \in Nat
      /\ Cardinality(W) \in Nat
  BY <1>2, <1>3, FS_Subset, FS_CardinalityType
<1>6. Cardinality(AtLeast(M, k)) >= k
  BY <1>1, <1>4, <1>5
<1> QED BY <1>1, <1>6, HIndexProperties

-----------------------------------------------------------------------------
(* The sides of a triangle on e: edges near e, at least one of them.       *)
LEMMA SidesProperties ==
  ASSUME NEW e \in EdgeId, NEW w \in Common[e]
  PROVE  /\ Sides(e, w) # {}
         /\ Sides(e, w) \subseteq Near[e]
         /\ Sides(e, w) \subseteq EdgeId
<1>1. Sides(e, w) \subseteq EdgeId
  BY DEF Sides
<1>2. Sides(e, w) \subseteq Near[e]
  BY DEF Near
<1>3. PICK u \in Ends[e] : TRUE
  BY GraphAssumption
<1>4. PICK f \in EdgeId : Ends[f] = {u, w}
  BY <1>3 DEF Common
<1>5. f \in Sides(e, w)
  BY <1>3, <1>4 DEF Sides
<1> QED BY <1>1, <1>2, <1>5

LEMMA NearType ==
  /\ \A e \in EdgeId : Near[e] \subseteq EdgeId
  /\ \A e \in EdgeId : Common[e] \subseteq Node /\ IsFiniteSet(Common[e])
<1>1. ASSUME NEW e \in EdgeId PROVE Near[e] \subseteq EdgeId
  BY <1>1 DEF Near, Sides
<1>2. ASSUME NEW e \in EdgeId PROVE Common[e] \subseteq Node
  BY <1>2 DEF Common
<1>3. ASSUME NEW e \in EdgeId PROVE IsFiniteSet(Common[e])
  BY <1>2, <1>3, FS_Subset, GraphAssumption
<1> QED BY <1>1, <1>2, <1>3

(* A triangle contributes the lower of its two sides.                      *)
LEMMA LowerProperties ==
  ASSUME NEW e \in EdgeId, NEW w \in Common[e], NEW g \in [EdgeId -> Nat]
  PROVE  /\ Lower(e, w, g) \in Nat
         /\ \E f \in Sides(e, w) : Lower(e, w, g) = g[f]
         /\ \A f \in Sides(e, w) : Lower(e, w, g) <= g[f]
<1> DEFINE T == {g[f] : f \in Sides(e, w)}
<1>1. T \in SUBSET Nat /\ T # {}
  BY SidesProperties
<1>2. PICK r \in T : \A j \in T : r <= j
  <2> HIDE DEF T
  <2> QED BY <1>1, LeastElement
<1>3. \E s \in {g[f] : f \in Sides(e, w)} : \A f \in Sides(e, w) : s <= g[f]
  BY <1>2
<1>4. /\ Lower(e, w, g) \in {g[f] : f \in Sides(e, w)}
      /\ \A f \in Sides(e, w) : Lower(e, w, g) <= g[f]
  BY <1>3 DEF Lower, Wings
<1> QED BY <1>1, <1>4

LEMMA ContributionsType ==
  ASSUME NEW e \in EdgeId, NEW g \in [EdgeId -> Nat]
  PROVE  Contributions(e, g) \in [Common[e] -> Nat]
BY LowerProperties DEF Contributions

LEMMA UpdateType ==
  ASSUME NEW e \in EdgeId, NEW g \in [EdgeId -> Nat]
  PROVE  Update(e, g) \in Nat
<1>1. Cardinality(Common[e]) \in Nat
  BY NearType, FS_CardinalityType
<1>2. Update(e, g) \in 0 .. Cardinality(Common[e])
  BY NearType, ContributionsType, HIndexProperties DEF Update
<1> QED BY <1>1, <1>2

(* An update computed from lower values on the edges near e is lower.      *)
LEMMA UpdateMonotone ==
  ASSUME NEW e \in EdgeId, NEW g \in [EdgeId -> Nat], NEW k \in [EdgeId -> Nat],
         \A f \in Near[e] : g[f] <= k[f]
  PROVE  Update(e, g) <= Update(e, k)
<1>1. ASSUME NEW w \in Common[e]
      PROVE  Lower(e, w, g) <= Lower(e, w, k)
  <2>1. PICK f \in Sides(e, w) : Lower(e, w, k) = k[f]
    BY <1>1, LowerProperties
  <2>2. f \in Near[e] /\ f \in EdgeId
    BY <1>1, SidesProperties
  <2>3. Lower(e, w, g) <= g[f] /\ Lower(e, w, g) \in Nat
    BY <1>1, LowerProperties
  <2> QED BY <2>1, <2>2, <2>3
<1>2. \A w \in Common[e] : Contributions(e, g)[w] <= Contributions(e, k)[w]
  BY <1>1 DEF Contributions
<1> QED BY <1>2, ContributionsType, NearType, HIndexMonotone DEF Update

-----------------------------------------------------------------------------
(* Kappa[e] is the greatest k such that some (k+2)-truss has e.            *)
LEMMA KappaProperties ==
  /\ Kappa \in [EdgeId -> Nat]
  /\ \A e \in EdgeId :
       /\ Kappa[e] \in 0 .. Cardinality(Node)
       /\ InTruss(e, Kappa[e])
       /\ \A j \in 0 .. Cardinality(Node) : InTruss(e, j) => j <= Kappa[e]
<1>1. Cardinality(Node) \in Nat
  BY GraphAssumption, FS_CardinalityType
<1>2. ASSUME NEW e \in EdgeId
      PROVE  /\ Kappa[e] \in 0 .. Cardinality(Node)
             /\ InTruss(e, Kappa[e])
             /\ \A j \in 0 .. Cardinality(Node) : InTruss(e, j) => j <= Kappa[e]
  <2> DEFINE T == {k \in 0 .. Cardinality(Node) : InTruss(e, k)}
  <2>1. 0 \in T
    <3>1. {w \in Common[e] : Sides(e, w) \subseteq {e}} \subseteq Common[e]
      OBVIOUS
    <3>2. Cardinality({w \in Common[e] : Sides(e, w) \subseteq {e}}) >= 0
      BY <3>1, NearType, FS_Subset, FS_CardinalityType
    <3>3. IsTruss({e}, 0)
      BY <3>2 DEF IsTruss
    <3> QED BY <1>1, <3>3 DEF InTruss
  <2>2. PICK i \in T : \A j \in T : j <= i
    <3> HIDE DEF T
    <3>1. T \in SUBSET (0 .. Cardinality(Node)) /\ T # {}
      BY <2>1 DEF T
    <3> QED BY <1>1, <3>1, GreatestElement
  <2>3. \E k \in 0 .. Cardinality(Node) :
          /\ InTruss(e, k)
          /\ \A j \in 0 .. Cardinality(Node) : InTruss(e, j) => j <= k
    BY <2>2
  <2> QED BY <2>3 DEF Kappa
<1> QED BY <1>1, <1>2 DEF Kappa

(* Recomputing e from the true values of its neighbours gives at least its *)
(* own true value.                                                         *)
LEMMA KappaSustained ==
  ASSUME NEW e \in EdgeId
  PROVE  Kappa[e] <= Update(e, Kappa)
<1> DEFINE k == Kappa[e]
           L == Contributions(e, Kappa)
<1>1. k \in 0 .. Cardinality(Node) /\ InTruss(e, k) /\ k \in Nat
  BY KappaProperties
<1>2. PICK S \in SUBSET EdgeId : e \in S /\ IsTruss(S, k)
  BY <1>1 DEF InTruss
<1> DEFINE W == {w \in Common[e] : Sides(e, w) \subseteq S}
<1>3. Cardinality(W) >= k
  BY <1>2 DEF IsTruss
<1>4. \A f \in S : k <= Kappa[f]
  BY <1>1, <1>2, KappaProperties DEF InTruss
<1>5. L \in [Common[e] -> Nat]
  BY KappaProperties, ContributionsType
<1>6. W \subseteq AtLeast(L, k)
  <2>1. SUFFICES ASSUME NEW w \in W PROVE L[w] >= k
    BY <1>5 DEF AtLeast
  <2>2. PICK f \in Sides(e, w) : Lower(e, w, Kappa) = Kappa[f]
    BY KappaProperties, LowerProperties
  <2>3. k <= Kappa[f] /\ Kappa[f] \in Nat
    BY <1>4, <2>2, KappaProperties
  <2> QED BY <1>1, <2>2, <2>3 DEF Contributions
<1>7. AtLeast(L, k) \subseteq Common[e] /\ IsFiniteSet(Common[e])
  BY <1>5, NearType DEF AtLeast
<1>8. IsFiniteSet(AtLeast(L, k)) /\ IsFiniteSet(W)
  BY <1>6, <1>7, FS_Subset
<1>9. /\ Cardinality(W) <= Cardinality(AtLeast(L, k))
      /\ Cardinality(AtLeast(L, k)) <= Cardinality(Common[e])
  BY <1>6, <1>7, <1>8, FS_Subset
<1>10. /\ Cardinality(W) \in Nat
       /\ Cardinality(AtLeast(L, k)) \in Nat
       /\ Cardinality(Common[e]) \in Nat
  BY <1>7, <1>8, FS_CardinalityType
<1>11. k \in 0 .. Cardinality(Common[e]) /\ Cardinality(AtLeast(L, k)) >= k
  BY <1>1, <1>3, <1>9, <1>10
<1>12. k <= H_Index(L)
  BY <1>5, <1>7, <1>11, HIndexProperties
<1> QED BY <1>12 DEF Update

-----------------------------------------------------------------------------
LEMMA InitType == Init => TypeOK
<1>1. \A e \in EdgeId : Cardinality(Common[e]) \in Nat
  BY NearType, FS_CardinalityType
<1> SUFFICES ASSUME Init PROVE TypeOK
  OBVIOUS
<1> USE DEF Init
<1>2. h \in [EdgeId -> Nat] /\ scheduled \in [EdgeId -> BOOLEAN]
  BY <1>1
<1>3. val \in [Thread -> [EdgeId -> Nat]] /\ todo \in [Thread -> SUBSET EdgeId]
  BY DEF NoValues
<1>4. \A t \in Thread : pc[t] = "idle"
  OBVIOUS
<1>5. 0 \in 0 .. NumEdges
  BY GraphAssumption
<1>6. /\ next \in 0 .. NumEdges
      /\ edge \in [Thread -> 0 .. NumEdges]
      /\ hi \in [Thread -> Nat]
      /\ pc \in [Thread -> {"idle", "test", "read", "notify", "compare", "mark"}]
  BY <1>5
<1>7. updated \in BOOLEAN /\ done \in BOOLEAN
  OBVIOUS
<1> QED BY <1>2, <1>3, <1>4, <1>6, <1>7 DEF TypeOK

(* An edge held by a thread is an edge of the graph.                       *)
LEMMA HeldEdge ==
  ASSUME TypeOK, NEW t \in Thread, pc[t] # "idle"
  PROVE  edge[t] \in EdgeId
BY GraphAssumption DEF TypeOK, EdgeId

LEMMA NextType == TypeOK /\ [Next]_vars => TypeOK'
<1> SUFFICES ASSUME TypeOK, [Next]_vars PROVE TypeOK'
  OBVIOUS
<1> USE GraphAssumption DEF TypeOK
<1>1. ASSUME NEW t \in Thread, Claim(t) PROVE TypeOK'
  BY <1>1 DEF Claim, Remaining
<1>2. ASSUME NEW t \in Thread, Skip(t) PROVE TypeOK'
  BY <1>2 DEF Skip
<1>3. ASSUME NEW t \in Thread, Start(t) PROVE TypeOK'
  BY <1>3, NearType, HeldEdge DEF Start
<1>4. ASSUME NEW t \in Thread, NEW f \in EdgeId, Read(t, f) PROVE TypeOK'
  <2>1. val' \in [Thread -> [EdgeId -> Nat]]
    BY <1>4 DEF Read
  <2>2. todo' \in [Thread -> SUBSET EdgeId]
    BY <1>4 DEF Read
  <2> QED BY <1>4, <2>1, <2>2 DEF Read
<1>5. ASSUME NEW t \in Thread, FindLower(t) PROVE TypeOK'
  <2>1. NewValue(t) \in Nat
    BY <1>5, HeldEdge, UpdateType DEF FindLower, NewValue
  <2>2. val' \in [Thread -> [EdgeId -> Nat]]
    BY <1>5 DEF FindLower, NoValues
  <2>3. todo' \in [Thread -> SUBSET EdgeId]
    BY <1>5, NearType, HeldEdge DEF FindLower
  <2> QED BY <1>5, <2>1, <2>2, <2>3 DEF FindLower
<1>6. ASSUME NEW t \in Thread, FindSame(t) PROVE TypeOK'
  <2>1. NewValue(t) \in Nat
    BY <1>6, HeldEdge, UpdateType DEF FindSame, NewValue
  <2>2. val' \in [Thread -> [EdgeId -> Nat]]
    BY <1>6 DEF FindSame, NoValues
  <2> QED BY <1>6, <2>1, <2>2 DEF FindSame
<1>7. ASSUME NEW t \in Thread, NEW f \in EdgeId, Pass(t, f) PROVE TypeOK'
  BY <1>7 DEF Pass
<1>8. ASSUME NEW t \in Thread, NEW f \in EdgeId, Higher(t, f) \/ Compare(t, f) PROVE TypeOK'
  <2>1. pc' \in [Thread -> {"idle", "test", "read", "notify", "compare", "mark"}]
    BY <1>8 DEF Higher, Compare
  <2>2. pc'[t] # "idle" /\ pc[t] # "idle" /\ \A u \in Thread \ {t} : pc'[u] = pc[u]
    BY <1>8 DEF Higher, Compare
  <2>3. todo' \in [Thread -> SUBSET EdgeId]
    BY <1>8 DEF Higher, Compare
  <2>4. UNCHANGED <<h, scheduled, updated, next, done, edge, val, hi>>
    BY <1>8 DEF Higher, Compare
  <2> QED BY <2>1, <2>2, <2>3, <2>4
<1>9. ASSUME NEW t \in Thread, NEW f \in EdgeId, Mark(t, f) PROVE TypeOK'
  BY <1>9 DEF Mark
<1>10. ASSUME NEW t \in Thread, Commit(t) PROVE TypeOK'
  <2>1. h' \in [EdgeId -> Nat]
    BY <1>10 DEF Commit
  <2>2. scheduled' \in [EdgeId -> BOOLEAN]
    BY <1>10 DEF Commit
  <2> QED BY <1>10, <2>1, <2>2 DEF Commit
<1>11. ASSUME NextRound PROVE TypeOK'
  <2>1. \A t \in Thread : pc'[t] = "idle"
    BY <1>11 DEF NextRound, RoundOver
  <2>2. next' = 0 /\ 0 \in 0 .. NumEdges
    BY <1>11 DEF NextRound
  <2>3. updated' \in BOOLEAN
    BY <1>11 DEF NextRound
  <2> QED BY <1>11, <2>1, <2>2, <2>3 DEF NextRound
<1>12. ASSUME Finish PROVE TypeOK'
  BY <1>12 DEF Finish
<1>13. ASSUME UNCHANGED vars PROVE TypeOK'
  BY <1>13 DEF vars
<1> QED
  BY <1>1, <1>2, <1>3, <1>4, <1>5, <1>6, <1>7, <1>8, <1>9, <1>10, <1>11,
     <1>12, <1>13 DEF Next, Body, Terminated

(* Every reachable state is well typed, and a thread in the loop body holds *)
(* an edge id already handed out by the omp parallel for.                  *)
THEOREM TypeCorrect == Spec => []TypeOK
BY InitType, NextType, PTL DEF Spec

-----------------------------------------------------------------------------
(* The inductive invariant.                                                *)
IInv == TypeOK /\ InFlight /\ NeverBelow

(* The supports are an upper bound of everything computed from them.       *)
LEMMA InitInv == Init => IInv
<1> SUFFICES ASSUME Init PROVE IInv
  OBVIOUS
<1>1. TypeOK
  BY InitType
<1>2. \A t \in Thread : pc[t] = "idle"
  BY DEF Init
<1>3. ASSUME NEW e \in EdgeId, NEW g \in [EdgeId -> Nat]
      PROVE  Update(e, g) <= h[e]
  <2>1. h[e] = Cardinality(Common[e])
    BY <1>3 DEF Init
  <2>2. Update(e, g) \in 0 .. Cardinality(Common[e])
    BY <1>3, NearType, ContributionsType, HIndexProperties DEF Update
  <2>3. Cardinality(Common[e]) \in Nat
    BY <1>3, NearType, FS_CardinalityType
  <2> QED BY <2>1, <2>2, <2>3
<1>4. \A e \in EdgeId : Update(e, h) <= h[e]
  BY <1>1, <1>3 DEF TypeOK
<1>5. InFlight
  BY <1>2, <1>4 DEF InFlight
<1>6. NeverBelow
  <2> SUFFICES ASSUME NEW e \in EdgeId PROVE h[e] >= Kappa[e]
    BY DEF NeverBelow
  <2>1. Update(e, Kappa) <= h[e] /\ Kappa[e] <= Update(e, Kappa)
    BY <1>3, KappaProperties, KappaSustained
  <2>2. Update(e, Kappa) \in Nat /\ Kappa[e] \in Nat /\ h[e] \in Nat
    BY <1>1, KappaProperties, UpdateType DEF TypeOK
  <2> QED BY <2>1, <2>2
<1> QED BY <1>1, <1>5, <1>6 DEF IInv

(* A step that leaves the estimates alone, and every thread but t, keeps   *)
(* the invariant if it keeps what the invariant says of t.                 *)
LEMMA LocalStep ==
  ASSUME IInv, TypeOK', NEW t \in Thread,
         UNCHANGED h,
         \A u \in Thread \ {t} :
           /\ pc'[u] = pc[u] /\ edge'[u] = edge[u] /\ val'[u] = val[u]
           /\ todo'[u] = todo[u] /\ hi'[u] = hi[u],
         \A u \in Thread \ {t} :
           pc'[t] # "idle" /\ pc[u] # "idle" => edge'[t] # edge[u],
         pc'[t] = "read" =>
           /\ \A f \in Near[edge'[t]] \ todo'[t] : h[f] <= val'[t][f]
           /\ Update(edge'[t], Mixed(t)') <= h[edge'[t]],
         pc'[t] \in {"notify", "compare", "mark"} =>
           /\ Update(edge'[t], h) <= hi'[t]
           /\ Kappa[edge'[t]] <= hi'[t]
           /\ hi'[t] <= h[edge'[t]]
  PROVE  IInv'
<1>1. NeverBelow'
  BY DEF IInv, NeverBelow
<1>2. \A u \in Thread \ {t} : Mixed(u)' = Mixed(u)
  BY DEF Mixed
<1>3. InFlight'
  <2>1. \A u, v \in Thread :
          u # v /\ pc'[u] # "idle" /\ pc'[v] # "idle" => edge'[u] # edge'[v]
    BY DEF IInv, InFlight
  <2>2. \A e \in EdgeId : Update(e, h') <= h'[e]
    BY DEF IInv, InFlight
  <2>3. \A u \in Thread : pc'[u] = "read" =>
          /\ \A f \in Near[edge'[u]] \ todo'[u] : h'[f] <= val'[u][f]
          /\ Update(edge'[u], Mixed(u)') <= h'[edge'[u]]
    BY <1>2 DEF IInv, InFlight
  <2>4. \A u \in Thread : pc'[u] \in {"notify", "compare", "mark"} =>
          /\ Update(edge'[u], h') <= hi'[u]
          /\ Kappa[edge'[u]] <= hi'[u]
          /\ hi'[u] <= h'[edge'[u]]
    BY DEF IInv, InFlight
  <2> QED BY <2>1, <2>2, <2>3, <2>4 DEF InFlight
<1> QED BY <1>1, <1>3 DEF IInv

(* What a recomputation of an edge e in hand may find.                     *)
LEMMA Recomputation ==
  ASSUME IInv, NEW t \in Thread, pc[t] = "read", todo[t] = {}
  PROVE  /\ edge[t] \in EdgeId /\ NewValue(t) \in Nat
         /\ Update(edge[t], h) <= NewValue(t)
         /\ Kappa[edge[t]] <= NewValue(t)
         /\ NewValue(t) <= h[edge[t]]
<1> DEFINE e == edge[t]
<1>1. TypeOK /\ e \in EdgeId
  BY HeldEdge DEF IInv
<1>2. /\ h \in [EdgeId -> Nat] /\ val[t] \in [EdgeId -> Nat]
      /\ Kappa \in [EdgeId -> Nat] /\ Near[e] \subseteq EdgeId
  BY <1>1, KappaProperties, NearType DEF TypeOK
<1>3. /\ Update(e, h) \in Nat /\ Update(e, val[t]) \in Nat
      /\ Update(e, Kappa) \in Nat
  BY <1>1, <1>2, UpdateType
<1>4. Update(e, h) <= Update(e, val[t])
  <2>1. \A f \in Near[e] : h[f] <= val[t][f]
    BY DEF IInv, InFlight
  <2> QED BY <1>1, <1>2, <2>1, UpdateMonotone
<1>5. Kappa[e] <= Update(e, h)
  <2>1. \A f \in Near[e] : Kappa[f] <= h[f]
    BY <1>2 DEF IInv, NeverBelow
  <2>2. Update(e, Kappa) <= Update(e, h)
    BY <1>1, <1>2, <2>1, UpdateMonotone
  <2>3. Kappa[e] <= Update(e, Kappa)
    BY <1>1, KappaSustained
  <2> QED BY <1>1, <1>2, <1>3, <2>2, <2>3
<1>6. Update(e, val[t]) <= h[e]
  <2>1. Mixed(t) = val[t]
    BY <1>2 DEF Mixed
  <2> QED BY <2>1 DEF IInv, InFlight
<1> QED BY <1>1, <1>2, <1>3, <1>4, <1>5, <1>6 DEF NewValue

(* The write of h[e]: everything others know of e stays an upper bound.    *)
LEMMA CommitStep ==
  ASSUME IInv, TypeOK', NEW t \in Thread, Commit(t)
  PROVE  IInv'
<1> DEFINE e == edge[t]
<1>1. /\ e \in EdgeId /\ TypeOK /\ pc[t] = "notify"
      /\ h \in [EdgeId -> Nat] /\ h' \in [EdgeId -> Nat]
      /\ Kappa \in [EdgeId -> Nat] /\ hi[t] \in Nat
  BY HeldEdge, KappaProperties DEF IInv, Commit, TypeOK
<1>2. /\ Update(e, h) <= hi[t] /\ Kappa[e] <= hi[t] /\ hi[t] <= h[e]
  BY <1>1 DEF IInv, InFlight
<1>3. h'[e] = hi[t] /\ \A f \in EdgeId \ {e} : h'[f] = h[f]
  BY <1>1 DEF Commit, TypeOK
<1>4. \A f \in EdgeId : h'[f] <= h[f]
  BY <1>1, <1>2, <1>3
<1>5. ASSUME NEW f \in EdgeId
      PROVE  /\ Update(f, h') <= Update(f, h)
             /\ Update(f, h') \in Nat /\ Update(f, h) \in Nat
  <2>1. Near[f] \subseteq EdgeId
    BY <1>5, NearType
  <2> QED BY <1>1, <1>4, <1>5, <2>1, UpdateMonotone, UpdateType
<1>6. NeverBelow'
  BY <1>1, <1>2, <1>3 DEF IInv, NeverBelow
<1>7. ASSUME NEW u \in Thread, u # t
      PROVE  /\ pc'[u] = pc[u] /\ edge'[u] = edge[u] /\ val'[u] = val[u]
             /\ todo'[u] = todo[u] /\ hi'[u] = hi[u]
             /\ pc[u] # "idle" => edge[u] \in EdgeId \ {e}
  BY <1>1, <1>7, HeldEdge DEF IInv, InFlight, Commit, TypeOK
<1>8. pc'[t] = "idle"
  BY <1>1 DEF Commit, TypeOK
<1>9. \A u, v \in Thread :
        u # v /\ pc'[u] # "idle" /\ pc'[v] # "idle" => edge'[u] # edge'[v]
  BY <1>7, <1>8 DEF IInv, InFlight
<1>10. ASSUME NEW f \in EdgeId PROVE Update(f, h') <= h'[f]
  <2>1. CASE f = e
    BY <1>1, <1>2, <1>3, <1>5, <2>1
  <2>2. CASE f # e
    <3>1. Update(f, h) <= h[f]
      BY <1>10 DEF IInv, InFlight
    <3> QED BY <1>1, <1>3, <1>5, <1>10, <2>2, <3>1
  <2> QED BY <2>1, <2>2
<1>11. ASSUME NEW u \in Thread, pc'[u] = "read"
       PROVE  /\ \A f \in Near[edge'[u]] \ todo'[u] : h'[f] <= val'[u][f]
              /\ Update(edge'[u], Mixed(u)') <= h'[edge'[u]]
  <2>1. u # t /\ pc[u] = "read" /\ edge[u] \in EdgeId \ {e}
    BY <1>7, <1>8, <1>11
  <2>2. /\ Near[edge[u]] \subseteq EdgeId /\ val[u] \in [EdgeId -> Nat]
        /\ Mixed(u) \in [EdgeId -> Nat] /\ Mixed(u)' \in [EdgeId -> Nat]
    BY <1>1, <1>7, <2>1, NearType DEF TypeOK, Mixed
  <2>3. \A f \in Near[edge[u]] \ todo[u] : h[f] <= val[u][f]
    BY <2>1 DEF IInv, InFlight
  <2>4. \A f \in Near[edge[u]] \ todo[u] : h'[f] <= val[u][f]
    BY <1>1, <1>4, <2>2, <2>3
  <2>5. \A f \in EdgeId : Mixed(u)'[f] <= Mixed(u)[f]
    BY <1>1, <1>4, <1>7, <2>1, <2>2 DEF Mixed
  <2>6. Update(edge[u], Mixed(u)') <= Update(edge[u], Mixed(u))
    BY <2>1, <2>2, <2>5, UpdateMonotone
  <2>7. Update(edge[u], Mixed(u)) <= h[edge[u]]
    BY <2>1 DEF IInv, InFlight
  <2>8. /\ Update(edge[u], Mixed(u)') \in Nat
        /\ Update(edge[u], Mixed(u)) \in Nat
    BY <2>1, <2>2, UpdateType
  <2>9. Update(edge[u], Mixed(u)') <= h'[edge[u]]
    BY <1>1, <1>3, <2>1, <2>6, <2>7, <2>8
  <2> QED BY <1>7, <2>1, <2>4, <2>9
<1>12. ASSUME NEW u \in Thread, pc'[u] \in {"notify", "compare", "mark"}
       PROVE  /\ Update(edge'[u], h') <= hi'[u]
              /\ Kappa[edge'[u]] <= hi'[u]
              /\ hi'[u] <= h'[edge'[u]]
  <2>1. u # t /\ pc[u] \in {"notify", "compare", "mark"} /\ edge[u] \in EdgeId \ {e}
    BY <1>7, <1>8, <1>12
  <2>2. hi[u] \in Nat
    BY <1>1 DEF TypeOK
  <2>3. /\ Update(edge[u], h) <= hi[u] /\ Kappa[edge[u]] <= hi[u]
        /\ hi[u] <= h[edge[u]]
    BY <2>1 DEF IInv, InFlight
  <2>4. Update(edge[u], h') <= hi[u]
    BY <1>5, <2>1, <2>2, <2>3
  <2> QED BY <1>3, <1>7, <2>1, <2>3, <2>4
<1>13. InFlight'
  BY <1>9, <1>10, <1>11, <1>12 DEF InFlight
<1> QED BY <1>6, <1>13 DEF IInv

LEMMA NextInv == IInv /\ [Next]_vars => IInv'
<1> SUFFICES ASSUME IInv, [Next]_vars PROVE IInv'
  OBVIOUS
<1>1. TypeOK /\ TypeOK'
  BY NextType DEF IInv
<1>2. ASSUME NEW t \in Thread, Claim(t) PROVE IInv'
  <2>1. pc'[t] = "test" /\ edge'[t] = next
    BY <1>1, <1>2 DEF Claim, TypeOK
  <2>2. \A u \in Thread : pc[u] # "idle" => edge[u] # next
    BY <1>1, GraphAssumption DEF TypeOK
  <2> QED BY <1>1, <1>2, <2>1, <2>2, LocalStep DEF Claim, TypeOK
<1>3. ASSUME NEW t \in Thread, Skip(t) PROVE IInv'
  <2>1. pc'[t] = "idle"
    BY <1>1, <1>3 DEF Skip, TypeOK
  <2> QED BY <1>1, <1>3, <2>1, LocalStep DEF Skip, TypeOK
<1>4. ASSUME NEW t \in Thread, Start(t) PROVE IInv'
  <2>1. pc'[t] = "read" /\ edge'[t] = edge[t] /\ todo'[t] = Near[edge[t]]
    BY <1>1, <1>4 DEF Start, TypeOK
  <2>2. edge[t] \in EdgeId /\ Near[edge[t]] \subseteq EdgeId
    BY <1>1, <1>4, HeldEdge, NearType DEF Start
  <2>3. h' = h /\ h \in [EdgeId -> Nat] /\ Mixed(t)' \in [EdgeId -> Nat]
    BY <1>1, <1>4 DEF Start, TypeOK, Mixed
  <2>4. \A f \in Near[edge[t]] : Mixed(t)'[f] = h[f]
    BY <2>1, <2>2, <2>3 DEF Mixed
  <2>5. Update(edge[t], Mixed(t)') <= Update(edge[t], h)
    BY <2>2, <2>3, <2>4, UpdateMonotone
  <2>6. Update(edge[t], h) <= h[edge[t]]
    BY <2>2 DEF IInv, InFlight
  <2>7. Update(edge[t], Mixed(t)') <= h[edge[t]]
    BY <2>2, <2>3, <2>5, <2>6, UpdateType
  <2>8. \A u \in Thread \ {t} : pc[u] # "idle" => edge[t] # edge[u]
    BY <1>4 DEF IInv, InFlight, Start
  <2> QED BY <1>1, <1>4, <2>1, <2>3, <2>7, <2>8, LocalStep DEF Start, TypeOK
<1>5. ASSUME NEW t \in Thread, NEW f \in EdgeId, Read(t, f) PROVE IInv'
  <2>1. /\ pc[t] = "read" /\ pc'[t] = "read" /\ edge'[t] = edge[t]
        /\ todo'[t] = todo[t] \ {f} /\ f \in todo[t] /\ h' = h
    BY <1>1, <1>5 DEF Read, TypeOK
  <2>2. val'[t] = [val[t] EXCEPT ![f] = h[f]]
    BY <1>1, <1>5 DEF Read, TypeOK
  <2>3. edge[t] \in EdgeId /\ Near[edge[t]] \subseteq EdgeId
    BY <1>1, <2>1, HeldEdge, NearType
  <2>4. Mixed(t)' = Mixed(t)
    BY <1>1, <2>1, <2>2 DEF Mixed, TypeOK
  <2>5. \A g \in Near[edge[t]] \ todo'[t] : h[g] <= val'[t][g]
    BY <1>1, <2>1, <2>2, <2>3 DEF IInv, InFlight, TypeOK
  <2>6. Update(edge[t], Mixed(t)) <= h[edge[t]]
    BY <2>1 DEF IInv, InFlight
  <2>7. \A u \in Thread \ {t} : pc[u] # "idle" => edge[t] # edge[u]
    BY <2>1 DEF IInv, InFlight
  <2>8. \A u \in Thread \ {t} : val'[u] = val[u] /\ todo'[u] = todo[u]
    BY <1>1, <1>5 DEF Read, TypeOK
  <2> QED
    BY <1>1, <1>5, <2>1, <2>4, <2>5, <2>6, <2>7, <2>8, LocalStep DEF Read
<1>6. ASSUME NEW t \in Thread, FindLower(t) PROVE IInv'
  <2>1. /\ pc[t] = "read" /\ todo[t] = {}
        /\ pc'[t] = "notify" /\ edge'[t] = edge[t] /\ hi'[t] = NewValue(t)
    BY <1>1, <1>6 DEF FindLower, TypeOK
  <2>2. \A u \in Thread \ {t} : pc[u] # "idle" => edge[t] # edge[u]
    BY <2>1 DEF IInv, InFlight
  <2>3. /\ h' = h
        /\ \A u \in Thread \ {t} :
             /\ pc'[u] = pc[u] /\ edge'[u] = edge[u] /\ val'[u] = val[u]
             /\ todo'[u] = todo[u] /\ hi'[u] = hi[u]
    BY <1>1, <1>6 DEF FindLower, TypeOK
  <2> QED BY <1>1, <2>1, <2>2, <2>3, Recomputation, LocalStep
<1>7. ASSUME NEW t \in Thread, FindSame(t) PROVE IInv'
  <2>1. /\ pc[t] = "read" /\ todo[t] = {}
        /\ pc'[t] = "notify" /\ edge'[t] = edge[t] /\ hi'[t] = NewValue(t)
    BY <1>1, <1>7 DEF FindSame, TypeOK
  <2>2. \A u \in Thread \ {t} : pc[u] # "idle" => edge[t] # edge[u]
    BY <2>1 DEF IInv, InFlight
  <2>3. /\ h' = h
        /\ \A u \in Thread \ {t} :
             /\ pc'[u] = pc[u] /\ edge'[u] = edge[u] /\ val'[u] = val[u]
             /\ todo'[u] = todo[u] /\ hi'[u] = hi[u]
    BY <1>1, <1>7 DEF FindSame, TypeOK
  <2> QED BY <1>1, <2>1, <2>2, <2>3, Recomputation, LocalStep
<1>8. ASSUME NEW t \in Thread, NEW f \in EdgeId,
             Pass(t, f) \/ Higher(t, f) \/ Compare(t, f) \/ Mark(t, f)
      PROVE  IInv'
  <2>1. /\ pc[t] \in {"notify", "compare", "mark"} /\ pc'[t] \in {"notify", "compare", "mark"}
        /\ edge' = edge /\ hi' = hi /\ val' = val /\ h' = h
        /\ \A u \in Thread \ {t} : pc'[u] = pc[u] /\ todo'[u] = todo[u]
    BY <1>1, <1>8 DEF Pass, Higher, Compare, Mark, TypeOK
  <2>2. \A u \in Thread \ {t} : pc[u] # "idle" => edge[t] # edge[u]
    BY <2>1 DEF IInv, InFlight
  <2>3. /\ Update(edge[t], h) <= hi[t]
        /\ Kappa[edge[t]] <= hi[t]
        /\ hi[t] <= h[edge[t]]
    BY <2>1 DEF IInv, InFlight
  <2> QED BY <1>1, <2>1, <2>2, <2>3, LocalStep
<1>9. ASSUME NEW t \in Thread, Commit(t) PROVE IInv'
  BY <1>1, <1>9, CommitStep
<1>10. ASSUME NextRound \/ Finish \/ UNCHANGED vars PROVE IInv'
  <2>1. UNCHANGED <<h, pc, edge, val, todo, hi>>
    BY <1>10 DEF NextRound, Finish, vars
  <2>2. \A t \in Thread : Mixed(t)' = Mixed(t)
    BY <2>1 DEF Mixed
  <2>3. InFlight'
    BY <2>1, <2>2 DEF IInv, InFlight
  <2>4. NeverBelow'
    BY <2>1 DEF IInv, NeverBelow
  <2> QED BY <1>1, <2>3, <2>4 DEF IInv
<1> QED
  BY <1>2, <1>3, <1>4, <1>5, <1>6, <1>7, <1>8, <1>9, <1>10
  DEF Next, Body, Terminated

(* Whatever the interleaving, no estimate ever falls below the trussness   *)
(* of its edge: the races of the loop cannot make a result too small.      *)
THEOREM NeverBelowCorrect == Spec => []NeverBelow
<1>1. IInv => NeverBelow
  BY DEF IInv
<1> QED BY <1>1, InitInv, NextInv, PTL DEF Spec

(* The values in flight are sandwiched between a fresh recomputation and   *)
(* the estimate they replace, whatever the other threads have done since.  *)
THEOREM InFlightCorrect == Spec => []InFlight
<1>1. IInv => InFlight
  BY DEF IInv
<1> QED BY <1>1, InitInv, NextInv, PTL DEF Spec

(* No step raises an estimate.                                             *)
THEOREM NeverRaisedCorrect == Spec => NeverRaised
<1>1. ASSUME IInv, [Next]_vars
      PROVE  [\A e \in EdgeId : h'[e] <= h[e]]_vars
  <2> USE DEF IInv
  <2>1. h \in [EdgeId -> Nat]
    BY <1>1 DEF TypeOK
  <2>2. ASSUME h' = h PROVE \A e \in EdgeId : h'[e] <= h[e]
    BY <2>1, <2>2
  <2>3. ASSUME NEW t \in Thread, Commit(t)
        PROVE  \A e \in EdgeId : h'[e] <= h[e]
    <3>1. pc[t] = "notify" /\ edge[t] \in EdgeId /\ hi[t] <= h[edge[t]]
      BY <1>1, <2>3, HeldEdge DEF Commit, InFlight
    <3>2. h' = [h EXCEPT ![edge[t]] = hi[t]]
      BY <2>3 DEF Commit
    <3> QED BY <2>1, <3>1, <3>2
  <2>4. \/ h' = h
        \/ \E t \in Thread : Commit(t)
        \/ UNCHANGED vars
    BY <1>1 DEF Next, Body, Claim, Skip, Start, Read, FindLower, FindSame,
                Pass, Higher, Compare, Mark, NextRound, Finish, Terminated
  <2> QED BY <2>2, <2>3, <2>4
<1> QED BY <1>1, InitInv, NextInv, PTL DEF Spec, NeverRaised

-----------------------------------------------------------------------------
(* As long as no estimate has changed in a round, whoever has handled an   *)
(* edge found it as it was, and so told nobody: an edge that still waits   *)
(* is in some thread's hands.  Only such a round can be the last.          *)
Unmoved(t) == pc[t] = "notify" /\ hi[t] = h[edge[t]] /\ todo[t] = {}

Quiet ==
  /\ ~updated => \A e \in EdgeId : e < next /\ scheduled[e] =>
                   \E t \in Thread : pc[t] # "idle" /\ edge[t] = e
  /\ ~updated => \A t \in Thread : pc[t] \in {"notify", "compare", "mark"} => Unmoved(t)
  /\ done => /\ ~updated /\ next = NumEdges
             /\ \A t \in Thread : pc[t] = "idle"

LEMMA InitQuiet == Init => Quiet
<1> SUFFICES ASSUME Init PROVE Quiet
  OBVIOUS
<1>1. next = 0 /\ ~done /\ \A t \in Thread : pc[t] = "idle"
  BY DEF Init
<1>2. \A e \in EdgeId : ~(e < next)
  BY <1>1, GraphAssumption DEF EdgeId
<1> QED BY <1>1, <1>2 DEF Quiet

(* A step of one thread that sets nothing and leaves the estimates alone.  *)
LEMMA QuietStep ==
  ASSUME TypeOK, Quiet, NEW t \in Thread, ~done, ~done',
         h' = h, ~updated' => ~updated,
         ~updated' => \A e \in EdgeId : e < next' /\ scheduled'[e] =>
           \/ e < next /\ scheduled[e] /\ (pc[t] # "idle" => edge[t] # e)
           \/ pc'[t] # "idle" /\ edge'[t] = e,
         ~updated' /\ pc'[t] \in {"notify", "compare", "mark"} => Unmoved(t)',
         \A u \in Thread \ {t} :
           pc'[u] = pc[u] /\ edge'[u] = edge[u] /\ hi'[u] = hi[u] /\ todo'[u] = todo[u]
  PROVE  Quiet'
<1>1. ASSUME ~updated', NEW e \in EdgeId, e < next', scheduled'[e]
      PROVE  \E u \in Thread : pc'[u] # "idle" /\ edge'[u] = e
  <2>1. CASE pc'[t] # "idle" /\ edge'[t] = e
    BY <2>1
  <2>2. CASE e < next /\ scheduled[e] /\ (pc[t] # "idle" => edge[t] # e)
    <3>1. PICK u \in Thread : pc[u] # "idle" /\ edge[u] = e
      BY <1>1, <2>2 DEF Quiet
    <3> QED BY <2>2, <3>1
  <2> QED BY <1>1, <2>1, <2>2
<1>2. ASSUME ~updated', NEW u \in Thread, pc'[u] \in {"notify", "compare", "mark"}
      PROVE  Unmoved(u)'
  <2>1. CASE u # t
    BY <1>2, <2>1 DEF Quiet, Unmoved
  <2> QED BY <1>2, <2>1
<1> QED BY <1>1, <1>2 DEF Quiet

LEMMA NextQuiet ==
  ASSUME IInv, IInv', Quiet, [Next]_vars
  PROVE  Quiet'
<1>0. TypeOK /\ TypeOK'
  BY DEF IInv
<1>1. ASSUME NEW t \in Thread, Claim(t) PROVE Quiet'
  <2>1. /\ ~done /\ ~done' /\ h' = h /\ updated' = updated /\ next' = next + 1
        /\ scheduled' = scheduled /\ pc[t] = "idle"
        /\ pc'[t] = "test" /\ edge'[t] = next /\ next \in Nat
    BY <1>0, <1>1, GraphAssumption DEF Claim, TypeOK
  <2>2. \A e \in EdgeId : e < next' => e < next \/ e = next
    BY <2>1, GraphAssumption DEF EdgeId
  <2>3. \A u \in Thread \ {t} :
          pc'[u] = pc[u] /\ edge'[u] = edge[u] /\ hi'[u] = hi[u] /\ todo'[u] = todo[u]
    BY <1>0, <1>1 DEF Claim, TypeOK
  <2> QED BY <1>0, <2>1, <2>2, <2>3, QuietStep
<1>2. ASSUME NEW t \in Thread, Skip(t) PROVE Quiet'
  <2>1. /\ ~done /\ ~done' /\ h' = h /\ updated' = updated /\ next' = next
        /\ scheduled' = scheduled /\ ~scheduled[edge[t]] /\ pc'[t] = "idle"
    BY <1>0, <1>2 DEF Skip, TypeOK, Quiet
  <2>2. \A u \in Thread \ {t} :
          pc'[u] = pc[u] /\ edge'[u] = edge[u] /\ hi'[u] = hi[u] /\ todo'[u] = todo[u]
    BY <1>0, <1>2 DEF Skip, TypeOK
  <2> QED BY <1>0, <2>1, <2>2, QuietStep
<1>3. ASSUME NEW t \in Thread,
             Start(t) \/ \E f \in EdgeId : Read(t, f) \/ Pass(t, f) \/ Higher(t, f)
      PROVE  Quiet'
  <2>1. /\ ~done /\ ~done' /\ h' = h /\ updated' = updated /\ next' = next
        /\ scheduled' = scheduled /\ pc[t] # "idle" /\ pc'[t] # "idle"
        /\ edge' = edge /\ hi' = hi
    BY <1>0, <1>3 DEF Start, Read, Pass, Higher, TypeOK, Quiet
  <2>2. \A u \in Thread \ {t} : pc'[u] = pc[u] /\ todo'[u] = todo[u]
    BY <1>0, <1>3 DEF Start, Read, Pass, Higher, TypeOK
  <2>3. ASSUME ~updated, pc'[t] \in {"notify", "compare", "mark"} PROVE FALSE
    <3>1. pc[t] = "notify" /\ todo[t] # {}
      BY <1>0, <1>3, <2>3 DEF Start, Read, Pass, Higher, TypeOK
    <3> QED BY <2>3, <3>1 DEF Quiet, Unmoved
  <2> QED BY <1>0, <2>1, <2>2, <2>3, QuietStep
<1>4. ASSUME NEW t \in Thread, FindLower(t) PROVE Quiet'
  <2>1. updated' /\ pc[t] = "read" /\ done' = done
    BY <1>4 DEF FindLower
  <2> QED BY <2>1 DEF Quiet
<1>5. ASSUME NEW t \in Thread, FindSame(t) PROVE Quiet'
  <2>1. /\ ~done /\ ~done' /\ h' = h /\ updated' = updated /\ next' = next
        /\ scheduled' = scheduled /\ pc[t] # "idle" /\ pc'[t] = "notify"
        /\ edge' = edge /\ hi'[t] = h[edge[t]]
    BY <1>0, <1>5 DEF FindSame, TypeOK, Quiet
  <2>2. \A u \in Thread \ {t} : pc'[u] = pc[u] /\ hi'[u] = hi[u] /\ todo'[u] = todo[u]
    BY <1>0, <1>5 DEF FindSame, TypeOK
  <2>3. Unmoved(t)'
    BY <1>5, <2>1 DEF FindSame, Unmoved
  <2> QED BY <1>0, <2>1, <2>2, <2>3, QuietStep
<1>6. ASSUME NEW t \in Thread, NEW f \in EdgeId, Compare(t, f) \/ Mark(t, f) PROVE Quiet'
  <2>1. pc[t] \in {"compare", "mark"} /\ updated' = updated /\ done' = done
    BY <1>6 DEF Compare, Mark
  <2>2. updated
    BY <2>1 DEF Quiet, Unmoved
  <2> QED BY <2>1, <2>2 DEF Quiet
<1>7. ASSUME NEW t \in Thread, Commit(t) PROVE Quiet'
  <2>1. /\ pc[t] = "notify" /\ pc'[t] = "idle" /\ edge[t] \in EdgeId
        /\ updated' = updated /\ next' = next /\ done' = done
        /\ ~scheduled'[edge[t]]
        /\ \A e \in EdgeId \ {edge[t]} : scheduled'[e] = scheduled[e] /\ h'[e] = h[e]
    BY <1>0, <1>7, HeldEdge DEF Commit, TypeOK
  <2>2. \A u \in Thread \ {t} :
          /\ pc'[u] = pc[u] /\ edge'[u] = edge[u] /\ hi'[u] = hi[u] /\ todo'[u] = todo[u]
          /\ pc[u] # "idle" => edge[u] \in EdgeId \ {edge[t]}
    BY <1>0, <1>7, <2>1, HeldEdge DEF Commit, TypeOK, IInv, InFlight
  <2>3. ~done
    BY <2>1 DEF Quiet
  <2>4. ASSUME ~updated', NEW e \in EdgeId, e < next', scheduled'[e]
        PROVE  \E u \in Thread : pc'[u] # "idle" /\ edge'[u] = e
    <3>1. e # edge[t] /\ scheduled[e]
      BY <2>1, <2>4
    <3>2. PICK u \in Thread : pc[u] # "idle" /\ edge[u] = e
      BY <2>1, <2>4, <3>1 DEF Quiet
    <3> QED BY <2>2, <3>1, <3>2
  <2>5. ASSUME ~updated', NEW u \in Thread, pc'[u] \in {"notify", "compare", "mark"}
        PROVE  Unmoved(u)'
    <3>1. u # t
      BY <2>1, <2>5
    <3>2. Unmoved(u) /\ Unmoved(t)
      BY <2>1, <2>2, <2>5, <3>1 DEF Quiet
    <3>3. h' = h
      <4>1. hi[t] = h[edge[t]]
        BY <3>2 DEF Unmoved
      <4> QED BY <1>0, <1>7, <2>1, <4>1 DEF Commit, TypeOK
    <3> QED BY <2>1, <2>2, <3>1, <3>2, <3>3 DEF Unmoved
  <2> QED BY <2>1, <2>3, <2>4, <2>5 DEF Quiet
<1>8. CASE NextRound
  <2>1. next' = 0 /\ done' = done /\ ~done /\ pc' = pc /\ \A t \in Thread : pc[t] = "idle"
    BY <1>8 DEF NextRound, RoundOver
  <2>2. \A e \in EdgeId : ~(e < next')
    BY <2>1, GraphAssumption DEF EdgeId
  <2> QED BY <2>1, <2>2 DEF Quiet
<1>9. CASE Finish
  BY <1>9 DEF Finish, RoundOver, Converged, Quiet, Unmoved
<1>10. CASE UNCHANGED vars
  <2>1. UNCHANGED <<h, scheduled, updated, next, done, pc, edge, todo, hi>>
    BY <1>10 DEF vars
  <2>2. \A t \in Thread : Unmoved(t)' <=> Unmoved(t)
    BY <2>1 DEF Unmoved
  <2>3. ~updated' => \A e \in EdgeId : e < next' /\ scheduled'[e] =>
                       \E t \in Thread : pc'[t] # "idle" /\ edge'[t] = e
    BY <2>1 DEF Quiet
  <2>4. ~updated' => \A t \in Thread : pc'[t] \in {"notify", "compare", "mark"} => Unmoved(t)'
    BY <2>1, <2>2 DEF Quiet
  <2>5. done' => ~updated' /\ next' = NumEdges /\ \A t \in Thread : pc'[t] = "idle"
    BY <2>1 DEF Quiet
  <2> QED BY <2>3, <2>4, <2>5 DEF Quiet
<1> QED
  BY <1>1, <1>2, <1>3, <1>4, <1>5, <1>6, <1>7, <1>8, <1>9, <1>10
  DEF Next, Body, Terminated

LEMMA Invariant == Spec => [](IInv /\ Quiet)
<1>1. Init => IInv /\ Quiet
  BY InitInv, InitQuiet
<1>2. IInv /\ Quiet /\ [Next]_vars => IInv' /\ Quiet'
  BY NextInv, NextQuiet
<1> QED BY <1>1, <1>2, PTL DEF Spec

(* When the loop ends, no edge waits to be recomputed, whatever the        *)
(* threads did: QuietAtEnd.                                                *)
THEOREM QuietAtEndCorrect == Spec => []QuietAtEnd
<1>1. Quiet => QuietAtEnd
  <2>1. \A e \in EdgeId : e < NumEdges
    BY GraphAssumption DEF EdgeId
  <2> QED BY <2>1 DEF Quiet, QuietAtEnd
<1> QED BY <1>1, Invariant, PTL

-----------------------------------------------------------------------------
(* A value up to the recomputed one is supported by as many triangles, and *)
(* a value that many triangles support is at most the recomputed one.      *)
LEMMA Supported ==
  ASSUME NEW e \in EdgeId, NEW g \in [EdgeId -> Nat], NEW k \in Nat
  PROVE  k <= Update(e, g) <=>
           Cardinality({w \in Common[e] : Lower(e, w, g) >= k}) >= k
<1> DEFINE L == Contributions(e, g)
           W(i) == {w \in Common[e] : Lower(e, w, g) >= i}
<1>1. L \in [Common[e] -> Nat] /\ IsFiniteSet(Common[e])
  BY ContributionsType, NearType
<1>2. \A i \in Nat : AtLeast(L, i) = W(i)
  BY <1>1 DEF AtLeast, Contributions
<1>3. /\ Update(e, g) \in Nat /\ Update(e, g) = H_Index(L)
      /\ H_Index(L) \in 0 .. Cardinality(Common[e])
      /\ Cardinality(AtLeast(L, H_Index(L))) >= H_Index(L)
      /\ \A j \in 0 .. Cardinality(Common[e]) :
           Cardinality(AtLeast(L, j)) >= j => j <= H_Index(L)
  BY <1>1, UpdateType, HIndexProperties DEF Update
<1>4. \A i \in Nat : /\ IsFiniteSet(W(i)) /\ Cardinality(W(i)) \in Nat
                     /\ Cardinality(W(i)) <= Cardinality(Common[e])
  <2>1. \A i \in Nat : W(i) \subseteq Common[e]
    OBVIOUS
  <2> QED BY <1>1, <2>1, FS_Subset, FS_CardinalityType
<1>5. Cardinality(Common[e]) \in Nat
  BY <1>1, FS_CardinalityType
<1>6. ASSUME k <= Update(e, g) PROVE Cardinality(W(k)) >= k
  <2>1. W(H_Index(L)) \subseteq W(k)
    <3>1. \A w \in Common[e] : Lower(e, w, g) \in Nat
      BY LowerProperties
    <3> QED BY <1>3, <1>6, <3>1
  <2>2. Cardinality(W(H_Index(L))) <= Cardinality(W(k))
    BY <1>4, <2>1, FS_Subset
  <2>3. Cardinality(W(H_Index(L))) >= H_Index(L) /\ H_Index(L) \in Nat
    BY <1>2, <1>3
  <2>4. Cardinality(W(k)) \in Nat /\ Cardinality(W(H_Index(L))) \in Nat
    BY <1>4, <2>3
  <2> HIDE DEF W, L
  <2> QED BY <1>3, <1>6, <2>2, <2>3, <2>4
<1>7. ASSUME Cardinality(W(k)) >= k PROVE k <= Update(e, g)
  <2>1. k \in 0 .. Cardinality(Common[e]) /\ Cardinality(AtLeast(L, k)) >= k
    <3>1. Cardinality(W(k)) \in Nat /\ Cardinality(W(k)) <= Cardinality(Common[e])
      BY <1>4
    <3>2. AtLeast(L, k) = W(k)
      BY <1>2
    <3> HIDE DEF W, L
    <3> QED BY <1>5, <1>7, <3>1, <3>2
  <2> QED BY <1>3, <2>1
<1> QED BY <1>6, <1>7

(* Values that no recomputation lowers are at most the true ones: the      *)
(* edges of value k or more are a truss.                                   *)
LEMMA SettledBelow ==
  ASSUME NEW g \in [EdgeId -> Nat], \A f \in EdgeId : g[f] <= Update(f, g),
         NEW e \in EdgeId
  PROVE  g[e] <= Kappa[e]
<1> DEFINE k == g[e]
           S == {f \in EdgeId : g[f] >= k}
<1>1. k \in Nat
  OBVIOUS
<1>2. ASSUME NEW f \in S
      PROVE  Cardinality({w \in Common[f] : Sides(f, w) \subseteq S}) >= k
  <2> DEFINE V == {w \in Common[f] : Lower(f, w, g) >= k}
             W == {w \in Common[f] : Sides(f, w) \subseteq S}
  <2>1. k <= Update(f, g)
    <3>1. g[f] >= k /\ g[f] <= Update(f, g) /\ g[f] \in Nat /\ Update(f, g) \in Nat
      BY <1>2, UpdateType
    <3> QED BY <1>1, <3>1
  <2>2. Cardinality(V) >= k
    BY <1>1, <2>1, Supported
  <2>3. V \subseteq W
    <3> SUFFICES ASSUME NEW w \in V, NEW x \in Sides(f, w) PROVE x \in S
      OBVIOUS
    <3>1. x \in EdgeId /\ Lower(f, w, g) <= g[x] /\ Lower(f, w, g) \in Nat
      BY SidesProperties, LowerProperties
    <3> QED BY <1>1, <3>1
  <2>4. IsFiniteSet(W) /\ W \subseteq Common[f]
    BY NearType, FS_Subset
  <2>5. Cardinality(V) <= Cardinality(W) /\ Cardinality(V) \in Nat /\ Cardinality(W) \in Nat
    BY <2>3, <2>4, FS_Subset, FS_CardinalityType
  <2> HIDE DEF V
  <2> QED BY <1>1, <2>2, <2>5
<1>3. InTruss(e, k)
  <2>1. e \in S /\ S \in SUBSET EdgeId
    OBVIOUS
  <2>2. IsTruss(S, k)
    BY <1>2 DEF IsTruss
  <2> QED BY <2>1, <2>2 DEF InTruss
<1>4. k \in 0 .. Cardinality(Node)
  <2> DEFINE V == {w \in Common[e] : Lower(e, w, g) >= k}
  <2>1. Cardinality(V) >= k
    BY <1>1, Supported
  <2>2. V \subseteq Node /\ IsFiniteSet(Node)
    BY NearType, GraphAssumption
  <2>3. /\ Cardinality(V) <= Cardinality(Node)
        /\ Cardinality(V) \in Nat /\ Cardinality(Node) \in Nat
    BY <2>2, FS_Subset, FS_CardinalityType
  <2> HIDE DEF V
  <2> QED BY <1>1, <2>1, <2>3
<1> QED BY <1>3, <1>4, KappaProperties

(* Edges are near each other, and not near themselves.                     *)
LEMMA NearSymmetric ==
  ASSUME NEW e \in EdgeId, NEW f \in Near[e]
  PROVE  f # e /\ f \in EdgeId /\ e \in Near[f]
<1>1. PICK w \in Common[e] : f \in Sides(e, w)
  BY DEF Near
<1>2. f \in EdgeId /\ w \in Node \ Ends[e]
  BY <1>1 DEF Sides, Common
<1>3. PICK u \in Ends[e] : Ends[f] = {u, w}
  BY <1>1 DEF Sides
<1>4. PICK v \in Node : v # u /\ Ends[e] = {u, v}
  BY <1>3, GraphAssumption
<1>5. f # e
  BY <1>2, <1>3
<1>6. v \in Common[f]
  <2>1. PICK x \in EdgeId : Ends[x] = {v, w}
    BY <1>1, <1>4 DEF Common
  <2>2. v \in Node \ Ends[f]
    BY <1>2, <1>3, <1>4
  <2>3. \A y \in Ends[f] : \E x1 \in EdgeId : Ends[x1] = {y, v}
    BY <1>3, <1>4, <2>1
  <2> QED BY <1>2, <2>2, <2>3 DEF Common
<1>7. e \in Sides(f, v)
  BY <1>3, <1>4 DEF Sides
<1> QED BY <1>2, <1>5, <1>6, <1>7 DEF Near

(* Lowering the value of one edge leaves another settled unless it falls   *)
(* below that one's value from there or above: the test of the code.       *)
LEMMA StaysSettled ==
  ASSUME NEW g \in [EdgeId -> Nat], NEW k \in [EdgeId -> Nat],
         NEW e \in EdgeId, NEW f \in EdgeId, \A x \in EdgeId \ {e} : k[x] = g[x],
         g[f] <= Update(f, g),
         e \in Near[f] => g[f] <= k[e] \/ g[e] < g[f]
  PROVE  g[f] <= Update(f, k)
<1> DEFINE V == {w \in Common[f] : Lower(f, w, g) >= g[f]}
           W == {w \in Common[f] : Lower(f, w, k) >= g[f]}
<1>1. Cardinality(V) >= g[f]
  BY Supported
<1>2. V \subseteq W
  <2> SUFFICES ASSUME NEW w \in V PROVE Lower(f, w, k) >= g[f]
    OBVIOUS
  <2>1. PICK x \in Sides(f, w) : Lower(f, w, k) = k[x]
    BY LowerProperties
  <2>2. /\ x \in EdgeId /\ x \in Near[f]
        /\ Lower(f, w, g) <= g[x] /\ Lower(f, w, g) \in Nat
    BY SidesProperties, LowerProperties
  <2>3. g[x] >= g[f] /\ g[x] \in Nat /\ g[f] \in Nat /\ k[x] \in Nat
    BY <2>2
  <2>4. k[x] >= g[f]
    <3>1. CASE x = e
      BY <2>2, <2>3, <3>1
    <3>2. CASE x # e
      BY <2>2, <2>3, <3>2
    <3> QED BY <3>1, <3>2
  <2> QED BY <2>1, <2>4
<1>3. IsFiniteSet(W)
  BY NearType, FS_Subset
<1>4. Cardinality(V) <= Cardinality(W) /\ Cardinality(V) \in Nat /\ Cardinality(W) \in Nat
  BY <1>2, <1>3, FS_Subset, FS_CardinalityType
<1>5. Cardinality(W) >= g[f]
  <2> HIDE DEF V, W
  <2> QED BY <1>1, <1>4
<1> QED BY <1>5, Supported
-----------------------------------------------------------------------------
(* A thread that works alone reads values that are still true when it uses *)
(* them: whatever it does not recompute again is settled.                  *)
Alone(t) == \A u \in Thread \ {t} : pc[u] = "idle"
Settled == \A e \in EdgeId : ~scheduled[e] => h[e] <= Update(e, h)
(* e's new value concerns f: both loads of the test find so.               *)
Due(t, f) == hi[t] < h[f] /\ h[f] <= h[edge[t]]
Fresh(t) ==
  /\ pc[t] \in {"read", "notify", "compare", "mark"} => scheduled[edge[t]]
  /\ pc[t] = "read" => \A f \in Near[edge[t]] \ todo[t] : val[t][f] = h[f]
  /\ pc[t] \in {"notify", "compare", "mark"} =>
       /\ hi[t] = Update(edge[t], h)
       /\ \A f \in Near[edge[t]] \ todo[t] : Due(t, f) => scheduled[f]

LEMMA InitSettled ==
  ASSUME Init, NEW t \in Thread
  PROVE  Settled /\ Fresh(t)
<1>1. pc[t] = "idle" /\ \A e \in EdgeId : scheduled[e]
  BY DEF Init
<1> QED BY <1>1 DEF Settled, Fresh

(* Values equal near e give equal updates of e.                            *)
LEMMA UpdateLocal ==
  ASSUME NEW e \in EdgeId, NEW g \in [EdgeId -> Nat], NEW k \in [EdgeId -> Nat],
         \A f \in Near[e] : g[f] = k[f]
  PROVE  Update(e, g) = Update(e, k)
<1>1. \A f \in Near[e] : f \in EdgeId /\ g[f] \in Nat /\ k[f] \in Nat
  BY NearType
<1>2. Update(e, g) <= Update(e, k) /\ Update(e, k) <= Update(e, g)
  BY <1>1, UpdateMonotone
<1> QED BY <1>2, UpdateType

LEMMA SettledStep ==
  ASSUME TypeOK, TypeOK', NEW t \in Thread, Settled, Fresh(t), Body(t)
  PROVE  Settled' /\ Fresh(t)'
<1>0. h \in [EdgeId -> Nat] /\ h' \in [EdgeId -> Nat]
  BY DEF TypeOK
<1>1. ASSUME h' = h, scheduled' = scheduled PROVE Settled'
  BY <1>1 DEF Settled
<1>2. CASE Claim(t) \/ Skip(t)
  <2>1. pc'[t] \in {"idle", "test"} /\ h' = h /\ scheduled' = scheduled
    BY <1>2 DEF Claim, Skip, TypeOK
  <2> QED BY <1>1, <2>1 DEF Fresh
<1>3. CASE Start(t)
  <2>1. /\ pc'[t] = "read" /\ edge'[t] = edge[t] /\ scheduled[edge[t]]
        /\ todo'[t] = Near[edge[t]] /\ h' = h /\ scheduled' = scheduled
    BY <1>3 DEF Start, TypeOK
  <2> QED BY <1>1, <2>1 DEF Fresh
<1>4. ASSUME NEW f \in EdgeId, Read(t, f) PROVE Settled' /\ Fresh(t)'
  <2>1. /\ pc[t] = "read" /\ pc'[t] = "read" /\ edge' = edge
        /\ todo'[t] = todo[t] \ {f} /\ val'[t] = [val[t] EXCEPT ![f] = h[f]]
        /\ val[t] \in [EdgeId -> Nat] /\ h' = h /\ scheduled' = scheduled
    BY <1>4 DEF Read, TypeOK
  <2>2. edge[t] \in EdgeId /\ Near[edge[t]] \subseteq EdgeId
    BY <2>1, HeldEdge, NearType
  <2>3. \A g \in Near[edge[t]] \ todo'[t] : val'[t][g] = h[g]
    BY <2>1, <2>2 DEF Fresh
  <2>4. scheduled[edge[t]]
    BY <2>1 DEF Fresh
  <2> QED BY <1>1, <2>1, <2>3, <2>4 DEF Fresh
<1>5. CASE FindLower(t) \/ FindSame(t)
  <2>1. /\ pc[t] = "read" /\ todo[t] = {} /\ pc'[t] = "notify" /\ edge' = edge
        /\ hi'[t] = NewValue(t) /\ h' = h /\ scheduled' = scheduled
        /\ val[t] \in [EdgeId -> Nat]
    BY <1>5 DEF FindLower, FindSame, TypeOK
  <2>2. edge[t] \in EdgeId /\ scheduled[edge[t]]
    BY <2>1, HeldEdge DEF Fresh
  <2>3. NewValue(t) = Update(edge[t], h)
    <3>1. \A f \in Near[edge[t]] : val[t][f] = h[f]
      BY <2>1 DEF Fresh
    <3> QED BY <1>0, <2>1, <2>2, <3>1, UpdateLocal DEF NewValue
  <2>4. ASSUME NEW f \in Near[edge[t]] \ todo'[t] PROVE ~Due(t, f)'
    <3>1. CASE FindLower(t)
      <4>1. todo'[t] = Near[edge[t]]
        BY <3>1 DEF FindLower, TypeOK
      <4> QED BY <2>4, <4>1
    <3>2. CASE FindSame(t)
      <4>1. hi'[t] = h[edge[t]] /\ h[edge[t]] \in Nat /\ h[f] \in Nat
        BY <1>0, <2>1, <2>2, <2>4, <3>2, NearType DEF FindSame
      <4> QED BY <2>1, <4>1 DEF Due
    <3> QED BY <1>5, <3>1, <3>2
  <2> QED BY <1>1, <2>1, <2>2, <2>3, <2>4 DEF Fresh
<1>6. ASSUME NEW f \in EdgeId, Pass(t, f) \/ Higher(t, f) \/ Compare(t, f)
      PROVE  Settled' /\ Fresh(t)'
  <2>0. pc[t] \in {"notify", "compare"} /\ edge[t] \in EdgeId /\ hi[t] \in Nat /\ h[f] \in Nat
    BY <1>0, <1>6, HeldEdge DEF Pass, Higher, Compare, TypeOK
  <2>1. /\ pc[t] \in {"notify", "compare"} /\ pc'[t] \in {"notify", "compare", "mark"}
        /\ edge' = edge /\ hi' = hi /\ h' = h /\ scheduled' = scheduled
        /\ todo'[t] = todo[t] \/ (todo'[t] = todo[t] \ {f} /\ ~Due(t, f))
    BY <1>6, <2>0 DEF Pass, Higher, Compare, Affected, Due, TypeOK
  <2>2. \A g \in EdgeId : Due(t, g)' <=> Due(t, g)
    BY <2>1 DEF Due
  <2>3. /\ scheduled[edge[t]] /\ hi[t] = Update(edge[t], h)
        /\ \A g \in Near[edge[t]] \ todo[t] : Due(t, g) => scheduled[g]
    <3>1. pc[t] \in {"notify", "compare", "mark"} /\ pc[t] \in {"read", "notify", "compare", "mark"}
      BY <2>0
    <3> QED BY <3>1 DEF Fresh
  <2>4. edge[t] \in EdgeId /\ Near[edge[t]] \subseteq EdgeId
    BY <2>0, NearType
  <2>5. \A g \in Near[edge[t]] \ todo'[t] : Due(t, g)' => scheduled'[g]
    BY <2>1, <2>2, <2>3, <2>4
  <2> QED BY <1>1, <2>1, <2>3, <2>5 DEF Fresh
<1>7. ASSUME NEW f \in EdgeId, Mark(t, f) PROVE Settled' /\ Fresh(t)'
  <2>1. /\ pc[t] = "mark" /\ pc'[t] = "notify" /\ edge' = edge
        /\ hi' = hi /\ h' = h /\ todo'[t] = todo[t] \ {f} /\ scheduled'[f]
        /\ \A g \in EdgeId : scheduled[g] => scheduled'[g]
    BY <1>7 DEF Mark, TypeOK
  <2>2. \A g \in EdgeId : Due(t, g)' <=> Due(t, g)
    BY <2>1 DEF Due
  <2>3. edge[t] \in EdgeId /\ Near[edge[t]] \subseteq EdgeId
    BY <2>1, HeldEdge, NearType
  <2>4. /\ scheduled'[edge[t]] /\ hi[t] = Update(edge[t], h)
        /\ \A g \in Near[edge[t]] \ todo[t] : Due(t, g) => scheduled[g]
    BY <2>1, <2>3 DEF Fresh
  <2>5. \A g \in Near[edge[t]] \ todo'[t] : Due(t, g)' => scheduled'[g]
    BY <2>1, <2>2, <2>3, <2>4
  <2>6. Settled'
    BY <2>1 DEF Settled
  <2> QED BY <2>1, <2>4, <2>5, <2>6 DEF Fresh
<1>8. CASE Commit(t)
  <2> DEFINE e == edge[t]
  <2>1. /\ pc[t] = "notify" /\ pc'[t] = "idle" /\ todo[t] = {}
        /\ h' = [h EXCEPT ![e] = hi[t]]
        /\ scheduled' = [scheduled EXCEPT ![e] = FALSE]
        /\ scheduled \in [EdgeId -> BOOLEAN]
    BY <1>8 DEF Commit, TypeOK
  <2>2. e \in EdgeId /\ hi[t] = Update(e, h) /\ h'[e] = hi[t]
    BY <1>0, <2>1, HeldEdge DEF Fresh
  <2>3. \A f \in EdgeId \ {e} : h'[f] = h[f] /\ scheduled'[f] = scheduled[f]
    BY <1>0, <2>1, <2>2
  <2>4. h'[e] <= Update(e, h')
    <3>1. \A f \in Near[e] : h[f] = h'[f]
      BY <2>2, <2>3, NearSymmetric
    <3>2. Update(e, h) = Update(e, h')
      BY <1>0, <2>2, <3>1, UpdateLocal
    <3> QED BY <1>0, <2>2, <3>2, UpdateType
  <2>5. ASSUME NEW f \in EdgeId \ {e}, ~scheduled'[f]
        PROVE  h'[f] <= Update(f, h')
    <3>1. ~scheduled[f] /\ h[f] <= Update(f, h) /\ h'[f] = h[f]
      BY <2>3, <2>5 DEF Settled
    <3>2. ASSUME e \in Near[f] PROVE h[f] <= h'[e] \/ h[e] < h[f]
      <4>1. f \in Near[e]
        BY <3>2, NearSymmetric
      <4>2. ~Due(t, f)
        BY <2>1, <3>1, <4>1 DEF Fresh
      <4>3. h[f] \in Nat /\ h[e] \in Nat /\ h'[e] \in Nat
        BY <1>0, <2>2
      <4> QED BY <2>2, <4>2, <4>3 DEF Due
    <3>3. h[f] <= Update(f, h')
      <4> HIDE DEF e
      <4> QED BY <1>0, <2>2, <2>3, <3>1, <3>2, StaysSettled
    <3> QED BY <3>1, <3>3
  <2>6. Settled'
    BY <2>4, <2>5 DEF Settled
  <2> QED BY <2>1, <2>6 DEF Fresh
<1> QED BY <1>2, <1>3, <1>4, <1>5, <1>6, <1>7, <1>8 DEF Body

(* With every other thread idle before and after, a step is t's own or the *)
(* end of a round.                                                         *)
LEMMA AloneStep ==
  ASSUME IInv, NEW t \in Thread, Alone(t), Alone(t)', Settled, Fresh(t),
         [Next]_vars
  PROVE  Settled' /\ Fresh(t)'
<1>1. TypeOK /\ TypeOK'
  BY NextType DEF IInv
<1>2. CASE Body(t)
  BY <1>1, <1>2, SettledStep
<1>3. ASSUME NEW u \in Thread \ {t}, Body(u) PROVE FALSE
  <2>1. pc[u] = "idle" /\ pc'[u] = "idle"
    BY DEF Alone
  <2>2. Claim(u)
    BY <1>3, <2>1 DEF Body, Skip, Start, Read, Pass, Higher, Compare, Mark, FindLower,
                      FindSame, Commit
  <2> QED BY <1>1, <2>1, <2>2 DEF Claim, TypeOK
<1>4. CASE NextRound \/ Finish \/ UNCHANGED vars
  <2>1. UNCHANGED <<h, scheduled, pc, edge, val, todo, hi>>
    BY <1>4 DEF NextRound, Finish, vars
  <2> QED BY <2>1 DEF Settled, Fresh, Due
<1> QED BY <1>2, <1>3, <1>4 DEF Next, Terminated

(* When the loop ends with every edge settled, the estimates are exact.    *)
LEMMA SettledExact ==
  ASSUME IInv, Quiet, Settled
  PROVE  Exact
<1> SUFFICES ASSUME done PROVE
      /\ \A e \in EdgeId : trussness[e] = Kappa[e] + 2
      /\ \A v \in Node : \A k \in 3 .. Cardinality(Node) + 2 :
           k <= node_trussness[v] <=> \E e \in Incident(v) : Kappa[e] >= k - 2
  BY DEF Exact
<1>1. h \in [EdgeId -> Nat] /\ Kappa \in [EdgeId -> Nat]
  BY KappaProperties DEF IInv, TypeOK
<1>2. \A e \in EdgeId : h[e] <= Update(e, h)
  <2>1. \A e \in EdgeId : e < NumEdges
    BY GraphAssumption DEF EdgeId
  <2> QED BY <2>1 DEF Quiet, Settled
<1>3. ASSUME NEW e \in EdgeId PROVE trussness[e] = Kappa[e] + 2
  <2>1. h[e] <= Kappa[e] /\ Kappa[e] <= h[e]
    BY <1>1, <1>2, SettledBelow DEF IInv, NeverBelow
  <2> QED BY <1>1, <2>1 DEF trussness
<1>4. ASSUME NEW v \in Node, NEW k \in 3 .. Cardinality(Node) + 2
      PROVE  k <= node_trussness[v] <=> \E e \in Incident(v) : Kappa[e] >= k - 2
  <2> DEFINE M == {2} \cup {trussness[e] : e \in Incident(v)}
             m == node_trussness[v]
  <2>1. Incident(v) \subseteq EdgeId
    BY DEF Incident
  <2>2. \A e \in Incident(v) : trussness[e] = Kappa[e] + 2 /\ Kappa[e] \in Nat
    BY <1>1, <1>3, <2>1
  <2>3. M \in SUBSET Nat /\ M # {} /\ IsFiniteSet(M)
    <3>1. IsFiniteSet(EdgeId)
      BY GraphAssumption, FS_Interval DEF EdgeId
    <3>2. IsFiniteSet({trussness[e] : e \in Incident(v)})
      BY <2>1, <3>1, FS_Subset, FiniteImage
    <3>3. IsFiniteSet({2} \cup {trussness[e] : e \in Incident(v)})
      BY <3>2, FS_Singleton, FS_Union
    <3> QED BY <2>2, <3>3
  <2>4. PICK i \in M : \A j \in M : j <= i
    <3> HIDE DEF M
    <3> QED BY <2>3, FiniteHasGreatest
  <2>5. m \in M /\ \A e \in Incident(v) : trussness[e] <= m
    BY <2>4 DEF node_trussness
  <2>6. k \in Nat /\ k >= 3 /\ m \in Nat
    <3>1. Cardinality(Node) \in Nat
      BY GraphAssumption, FS_CardinalityType
    <3> QED BY <2>3, <2>5, <3>1
  <2>7. ASSUME k <= m PROVE \E e \in Incident(v) : Kappa[e] >= k - 2
    <3>1. PICK e \in Incident(v) : m = trussness[e]
      BY <2>5, <2>6, <2>7
    <3> QED BY <2>2, <2>6, <2>7, <3>1
  <2>8. ASSUME NEW e \in Incident(v), Kappa[e] >= k - 2 PROVE k <= m
    BY <2>2, <2>5, <2>6, <2>8
  <2> QED BY <2>7, <2>8
<1> QED BY <1>3, <1>4

(* A run in which one thread gets all the edges, numThreads = 1 first of   *)
(* all, ends with the trussness of every edge and vertex: the test of the  *)
(* code notifies whom it has to.                                           *)
THEOREM ExactAloneCorrect == Spec => ExactAlone
<1>1. ASSUME NEW t \in Thread PROVE Spec /\ []Alone(t) => []Exact
  <2>1. Init => Settled /\ Fresh(t)
    BY InitSettled
  <2>2. IInv /\ Alone(t) /\ Alone(t)' /\ Settled /\ Fresh(t) /\ [Next]_vars
          => Settled' /\ Fresh(t)'
    BY AloneStep
  <2>3. IInv /\ Quiet /\ Settled => Exact
    BY SettledExact
  <2> QED BY <2>1, <2>2, <2>3, Invariant, PTL DEF Spec
<1> QED BY <1>1 DEF ExactAlone, Alone
=============================================================================
