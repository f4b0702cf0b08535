-------------------------- MODULE LayerBuildProofs --------------------------
(***************************************************************************)
(* Proofs about LayerBuild for every layer, every max_degree, any number   *)
(* of threads and any sequence of passes.                                  *)
(***************************************************************************)
EXTENDS LayerBuild, FiniteSetTheorems, Extrema, TLAPS

(* What a search has found is in its component if no other thread can move *)
(* its entry vertex, or none could in the loops up to the p-th.            *)
HeldUpTo(p) == \A k \in DOMAIN Passes : k <= p => Passes[k].hold

Kin(p, v, u) == OwnEntryPoint \/ HeldUpTo(p) => SameComponent(u, v)

LEMMA KinProperties ==
  ASSUME NEW p
  PROVE  /\ \A v \in Node : Kin(p, v, v)
         /\ \A u, v \in Node : Kin(p, v, u) => Kin(p, u, v)
         /\ \A u, v, w \in Node : Kin(p, v, u) /\ Kin(p, u, w) => Kin(p, v, w)
  BY DEF Kin, SameComponent

(* A list a vertex v may have: it starts with the locked neighbours, is    *)
(* within max_degree and well formed.                                      *)
Extends(v, s) ==
  /\ Locked(v) <= Len(s)
  /\ \A k \in 1 .. Locked(v) : s[k] = Start[v][k]

IsList(p, v, s) ==
  /\ s \in Seq(Node) /\ Len(s) <= Degree /\ IsWellFormed(v, s) /\ Extends(v, s)
  /\ \A k \in DOMAIN s : Kin(p, v, s[k])

(* After another loop, less is known.                                      *)
LEMMA ListStays ==
  ASSUME NEW p \in Nat, NEW v, NEW s, IsList(p, v, s)
  PROVE  IsList(p + 1, v, s)
<1>1. Passes \in Seq([order : Seq(Node), hold : BOOLEAN,
                     blocks : SUBSET (Node \X Node \X Node \X Nat)])
  BY LayerAssumption
<1>2. HeldUpTo(p + 1) => HeldUpTo(p)
  <2>1. \A k \in DOMAIN Passes : k \in Nat
    BY <1>1
  <2> QED BY <2>1 DEF HeldUpTo
<1> QED BY <1>2 DEF IsList, Kin

(* What the distances in the heap of Robust_Prune_Build are.               *)
LEMMA InDistances ==
  ASSUME NEW v \in Node
  PROVE  /\ Dist[v] \in Distances
         /\ \A c \in Node : \A list : Offered(v, c, list) \in Distances
<1>1. /\ Dist[v] \in [Node -> Nat]
      /\ \A c \in Node : Dist[c][v] \in Nat
      /\ \A u, w \in Node : Dist[v][u] = Dist[v][w] => u = w
      /\ \A c, u \in Node : Dist[c][v] = Dist[v][u] => c = u
  <2>1. \A q, u, w \in Node :
          Dist[q][u] = Dist[q][w] \/ Dist[q][u] = Dist[w][q] => u = w
    BY LayerAssumption
  <2>2. \A c, u \in Node : Dist[v][u] = Dist[c][v] => u = c
    BY <2>1
  <2> QED BY <2>1, <2>2, LayerAssumption
<1>2. Dist[v] \in Distances
  BY <1>1 DEF Distances
<1>3. ASSUME NEW c \in Node PROVE [Dist[v] EXCEPT ![c] = Dist[c][v]] \in Distances
  <2> DEFINE d == [Dist[v] EXCEPT ![c] = Dist[c][v]]
  <2>1. /\ d \in [Node -> Nat] /\ d[c] = Dist[c][v]
        /\ \A u \in Node \ {c} : d[u] = Dist[v][u]
    BY <1>1
  <2>2. ASSUME NEW u \in Node, NEW w \in Node, d[u] = d[w], u # w PROVE FALSE
    <3> HIDE DEF d
    <3>1. CASE u = c
      BY <1>1, <2>1, <2>2, <3>1
    <3>2. CASE w = c
      <4>1. d[u] = Dist[v][u] /\ d[w] = Dist[c][v]
        BY <2>1, <2>2, <3>2
      <4> QED BY <1>1, <2>2, <3>2, <4>1
    <3>3. CASE u # c /\ w # c
      BY <1>1, <2>1, <2>2, <3>3
    <3> QED BY <3>1, <3>2, <3>3
  <2> HIDE DEF d
  <2>3. d \in Distances
    BY <2>1, <2>2 DEF Distances
  <2> QED BY <2>3 DEF d
<1> QED BY <1>2, <1>3 DEF Offered

LEMMA NearerOrder ==
  ASSUME NEW d \in Distances
  PROVE  /\ \A a \in Node : ~Nearer(d, a, a)
         /\ \A a, b \in Node : a = b \/ Nearer(d, a, b) \/ Nearer(d, b, a)
         /\ \A a, b, c \in Node :
              Nearer(d, a, b) /\ Nearer(d, b, c) => Nearer(d, a, c)
<1>1. \A a \in Node : d[a] \in Nat
  BY DEF Distances
<1>2. \A a, b \in Node : d[a] = d[b] => a = b
  BY DEF Distances
<1> QED BY <1>1, <1>2 DEF Nearer

(* A nonempty finite set of vertices has one that is farthest: the one     *)
(* with the most vertices nearer than it.                                  *)
LEMMA Farthest ==
  ASSUME NEW d \in Distances, NEW S \in SUBSET Node, IsFiniteSet(S), S # {}
  PROVE  \E c \in S : \A g \in S \ {c} : Nearer(d, g, c)
<1> DEFINE before(c) == {g \in S : Nearer(d, g, c)}
           T == {Cardinality(before(c)) : c \in S}
<1>1. \A c \in S : /\ before(c) \in SUBSET S /\ IsFiniteSet(before(c))
                   /\ Cardinality(before(c)) \in 0 .. Cardinality(S)
  <2>1. TAKE c \in S
  <2>2. before(c) \in SUBSET S
    OBVIOUS
  <2>3. IsFiniteSet(before(c)) /\ Cardinality(before(c)) <= Cardinality(S)
    BY <2>2, FS_Subset
  <2>4. Cardinality(before(c)) \in Nat /\ Cardinality(S) \in Nat
    BY <2>3, FS_CardinalityType
  <2> QED BY <2>2, <2>3, <2>4
<1>2. T \in SUBSET (0 .. Cardinality(S)) /\ T # {}
  BY <1>1
<1>3. PICK m \in T : \A n \in T : n <= m
  <2> HIDE DEF T
  <2>1. Cardinality(S) \in Nat
    BY FS_CardinalityType
  <2> QED BY <1>2, <2>1, GreatestElement
<1>4. PICK c \in S : m = Cardinality(before(c))
  BY <1>3
<1>5. ASSUME NEW g \in S \ {c} PROVE Nearer(d, g, c)
  <2> SUFFICES ASSUME ~Nearer(d, g, c) PROVE FALSE
    OBVIOUS
  <2>1. Nearer(d, c, g) /\ ~Nearer(d, c, c)
    BY <1>5, NearerOrder
  <2>2. before(c) \cup {c} \in SUBSET before(g)
    BY <2>1, NearerOrder
  <2>3. c \notin before(c)
    BY <2>1
  <2>4. Cardinality(before(c) \cup {c}) = Cardinality(before(c)) + 1
        /\ IsFiniteSet(before(c) \cup {c})
    BY <1>1, <2>3, FS_AddElement
  <2>5. Cardinality(before(c) \cup {c}) <= Cardinality(before(g))
    BY <1>1, <1>5, <2>2, FS_Subset
  <2>6. Cardinality(before(g)) <= m
    BY <1>3, <1>5
  <2>7. Cardinality(before(c)) \in Nat /\ Cardinality(before(g)) \in Nat
    BY <1>1, <1>5
  <2> HIDE DEF before
  <2> QED BY <1>4, <2>4, <2>5, <2>6, <2>7
<1> QED BY <1>5

(* A set each of whose members has fewer than space nearer members has at  *)
(* most space members.                                                     *)
LEMMA FewNearer ==
  ASSUME NEW d \in Distances, NEW S \in SUBSET Node, IsFiniteSet(S),
         NEW space \in Nat,
         \A c \in S : Cardinality({g \in S : Nearer(d, g, c)}) < space
  PROVE  Cardinality(S) <= space
<1>1. CASE S = {}
  <2>1. Cardinality(S) = 0
    BY <1>1, FS_EmptySet
  <2> QED BY <2>1
<1>2. CASE S # {}
  <2>1. PICK c \in S : \A g \in S \ {c} : Nearer(d, g, c)
    BY <1>2, Farthest
  <2>2. {g \in S : Nearer(d, g, c)} = S \ {c}
    BY <2>1, NearerOrder
  <2>3. Cardinality(S \ {c}) = Cardinality(S) - 1 /\ IsFiniteSet(S \ {c})
    BY FS_RemoveElement
  <2>4. Cardinality(S) \in Nat
    BY FS_CardinalityType
  <2>5. Cardinality(S) - 1 < space
    BY <2>2, <2>3
  <2> QED BY <2>4, <2>5
<1> QED BY <1>1, <1>2

(* Ranked: the members of S, once each.                                    *)
LEMMA RankedProperties ==
  ASSUME NEW d \in Distances, NEW S \in SUBSET Node, IsFiniteSet(S),
         NEW s \in Ranked(d, S)
  PROVE  /\ s \in Seq(Node) /\ Len(s) = Cardinality(S)
         /\ \A i \in DOMAIN s : s[i] \in S
         /\ \A i, j \in DOMAIN s : s[i] = s[j] => i = j
         /\ Elems(s) = S
<1>1. Cardinality(S) \in Nat
  BY FS_CardinalityType
<1>2. /\ s \in [1 .. Cardinality(S) -> S]
      /\ \A i, j \in DOMAIN s : i < j => Nearer(d, s[i], s[j])
  BY DEF Ranked
<1>3. s \in Seq(Node) /\ Len(s) = Cardinality(S)
  BY <1>1, <1>2
<1>4. \A i \in DOMAIN s : s[i] \in S
  BY <1>2
<1>5. \A i, j \in DOMAIN s : s[i] = s[j] => i = j
  <2> SUFFICES ASSUME NEW i \in DOMAIN s, NEW j \in DOMAIN s, s[i] = s[j], i # j
               PROVE  FALSE
    OBVIOUS
  <2>1. i \in 1 .. Cardinality(S) /\ j \in 1 .. Cardinality(S)
    BY <1>2
  <2>2. i < j \/ j < i
    BY <1>1, <2>1
  <2>3. Nearer(d, s[i], s[j]) \/ Nearer(d, s[j], s[i])
    BY <1>2, <2>2
  <2> QED BY <1>4, <2>3, NearerOrder
<1>6. Elems(s) = S
  <2>1. s \in Injection(1 .. Cardinality(S), S)
    BY <1>2, <1>5 DEF Injection, IsInjective
  <2>2. Cardinality(1 .. Cardinality(S)) = Cardinality(S)
    BY <1>1, FS_Interval
  <2>3. s \in Surjection(1 .. Cardinality(S), S)
    BY <2>1, <2>2, FS_Injection
  <2>4. \A c \in S : \E i \in 1 .. Cardinality(S) : s[i] = c
    BY <2>3 DEF Surjection
  <2> QED BY <1>2, <2>4 DEF Elems
<1> QED BY <1>3, <1>4, <1>5, <1>6

-----------------------------------------------------------------------------
(* Robust_Prune_Build turns a list of v into a list of v.                  *)
LEMMA PrunedIsList ==
  ASSUME NEW v \in Node, NEW d \in Distances, NEW list, IsList(pass, v, list),
         NEW cands \in SUBSET Node, \A c \in cands : Kin(pass, v, c),
         NEW blocks, NEW s \in Pruned(v, d, list, cands, blocks)
  PROVE  IsList(pass, v, s)
<1> DEFINE keep == SubSeq(list, 1, Locked(v))
           pool == Pool(v, list, cands)
<1>1. /\ IsFiniteSet(Node) /\ Degree \in Nat
      /\ Start[v] \in Seq(Node) /\ Locked(v) \in Nat
  BY LayerAssumption DEF Locked
<1>2. /\ list \in Seq(Node) /\ Len(list) <= Degree /\ IsWellFormed(v, list)
      /\ Locked(v) <= Len(list) /\ \A k \in DOMAIN list : Kin(pass, v, list[k])
      /\ \A k \in 1 .. Locked(v) : list[k] = Start[v][k]
  BY DEF IsList, Extends
<1>3. /\ keep \in Seq(Node) /\ Len(keep) = Locked(v) /\ DOMAIN keep = 1 .. Locked(v)
      /\ \A k \in 1 .. Locked(v) : keep[k] = list[k] /\ k \in DOMAIN list
  BY <1>1, <1>2
<1>4. pool \in SUBSET Node
      /\ \A c \in pool : /\ c # v /\ Kin(pass, v, c)
                         /\ \A k \in DOMAIN keep : keep[k] # c
  <2>1. Elems(list) \in SUBSET Node /\ \A c \in Elems(list) : Kin(pass, v, c)
    BY <1>2 DEF Elems
  <2>2. \A k \in DOMAIN keep : keep[k] \in Elems(keep)
    BY DEF Elems
  <2> QED BY <2>1, <2>2 DEF Pool
<1> DEFINE good == {G \in SUBSET pool : IsGood(G, v, d, keep, pool, blocks)}
           recycled(G) ==
             {R \in SUBSET (pool \ G) :
                IsRecycled(R, d, pool \ G, Degree - Len(keep) - Cardinality(G))}
           lists(G, R) ==
             {keep \o p[1] \o p[2] : p \in Ranked(d, G) \X Ranked(d, R)}
<1>a. s \in UNION {UNION {lists(G, R) : R \in recycled(G)} : G \in good}
  BY DEF Pruned
<1>b. \E G \in good : \E R \in recycled(G) : s \in lists(G, R)
  <2> HIDE DEF good, recycled, lists
  <2> QED BY <1>a
<1>5. PICK G \in good : \E R \in recycled(G) : s \in lists(G, R)
  BY <1>b
<1>6. PICK R \in recycled(G) : s \in lists(G, R)
  BY <1>5
<1>7. PICK x \in Ranked(d, G), y \in Ranked(d, R) : s = keep \o x \o y
  <2>1. PICK p \in Ranked(d, G) \X Ranked(d, R) : s = keep \o p[1] \o p[2]
    BY <1>6
  <2> QED BY <2>1
<1>c. /\ G \in SUBSET pool /\ IsGood(G, v, d, keep, pool, blocks)
      /\ R \in SUBSET (pool \ G)
      /\ IsRecycled(R, d, pool \ G, Degree - Len(keep) - Cardinality(G))
  BY <1>5, <1>6
<1> HIDE DEF keep, pool, good, recycled, lists
<1>8. /\ G \in SUBSET Node /\ R \in SUBSET Node /\ pool \ G \in SUBSET Node
      /\ IsFiniteSet(G) /\ IsFiniteSet(R)
      /\ IsFiniteSet(pool \ G) /\ G \cap R = {}
      /\ Cardinality(G) \in Nat /\ Cardinality(R) \in Nat
  <2>1. G \in SUBSET Node /\ R \in SUBSET Node /\ pool \ G \in SUBSET Node
    BY <1>4, <1>c
  <2>2. IsFiniteSet(G) /\ IsFiniteSet(R) /\ IsFiniteSet(pool \ G)
    BY <1>1, <2>1, FS_Subset
  <2> QED BY <1>c, <2>1, <2>2, FS_CardinalityType
<1>9. Len(keep) + Cardinality(G) <= Degree
  <2> DEFINE space == Degree - Len(keep)
  <2>1. space \in Nat
    BY <1>1, <1>2, <1>3
  <2>2. \A c \in G : Cardinality({g \in G : Nearer(d, g, c)}) < space
    <3>1. TAKE c \in G
    <3>2. {g \in G : Nearer(d, g, c)} \in SUBSET G
      OBVIOUS
    <3>3. Cardinality({g \in G : Nearer(d, g, c)}) \in Nat
      BY <1>8, <3>2, FS_Subset, FS_CardinalityType
    <3>4. Len(keep) + Cardinality({g \in G : Nearer(d, g, c)}) < Degree
      BY <1>c DEF IsGood
    <3> QED BY <1>1, <1>3, <3>3, <3>4
  <2> HIDE DEF space
  <2>3. Cardinality(G) <= space
    BY <1>8, <2>1, <2>2, FewNearer
  <2> QED BY <1>1, <1>3, <1>8, <2>3 DEF space
<1>10. Len(keep) + Cardinality(G) + Cardinality(R) <= Degree
  <2> DEFINE space == Degree - Len(keep) - Cardinality(G)
             bin == pool \ G
  <2>1. space \in Nat
    BY <1>1, <1>3, <1>8, <1>9
  <2>2. \A c \in R : Cardinality({g \in R : Nearer(d, g, c)}) < space
    <3>1. TAKE c \in R
    <3>2. {g \in R : Nearer(d, g, c)} \in SUBSET {b \in bin : Nearer(d, b, c)}
          /\ {b \in bin : Nearer(d, b, c)} \in SUBSET bin
      BY <1>c
    <3>3. /\ IsFiniteSet({b \in bin : Nearer(d, b, c)})
      BY <1>8, <3>2, FS_Subset
    <3>4. /\ IsFiniteSet({g \in R : Nearer(d, g, c)})
          /\ Cardinality({g \in R : Nearer(d, g, c)})
               <= Cardinality({b \in bin : Nearer(d, b, c)})
      BY <3>2, <3>3, FS_Subset
    <3>5. Cardinality({b \in bin : Nearer(d, b, c)}) < space
      BY <1>c DEF IsRecycled
    <3>6. Cardinality({g \in R : Nearer(d, g, c)}) \in Nat
          /\ Cardinality({b \in bin : Nearer(d, b, c)}) \in Nat
      BY <3>3, <3>4, FS_CardinalityType
    <3> QED BY <2>1, <3>4, <3>5, <3>6
  <2> HIDE DEF space
  <2>3. Cardinality(R) <= space
    BY <1>8, <2>1, <2>2, FewNearer
  <2> QED BY <1>1, <1>3, <1>8, <2>3 DEF space
<1>11. /\ x \in Seq(Node) /\ Len(x) = Cardinality(G)
       /\ \A i \in DOMAIN x : x[i] \in G
       /\ \A i, j \in DOMAIN x : x[i] = x[j] => i = j
  BY <1>7, <1>8, RankedProperties
<1>12. /\ y \in Seq(Node) /\ Len(y) = Cardinality(R)
       /\ \A i \in DOMAIN y : y[i] \in R
       /\ \A i, j \in DOMAIN y : y[i] = y[j] => i = j
  BY <1>7, <1>8, RankedProperties
<1> DEFINE a == Len(keep)
           b == Len(keep) + Len(x)
<1>13. /\ s \in Seq(Node) /\ Len(s) = b + Len(y) /\ a \in Nat /\ b \in Nat
       /\ a <= b /\ b <= Len(s) /\ Len(s) \in Nat
  <2>1. keep \o x \in Seq(Node) /\ Len(keep \o x) = b /\ a \in Nat /\ Len(x) \in Nat
    BY <1>3, <1>11
  <2>2. s = (keep \o x) \o y /\ Len(y) \in Nat
    BY <1>7, <1>12
  <2> QED BY <1>12, <2>1, <2>2
<1>14. /\ \A i \in 1 .. a : s[i] = keep[i] /\ i \in DOMAIN keep
       /\ \A i \in (a + 1) .. b : s[i] = x[i - a] /\ i - a \in DOMAIN x
       /\ \A i \in (b + 1) .. Len(s) : s[i] = y[i - b] /\ i - b \in DOMAIN y
  <2>1. /\ keep \o x \in Seq(Node) /\ Len(keep \o x) = b /\ Len(keep) = a
        /\ Len(x) \in Nat /\ a \in Nat /\ b = a + Len(x)
    BY <1>3, <1>11
  <2>2. s = (keep \o x) \o y /\ Len(y) \in Nat
    BY <1>7, <1>12
  <2>3. \A i \in 1 .. b : s[i] = (keep \o x)[i]
    BY <1>12, <2>1, <2>2
  <2>4. \A i \in 1 .. a :
          (keep \o x)[i] = keep[i] /\ i \in DOMAIN keep /\ i \in 1 .. b
    BY <1>3, <1>11, <2>1
  <2>5. \A i \in (a + 1) .. b :
          (keep \o x)[i] = x[i - a] /\ i - a \in DOMAIN x /\ i \in 1 .. b
    BY <1>3, <1>11, <2>1
  <2>6. \A i \in (b + 1) .. Len(s) : s[i] = y[i - b] /\ i - b \in DOMAIN y
    BY <1>12, <1>13, <2>1, <2>2
  <2> HIDE DEF a, b
  <2> QED BY <2>3, <2>4, <2>5, <2>6
<1> HIDE DEF a, b
<1>15. \A i \in DOMAIN s : i \in 1 .. a \/ i \in (a + 1) .. b
                           \/ i \in (b + 1) .. Len(s)
  BY <1>13
<1>16. \A i \in 1 .. a : /\ s[i] # v /\ Kin(pass, v, s[i])
                         /\ s[i] \notin G /\ s[i] \notin R
  <2>1. TAKE i \in 1 .. a
  <2>2. s[i] = keep[i] /\ i \in DOMAIN keep /\ i \in 1 .. Locked(v)
    BY <1>3, <1>14
  <2>3. s[i] = list[i] /\ i \in DOMAIN list
    BY <1>3, <2>2
  <2> QED BY <1>2, <1>4, <1>c, <2>2, <2>3 DEF IsWellFormed
<1>17. \A i \in (a + 1) .. b : s[i] \in G
  BY <1>11, <1>14
<1>18. \A i \in (b + 1) .. Len(s) : s[i] \in R
  BY <1>12, <1>14
<1>19. \A i \in DOMAIN s : s[i] # v /\ Kin(pass, v, s[i])
  BY <1>4, <1>c, <1>15, <1>16, <1>17, <1>18
<1>20. \A i, j \in 1 .. a : s[i] = s[j] => i = j
  <2>1. TAKE i, j \in 1 .. a
  <2>2. s[i] = list[i] /\ i \in DOMAIN list /\ s[j] = list[j] /\ j \in DOMAIN list
    BY <1>3, <1>14
  <2> QED BY <1>2, <2>2 DEF IsWellFormed
<1>21. \A i, j \in (a + 1) .. b : s[i] = s[j] => i = j
  <2>1. TAKE i, j \in (a + 1) .. b
  <2>2. s[i] = s[j] => i - a = j - a
    BY <1>11, <1>14
  <2> QED BY <1>13, <2>2
<1>22. \A i, j \in (b + 1) .. Len(s) : s[i] = s[j] => i = j
  <2>1. TAKE i, j \in (b + 1) .. Len(s)
  <2>2. s[i] = s[j] => i - b = j - b
    BY <1>12, <1>14
  <2> QED BY <1>13, <2>2
<1>23. \A i, j \in DOMAIN s : s[i] = s[j] => i = j
  <2>1. TAKE i, j \in DOMAIN s
  <2>2. CASE i \in 1 .. a
    BY <1>15, <1>16, <1>17, <1>18, <1>20, <2>2
  <2>3. CASE i \in (a + 1) .. b
    BY <1>8, <1>15, <1>16, <1>17, <1>18, <1>21, <2>3
  <2>4. CASE i \in (b + 1) .. Len(s)
    BY <1>8, <1>15, <1>16, <1>17, <1>18, <1>22, <2>4
  <2> QED BY <1>15, <2>2, <2>3, <2>4
<1>24. IsWellFormed(v, s)
  BY <1>19, <1>23 DEF IsWellFormed
<1>25. Extends(v, s)
  <2>1. a = Locked(v)
    BY <1>3 DEF a
  <2>2. \A k \in 1 .. Locked(v) : s[k] = Start[v][k]
    BY <1>2, <1>3, <1>14, <2>1
  <2> QED BY <1>13, <2>1, <2>2 DEF Extends
<1>26. Len(s) <= Degree
  BY <1>1, <1>3, <1>8, <1>10, <1>11, <1>12, <1>13 DEF b
<1> QED BY <1>13, <1>19, <1>24, <1>25, <1>26 DEF IsList

-----------------------------------------------------------------------------
(* The inductive invariant: every list, and every list being written, is a *)
(* list its vertex may have; what a search has found is kin to the vertex  *)
(* it searches for, and so is the vertex it links to, which is another     *)
(* one; and so is enter_pt while a thread is about to read it.             *)
Busy(t) == pc[t] # "idle"
Linking(t) == pc[t] \in {"link", "offer", "offering"}
Writing(t) == pc[t] \in {"prune", "offering"}

Companion(p, v, u) == u \in Node /\ u # v /\ Kin(p, v, u)

ThreadOK(t) ==
  /\ Busy(t) => pass <= Len(Passes) /\ cur[t] \in Node
  /\ IF pc[t] \in {"search", "prune"}
     THEN \A u \in result[t] \cup cand[t] : Kin(pass, cur[t], u)
     ELSE cand[t] = {}
  /\ pc[t] = "enter" =>
       ~This.hold /\ enter_pt \in Node /\ Kin(pass, cur[t], enter_pt)
  /\ Linking(t) => Companion(pass, cur[t], target[t])
  /\ Writing(t) => IsList(pass, Site(t), fill[t])

Threads == \A t \in Thread : ThreadOK(t)

Lists == \A v \in Node : IsList(pass, v, adj[v])

IInv == TypeOK /\ Threads /\ Lists

LEMMA StartIsList ==
  ASSUME NEW v \in Node
  PROVE  IsList(pass, v, Start[v])
<1>1. Start[v] \in Seq(Node) /\ IsWellFormed(v, Start[v]) /\ Len(Start[v]) <= Degree
  BY LayerAssumption, StartAssumption
<1>2. Extends(v, Start[v])
  BY <1>1 DEF Extends, Locked
<1>3. \A k \in DOMAIN Start[v] : Kin(pass, v, Start[v][k])
  BY StartAssumption DEF Elems, Kin
<1> QED BY <1>1, <1>2, <1>3 DEF IsList

LEMMA InitIInv == Init => IInv
<1> SUFFICES ASSUME Init PROVE IInv
  OBVIOUS
<1>1. Lists
  BY StartIsList DEF Init, Lists
<1>2. Threads
  BY DEF Init, Threads, ThreadOK, Busy, Linking, Writing
<1>3. TypeOK
  <2>1. Len(Passes) \in Nat
    BY LayerAssumption
  <2>2. adj \in [Node -> Seq(Node)]
    BY LayerAssumption DEF Init
  <2> QED BY <2>1, <2>2 DEF Init, TypeOK
<1> QED BY <1>1, <1>2, <1>3 DEF IInv

(* The vertex a thread links to comes from its vertex's list, or from one  *)
(* that is being written for it.                                           *)
LEMMA SlotIsCompanion ==
  ASSUME IInv, NEW v \in Node, NEW k \in Nat \ {0}, NEW u \in Slots(v, k)
  PROVE  Companion(pass, v, u)
<1>1. PICK x \in {adj[v]} \cup {fill[t] : t \in Writers(v)} : k <= Len(x) /\ u = x[k]
  BY DEF Slots
<1>2. IsList(pass, v, x)
  <2>1. CASE x = adj[v]
    BY <2>1 DEF IInv, Lists
  <2>2. CASE \E t \in Writers(v) : x = fill[t]
    BY <2>2 DEF IInv, Threads, ThreadOK, Writers, Writing
  <2> QED BY <1>1, <2>1, <2>2
<1>3. x \in Seq(Node) /\ IsWellFormed(v, x) /\ \A j \in DOMAIN x : Kin(pass, v, x[j])
  BY <1>2 DEF IsList
<1>4. k \in DOMAIN x
  BY <1>1, <1>3
<1> QED BY <1>1, <1>3, <1>4 DEF IsWellFormed, Companion

(* LinkBack: a list with room takes a new vertex of the component.         *)
LEMMA AppendIsList ==
  ASSUME NEW v \in Node, NEW s, IsList(pass, v, s), NEW u, Companion(pass, v, u),
         ~IsDuplicate(u, s), HasRoom(s)
  PROVE  IsList(pass, v, Append(s, u))
<1> DEFINE r == Append(s, u)
<1>1. s \in Seq(Node) /\ u \in Node /\ Len(s) < Degree /\ Degree \in Nat
      /\ IsWellFormed(v, s) /\ Extends(v, s) /\ Locked(v) \in Nat
      /\ \A k \in DOMAIN s : Kin(pass, v, s[k])
  BY LayerAssumption DEF IsList, HasRoom, Companion, Locked
<1>2. /\ r \in Seq(Node) /\ Len(r) = Len(s) + 1 /\ Len(s) \in Nat
      /\ \A k \in DOMAIN s : k \in DOMAIN r /\ r[k] = s[k]
      /\ \A k \in DOMAIN r : k \in DOMAIN s \/ (k = Len(s) + 1 /\ r[k] = u)
  BY <1>1
<1> HIDE DEF r
<1>3. \A k \in DOMAIN s : s[k] # u
  BY DEF IsDuplicate, Elems
<1>4. \A k \in DOMAIN r : r[k] # v /\ Kin(pass, v, r[k])
  BY <1>1, <1>2 DEF IsWellFormed, Companion
<1>5. \A k, l \in DOMAIN r : r[k] = r[l] => k = l
  BY <1>1, <1>2, <1>3 DEF IsWellFormed
<1>6. IsWellFormed(v, r)
  BY <1>4, <1>5 DEF IsWellFormed
<1>7. Extends(v, r)
  BY <1>1, <1>2 DEF Extends
<1> QED BY <1>1, <1>2, <1>4, <1>6, <1>7 DEF IsList, r

-----------------------------------------------------------------------------
(* A step of one thread leaves the others as they were.                    *)
Others(t) ==
  \A u \in Thread : u # t =>
    /\ pc'[u] = pc[u] /\ cur'[u] = cur[u] /\ target'[u] = target[u]
    /\ result'[u] = result[u] /\ cand'[u] = cand[u] /\ fill'[u] = fill[u]

LEMMA OthersKeep ==
  ASSUME Threads, NEW t \in Thread, pass' = pass, enter_pt' = enter_pt,
         Others(t), ThreadOK(t)'
  PROVE  Threads'
<1> SUFFICES ASSUME NEW u \in Thread, u # t PROVE ThreadOK(u)'
  BY DEF Threads
<1>1. ThreadOK(u)
  BY DEF Threads
<1>2. /\ pc'[u] = pc[u] /\ cur'[u] = cur[u] /\ target'[u] = target[u]
      /\ result'[u] = result[u] /\ cand'[u] = cand[u] /\ fill'[u] = fill[u]
  BY DEF Others
<1> QED BY <1>1, <1>2 DEF ThreadOK, Busy, Linking, Writing, Site, This

(* An iteration starts.  When it assigns enter_pt, no other thread that is *)
(* about to read it is misled, if OwnEntryPoint holds.                     *)
LEMMA ClaimStep ==
  ASSUME IInv, NEW t \in Thread, Claim(t)
  PROVE  IInv'
<1>1. /\ TypeOK /\ Threads /\ Lists /\ ThreadOK(t)
  BY DEF IInv, Threads
<1>2. /\ pass \in DOMAIN Passes /\ Passes[pass].order \in Seq(Node)
      /\ pass <= Len(Passes)
  <2> DEFINE Pass == [order : Seq(Node), hold : BOOLEAN,
                      blocks : SUBSET (Node \X Node \X Node \X Nat)]
  <2>1. Passes \in Seq(Pass)
    BY LayerAssumption
  <2>2. pass \in 1 .. Len(Passes)
    BY <1>1, <2>1 DEF Claim, Take, TypeOK, Done
  <2>3. Passes[pass] \in Pass
    <3> HIDE DEF Pass
    <3> QED BY <2>1, <2>2
  <2> QED BY <2>1, <2>2, <2>3
<1> DEFINE v == This.order[next]
           e == EntryOf(v)
<1>3. v \in Node
  BY <1>1, <1>2 DEF Claim, Take, TypeOK, This
<1>4. e \in Node /\ Kin(pass, v, e)
  BY <1>3, LayerAssumption DEF EntryOf, Kin, SameComponent
<1>5. /\ cur' = [cur EXCEPT ![t] = v] /\ next' = next + 1 /\ pc[t] = "idle"
      /\ UNCHANGED <<adj, lock, pass, cand, index, target, fill>>
      /\ \/ /\ result' = [result EXCEPT ![t] = {e}] /\ enter_pt' = enter_pt
            /\ pc' = [pc EXCEPT ![t] = "search"]
         \/ /\ ~This.hold /\ enter_pt' = e /\ result' = result
            /\ pc' = [pc EXCEPT ![t] = "enter"]
  BY DEF Claim, Take
<1> HIDE DEF v, e
<1>6. TypeOK'
  <2>1. {e} \in SUBSET Node /\ result \in [Thread -> SUBSET Node]
        /\ enter_pt \in Node \cup {NoNode}
    BY <1>1, <1>4 DEF TypeOK
  <2>2. result' \in [Thread -> SUBSET Node]
    BY <1>5, <2>1
  <2>3. enter_pt' \in Node \cup {NoNode}
    BY <1>4, <1>5, <2>1
  <2>4. pc' = [pc EXCEPT ![t] = "search"] \/ pc' = [pc EXCEPT ![t] = "enter"]
    BY <1>5
  <2>5. pc' \in [Thread -> {"idle", "enter", "search", "prune", "own", "pick",
                           "link", "offer", "offering"}]
    BY <1>1, <2>4 DEF TypeOK
  <2>6. cur' \in [Thread -> Node \cup {NoNode}] /\ next' \in Nat \ {0}
    BY <1>1, <1>3, <1>5 DEF TypeOK
  <2> QED BY <1>1, <1>5, <2>2, <2>3, <2>5, <2>6 DEF TypeOK
<1>7. Others(t)
  BY <1>1, <1>5 DEF Others, TypeOK
<1>8. cand'[t] = {} /\ cur'[t] = v
  BY <1>1, <1>5 DEF TypeOK, ThreadOK
<1>9. This' = This
  BY <1>5 DEF This
<1>10. ThreadOK(t)'
  <2>1. CASE result' = [result EXCEPT ![t] = {e}] /\ pc' = [pc EXCEPT ![t] = "search"]
    <3>1. pc'[t] = "search" /\ result'[t] = {e}
      BY <1>1, <2>1 DEF TypeOK
    <3> QED BY <1>2, <1>3, <1>4, <1>5, <1>8, <3>1 DEF ThreadOK, Busy, Linking, Writing
  <2>2. CASE ~This.hold /\ enter_pt' = e /\ pc' = [pc EXCEPT ![t] = "enter"]
    <3>1. pc'[t] = "enter"
      BY <1>1, <2>2 DEF TypeOK
    <3> QED BY <1>2, <1>3, <1>4, <1>5, <1>8, <1>9, <2>2, <3>1
            DEF ThreadOK, Busy, Linking, Writing
  <2> QED BY <1>5, <2>1, <2>2
<1>11. Lists'
  BY <1>1, <1>5 DEF Lists
<1>12. CASE enter_pt' = enter_pt
  BY <1>1, <1>5, <1>6, <1>7, <1>10, <1>11, <1>12, OthersKeep DEF IInv
<1>13. CASE ~This.hold /\ enter_pt' = e
  <2> SUFFICES ASSUME NEW u \in Thread, u # t PROVE ThreadOK(u)'
    BY <1>6, <1>10, <1>11 DEF IInv, Threads
  <2>1. ThreadOK(u)
    BY <1>1 DEF Threads
  <2>2. /\ pc'[u] = pc[u] /\ cur'[u] = cur[u] /\ target'[u] = target[u]
        /\ result'[u] = result[u] /\ cand'[u] = cand[u] /\ fill'[u] = fill[u]
    BY <1>7 DEF Others
  <2>3. pc[u] = "enter" => Kin(pass, cur[u], e)
    <3>1. ASSUME OwnEntryPoint, pc[u] = "enter"
          PROVE  SameComponent(e, cur[u])
      <4>1. \E k \in DOMAIN Passes : ~Passes[k].hold
        BY <1>2, <1>13 DEF This
      <4>2. cur[u] \in Node
        BY <2>1, <3>1 DEF ThreadOK, Busy
      <4> QED BY <1>4, <3>1, <4>1, <4>2 DEF OwnEntryPoint
    <3>2. ~HeldUpTo(pass)
      <4>1. pass \in DOMAIN Passes /\ pass <= pass /\ ~Passes[pass].hold
        BY <1>1, <1>2, <1>13 DEF This, TypeOK
      <4> QED BY <4>1 DEF HeldUpTo
    <3> QED BY <3>1, <3>2 DEF Kin
  <2> QED BY <1>4, <1>5, <1>9, <1>13, <2>1, <2>2, <2>3
          DEF ThreadOK, Busy, Linking, Writing, Site
<1> QED BY <1>5, <1>12, <1>13

(* The steps that write no list.                                           *)
LEMMA ReadingStep ==
  ASSUME IInv, NEW t \in Thread,
         \/ Skip(t) \/ Enter(t) \/ Expand(t) \/ TakeOwn(t) \/ Pick(t)
         \/ Leave(t) \/ LinkKnown(t) \/ Full(t)
  PROVE  IInv'
<1>1. /\ TypeOK /\ Threads /\ Lists /\ ThreadOK(t)
  BY DEF IInv, Threads
<1>2. /\ pass' = pass /\ adj' = adj /\ fill' = fill /\ enter_pt' = enter_pt
  BY DEF Skip, Take, Enter, Expand, TakeOwn, Pick, Leave, LinkKnown, Full, NextLink
<1>3. Lists'
  BY <1>1, <1>2 DEF Lists
<1> SUFFICES TypeOK' /\ Others(t) /\ ThreadOK(t)'
  BY <1>1, <1>2, <1>3, OthersKeep DEF IInv
<1> USE <1>1, <1>2
<1>4. CASE Enter(t)
  <2>1. /\ pc[t] = "enter" /\ result' = [result EXCEPT ![t] = {enter_pt}]
        /\ pc' = [pc EXCEPT ![t] = "search"]
        /\ UNCHANGED <<lock, next, cur, cand, index, target>>
    BY <1>4 DEF Enter
  <2>2. enter_pt \in Node /\ Kin(pass, cur[t], enter_pt) /\ cand[t] = {}
    BY <2>1 DEF ThreadOK
  <2>3. TypeOK'
    BY <2>1, <2>2 DEF TypeOK
  <2>4. Others(t) /\ pc'[t] = "search" /\ result'[t] = {enter_pt} /\ cand'[t] = {}
    BY <2>1, <2>2 DEF Others, TypeOK
  <2>5. ThreadOK(t)'
    BY <2>1, <2>2, <2>4 DEF ThreadOK, Busy, Linking, Writing
  <2> QED BY <2>3, <2>4, <2>5
<1>5. CASE Skip(t)
  <2>1. /\ next' = next + 1
        /\ UNCHANGED <<lock, pc, cur, result, cand, index, target>>
    BY <1>5 DEF Skip, Take
  <2>2. TypeOK'
    BY <2>1 DEF TypeOK
  <2>3. Others(t) /\ ThreadOK(t)'
    BY <2>1 DEF Others, ThreadOK, Busy, Linking, Writing, Site, This
  <2> QED BY <2>2, <2>3
<1>6. CASE Expand(t)
  <2>1. PICK u \in Unexpanded(t) :
          /\ cand' = [cand EXCEPT ![t] = Expanded(t, u)]
          /\ result' = [result EXCEPT ![t] = Closest(cur[t], @ \cup Elems(adj[u]))]
    BY <1>6 DEF Expand
  <2>2. UNCHANGED <<lock, next, pc, cur, index, target>> /\ pc[t] = "search"
    BY <1>6 DEF Expand
  <2>3. u \in Node /\ u \in result[t] /\ Kin(pass, cur[t], u) /\ cur[t] \in Node
    BY <2>1, <2>2 DEF Unexpanded, Busy, TypeOK, ThreadOK
  <2>4. adj[u] \in Seq(Node) /\ \A k \in DOMAIN adj[u] : Kin(pass, u, adj[u][k])
    BY <2>3 DEF Lists, IsList
  <2>5. \A w \in Elems(adj[u]) : w \in Node /\ Kin(pass, cur[t], w)
    BY <2>3, <2>4, KinProperties DEF Elems
  <2>6. /\ cand'[t] = cand[t] \cup {u}
        /\ result'[t] \subseteq result[t] \cup Elems(adj[u])
    BY <2>1 DEF TypeOK, Expanded, Closest
  <2>7. cand' \in [Thread -> SUBSET Node] /\ result' \in [Thread -> SUBSET Node]
    BY <2>1, <2>3, <2>5 DEF TypeOK, Expanded, Closest
  <2>8. TypeOK'
    BY <2>2, <2>7 DEF TypeOK
  <2>9. Others(t)
    BY <2>1, <2>2 DEF Others, TypeOK
  <2>10. ThreadOK(t)'
    BY <2>2, <2>3, <2>5, <2>6 DEF ThreadOK, Busy, Linking, Writing
  <2> QED BY <2>8, <2>9, <2>10
<1>7. CASE TakeOwn(t)
  <2>1. /\ lock' = [lock EXCEPT ![cur[t]] = t] /\ pc' = [pc EXCEPT ![t] = "pick"]
        /\ UNCHANGED <<next, cur, result, cand, index, target>> /\ pc[t] = "own"
    BY <1>7 DEF TakeOwn
  <2>2. TypeOK'
    BY <2>1 DEF TypeOK
  <2>3. Others(t) /\ pc'[t] = "pick"
    BY <2>1 DEF Others, TypeOK
  <2>4. ThreadOK(t)'
    BY <2>1, <2>3 DEF ThreadOK, Busy, Linking, Writing
  <2> QED BY <2>2, <2>3, <2>4
<1>8. CASE Pick(t)
  <2>1. PICK u \in Slots(cur[t], index[t]) : target' = [target EXCEPT ![t] = u]
    BY <1>8 DEF Pick
  <2>2. /\ pc[t] = "pick" /\ pc' = [pc EXCEPT ![t] = "link"]
        /\ UNCHANGED <<lock, next, cur, result, cand, index>>
    BY <1>8 DEF Pick
  <2>3. cur[t] \in Node /\ index[t] \in Nat \ {0}
    BY <2>2 DEF ThreadOK, Busy, TypeOK
  <2>4. Companion(pass, cur[t], u)
    BY <2>1, <2>3, SlotIsCompanion
  <2>5. TypeOK'
    BY <2>1, <2>2, <2>4 DEF TypeOK, Companion
  <2>6. Others(t) /\ pc'[t] = "link" /\ target'[t] = u
    BY <2>1, <2>2 DEF Others, TypeOK
  <2>7. ThreadOK(t)'
    BY <2>2, <2>4, <2>6 DEF ThreadOK, Busy, Linking, Writing, Companion
  <2> QED BY <2>5, <2>6, <2>7
<1>9. CASE Leave(t)
  <2>1. /\ lock' = [v \in Node |-> IF lock[v] = t THEN NoThread ELSE lock[v]]
        /\ pc[t] = "pick" /\ pc' = [pc EXCEPT ![t] = "idle"]
        /\ cur' = [cur EXCEPT ![t] = NoNode] /\ index' = [index EXCEPT ![t] = 1]
        /\ UNCHANGED <<next, result, cand, target>>
    BY <1>9 DEF Leave
  <2>2. lock' \in [Node -> Thread \cup {NoThread}]
    BY <2>1 DEF TypeOK
  <2>3. TypeOK'
    BY <2>1, <2>2 DEF TypeOK
  <2>4. Others(t) /\ pc'[t] = "idle"
    BY <2>1 DEF Others, TypeOK
  <2>5. ThreadOK(t)'
    BY <2>1, <2>4 DEF ThreadOK, Busy, Linking, Writing
  <2> QED BY <2>3, <2>4, <2>5
<1>10. CASE LinkKnown(t)
  <2>1. /\ pc[t] = "link" /\ pc' = [pc EXCEPT ![t] = "pick"]
        /\ target' = [target EXCEPT ![t] = NoNode]
        /\ index' = [index EXCEPT ![t] = @ + 1]
        /\ UNCHANGED <<lock, next, cur, result, cand>>
    BY <1>10 DEF LinkKnown, NextLink
  <2>2. TypeOK'
    BY <2>1 DEF TypeOK
  <2>3. Others(t) /\ pc'[t] = "pick"
    BY <2>1 DEF Others, TypeOK
  <2>4. ThreadOK(t)'
    BY <2>1, <2>3 DEF ThreadOK, Busy, Linking, Writing
  <2> QED BY <2>2, <2>3, <2>4
<1>11. CASE Full(t)
  <2>1. /\ pc[t] = "link" /\ pc' = [pc EXCEPT ![t] = "offer"]
        /\ UNCHANGED <<lock, next, cur, result, cand, index, target>>
    BY <1>11 DEF Full
  <2>2. TypeOK'
    BY <2>1 DEF TypeOK
  <2>3. Others(t) /\ pc'[t] = "offer"
    BY <2>1 DEF Others, TypeOK
  <2>4. ThreadOK(t)'
    BY <2>1, <2>3 DEF ThreadOK, Busy, Linking, Writing, Companion
  <2> QED BY <2>2, <2>3, <2>4
<1> QED BY <1>4, <1>5, <1>6, <1>7, <1>8, <1>9, <1>10, <1>11

(* Robust_Prune_Build starts: the list it will write is a list its vertex  *)
(* may have.                                                               *)
LEMMA RewriteStep ==
  ASSUME IInv, NEW t \in Thread, BeginPrune(t) \/ BeginOffer(t)
  PROVE  IInv'
<1>1. /\ TypeOK /\ Threads /\ Lists /\ ThreadOK(t)
  BY DEF IInv, Threads
<1>2. PICK v \in Node, d \in Distances, cands \in SUBSET Node,
           at \in {"prune", "offering"} :
        /\ Rewrite(t, v, d, cands, at)
        /\ pc[t] = IF at = "prune" THEN "search" ELSE "offer"
        /\ v = IF at = "prune" THEN cur[t] ELSE target[t]
        /\ \A c \in cands : Kin(pass, v, c)
  <2>1. CASE BeginPrune(t)
    <3>1. pc[t] = "search" /\ Rewrite(t, cur[t], Dist[cur[t]], cand[t], "prune")
      BY <2>1 DEF BeginPrune
    <3>2. cur[t] \in Node /\ cand[t] \in SUBSET Node
          /\ \A c \in cand[t] : Kin(pass, cur[t], c)
      BY <1>1, <3>1 DEF ThreadOK, Busy, TypeOK
    <3> QED BY <3>1, <3>2, InDistances
  <2>2. CASE BeginOffer(t)
    <3>1. pc[t] = "offer" /\ Rewrite(t, target[t], Offered(target[t], cur[t], adj[target[t]]),
                                     {cur[t]}, "offering")
      BY <2>2 DEF BeginOffer
    <3>2. /\ cur[t] \in Node /\ target[t] \in Node
          /\ Kin(pass, target[t], cur[t])
      BY <1>1, <3>1, KinProperties DEF ThreadOK, Busy, Linking, Companion
    <3> QED BY <3>1, <3>2, InDistances
  <2> QED BY <2>1, <2>2
<1>3. PICK s \in Pruned(v, d, adj[v], cands, This.blocks) :
        fill' = [fill EXCEPT ![t] = s]
  BY <1>2 DEF Rewrite
<1>4. /\ lock' = [lock EXCEPT ![v] = t] /\ pc' = [pc EXCEPT ![t] = at]
      /\ UNCHANGED <<adj, pass, next, cur, enter_pt, result, cand, index, target>>
  BY <1>2 DEF Rewrite
<1>5. IsList(pass, v, s)
  <2>1. IsList(pass, v, adj[v])
    BY <1>1 DEF Lists
  <2> QED BY <1>2, <1>3, <2>1, PrunedIsList
<1>6. TypeOK'
  BY <1>1, <1>3, <1>4, <1>5 DEF TypeOK, IsList
<1>7. Others(t) /\ pc'[t] = at /\ fill'[t] = s
  BY <1>1, <1>3, <1>4 DEF Others, TypeOK
<1>8. Site(t)' = v
  BY <1>2, <1>4, <1>7 DEF Site
<1>9. Busy(t) /\ (at = "offering" => Linking(t)) /\ (at = "prune" => pc[t] = "search")
  BY <1>2 DEF Busy, Linking
<1>10. ThreadOK(t)'
  <2>1. pass' <= Len(Passes) /\ cur'[t] \in Node
    BY <1>1, <1>4, <1>9 DEF ThreadOK
  <2>2. IsList(pass', Site(t)', fill'[t])
    BY <1>4, <1>5, <1>7, <1>8
  <2>3. CASE at = "prune"
    <3>1. \A u \in result'[t] \cup cand'[t] : Kin(pass', cur'[t], u)
      BY <1>1, <1>4, <1>9, <2>3 DEF ThreadOK
    <3> QED BY <1>7, <2>1, <2>2, <2>3, <3>1 DEF ThreadOK, Linking
  <2>4. CASE at = "offering"
    <3>1. cand'[t] = {} /\ Companion(pass', cur'[t], target'[t])
      BY <1>1, <1>2, <1>4, <1>9, <2>4 DEF ThreadOK
    <3> QED BY <1>7, <2>1, <2>2, <2>4, <3>1 DEF ThreadOK, Companion
  <2> QED BY <2>3, <2>4
<1>11. Lists'
  BY <1>1, <1>4 DEF Lists
<1> QED BY <1>1, <1>4, <1>6, <1>7, <1>10, <1>11, OthersKeep DEF IInv

(* The steps that put a new list in place.                                 *)
LEMMA WritingStep ==
  ASSUME IInv, NEW t \in Thread, EndPrune(t) \/ EndOffer(t) \/ LinkBack(t)
  PROVE  IInv'
<1>1. /\ TypeOK /\ Threads /\ Lists /\ ThreadOK(t)
  BY DEF IInv, Threads
<1>2. PICK v \in Node, s \in Seq(Node) :
        /\ IsList(pass, v, s) /\ adj' = [adj EXCEPT ![v] = s]
        /\ lock' \in [Node -> Thread \cup {NoThread}]
  <2>1. CASE EndPrune(t) \/ EndOffer(t)
    <3>1. Writing(t) /\ Install(t, Site(t))
      BY <2>1 DEF EndPrune, EndOffer, Writing, Site
    <3>2. IsList(pass, Site(t), fill[t])
      BY <1>1, <3>1 DEF ThreadOK
    <3>3. Site(t) \in Node
      BY <1>1, <3>1 DEF ThreadOK, Writing, Busy, Linking, Companion, Site
    <3>4. /\ adj' = [adj EXCEPT ![Site(t)] = fill[t]]
          /\ lock' = [lock EXCEPT ![Site(t)] = NoThread]
      BY <3>1 DEF Install
    <3>5. lock' \in [Node -> Thread \cup {NoThread}]
      BY <1>1, <3>4 DEF TypeOK
    <3> QED BY <3>2, <3>3, <3>4, <3>5 DEF IsList
  <2>2. CASE LinkBack(t)
    <3>1. /\ pc[t] = "link" /\ ~IsDuplicate(cur[t], adj[target[t]])
          /\ HasRoom(adj[target[t]]) /\ lock' = lock
          /\ adj' = [adj EXCEPT ![target[t]] = Append(@, cur[t])]
      BY <2>2 DEF LinkBack
    <3>2. /\ target[t] \in Node /\ Companion(pass, target[t], cur[t])
      BY <1>1, <3>1, KinProperties DEF ThreadOK, Busy, Linking, Companion
    <3>3. IsList(pass, target[t], adj[target[t]])
      BY <1>1, <3>2 DEF Lists
    <3>4. IsList(pass, target[t], Append(adj[target[t]], cur[t]))
      BY <3>1, <3>2, <3>3, AppendIsList
    <3>5. adj' = [adj EXCEPT ![target[t]] = Append(adj[target[t]], cur[t])]
      BY <3>1
    <3>6. lock' \in [Node -> Thread \cup {NoThread}]
      BY <1>1, <3>1 DEF TypeOK
    <3> QED BY <3>2, <3>4, <3>5, <3>6 DEF IsList
  <2> QED BY <2>1, <2>2
<1>3. Lists'
  <2>1. pass' = pass
    BY DEF EndPrune, EndOffer, LinkBack
  <2> QED BY <1>1, <1>2, <2>1 DEF Lists, TypeOK
<1>4. PICK at \in {"own", "pick"} :
        /\ pc' = [pc EXCEPT ![t] = at] /\ pc[t] \in {"prune", "offering", "link"}
  BY DEF EndPrune, EndOffer, LinkBack, NextLink
<1>5. /\ pass' = pass /\ next' = next /\ cur' = cur /\ enter_pt' = enter_pt
      /\ (fill' = fill \/ fill' = [fill EXCEPT ![t] = <<>>])
      /\ ((pc[t] # "prune" /\ result' = result /\ cand' = cand)
          \/ (result' = [result EXCEPT ![t] = {}] /\ cand' = [cand EXCEPT ![t] = {}]))
      /\ (target' = target \/ target' = [target EXCEPT ![t] = NoNode])
      /\ (index' = index \/ index' = [index EXCEPT ![t] = @ + 1])
  BY DEF EndPrune, EndOffer, LinkBack, NextLink, Install
<1>6. /\ fill' \in [Thread -> Seq(Node)]
      /\ result' \in [Thread -> SUBSET Node] /\ cand' \in [Thread -> SUBSET Node]
      /\ target' \in [Thread -> Node \cup {NoNode}]
      /\ index' \in [Thread -> Nat \ {0}]
  <2>1. fill' \in [Thread -> Seq(Node)]
    <3>1. <<>> \in Seq(Node) /\ fill \in [Thread -> Seq(Node)]
      BY <1>1 DEF TypeOK
    <3>2. CASE fill' = fill
      BY <3>1, <3>2
    <3>3. CASE fill' = [fill EXCEPT ![t] = <<>>]
      BY <3>1, <3>3
    <3> QED BY <1>5, <3>2, <3>3
  <2>2. result' \in [Thread -> SUBSET Node] /\ cand' \in [Thread -> SUBSET Node]
    BY <1>1, <1>5 DEF TypeOK
  <2>3. target' \in [Thread -> Node \cup {NoNode}]
    BY <1>1, <1>5 DEF TypeOK
  <2>4. index' \in [Thread -> Nat \ {0}]
    <3>1. index \in [Thread -> Nat \ {0}]
      BY <1>1 DEF TypeOK
    <3>2. CASE index' = [index EXCEPT ![t] = @ + 1]
      BY <3>1, <3>2
    <3> QED BY <1>5, <3>1, <3>2
  <2> QED BY <2>1, <2>2, <2>3, <2>4
<1>7. TypeOK'
  BY <1>1, <1>2, <1>4, <1>5, <1>6 DEF TypeOK
<1>8. Others(t) /\ pc'[t] = at
  BY <1>1, <1>4, <1>5 DEF Others, TypeOK
<1>9. cand'[t] = {}
  BY <1>1, <1>4, <1>5 DEF ThreadOK, TypeOK
<1>10. ThreadOK(t)'
  BY <1>1, <1>4, <1>5, <1>8, <1>9 DEF ThreadOK, Busy, Linking, Writing
<1> QED BY <1>1, <1>3, <1>5, <1>7, <1>8, <1>10, OthersKeep DEF IInv

LEMMA NextIInv == IInv /\ [Next]_vars => IInv'
<1> SUFFICES ASSUME IInv, [Next]_vars PROVE IInv'
  OBVIOUS
<1>1. CASE \E t \in Thread : Insert(t)
  BY <1>1, ClaimStep, ReadingStep, RewriteStep, WritingStep DEF Insert
<1>2. CASE NextPass
  <2>1. /\ pass' = pass + 1 /\ next' = 1 /\ ~Done
        /\ \A t \in Thread : pc[t] = "idle"
        /\ UNCHANGED <<adj, lock, pc, cur, enter_pt, result, cand, index, target, fill>>
    BY <1>2 DEF NextPass
  <2>2. Len(Passes) \in Nat
    BY LayerAssumption
  <2>3. TypeOK'
    BY <2>1, <2>2 DEF IInv, TypeOK, Done
  <2>4. Threads'
    BY <2>1 DEF IInv, Threads, ThreadOK, Busy, Linking, Writing
  <2>5. Lists'
    <3>1. pass \in Nat
      BY <2>2 DEF IInv, TypeOK
    <3>2. \A v \in Node : IsList(pass + 1, v, adj[v])
      BY <3>1, ListStays DEF IInv, Lists
    <3> QED BY <2>1, <3>2 DEF Lists
  <2> QED BY <2>3, <2>4, <2>5 DEF IInv
<1>3. CASE Terminated \/ UNCHANGED vars
  <2>1. UNCHANGED vars
    BY <1>3 DEF Terminated
  <2> QED BY <2>1 DEF vars, IInv, TypeOK, Threads, ThreadOK, Busy, Linking, Writing,
                      Site, This, Lists
<1> QED BY <1>1, <1>2, <1>3 DEF Next

-----------------------------------------------------------------------------
(* The types of the variables.                                             *)
THEOREM TypeCorrect == Spec => []TypeOK
<1>1. IInv => TypeOK
  BY DEF IInv
<1> QED BY InitIInv, NextIInv, <1>1, PTL DEF Spec

(* However the insertions interleave, a list never holds its own vertex or *)
(* a vertex twice.                                                         *)
THEOREM WellFormedCorrect == Spec => []WellFormedLists
<1>1. IInv => WellFormedLists
  BY DEF IInv, Lists, IsList, WellFormedLists
<1> QED BY InitIInv, NextIInv, <1>1, PTL DEF Spec

(* While no thread can move the entry vertex of another one, a list never  *)
(* holds a vertex of another component.                                    *)
THEOREM ListsInComponentCorrect == OwnEntryPoint => (Spec => []ListsInComponent)
<1> SUFFICES ASSUME OwnEntryPoint PROVE Spec => []ListsInComponent
  OBVIOUS
<1>1. IInv => ListsInComponent
  BY DEF IInv, Lists, IsList, ListsInComponent, Elems, Kin
<1> QED BY InitIInv, NextIInv, <1>1, PTL DEF Spec

(* Search_Neighbors_Build never throws "link size is > Degree".            *)
THEOREM DegreeBoundCorrect == Spec => []DegreeBound
<1>1. IInv => DegreeBound
  BY DEF IInv, Lists, IsList, DegreeBound
<1> QED BY InitIInv, NextIInv, <1>1, PTL DEF Spec

(* The neighbours of the lower layers stay at the front of every list.     *)
THEOREM LockedKeptCorrect == Spec => []LockedKept
<1>1. IInv => LockedKept
  <2> SUFFICES ASSUME IInv, NEW v \in Node
               PROVE  SubSeq(adj[v], 1, Len(Start[v])) = Start[v]
    BY DEF LockedKept
  <2>1. Start[v] \in Seq(Node)
    BY LayerAssumption
  <2>2. /\ adj[v] \in Seq(Node) /\ Len(Start[v]) <= Len(adj[v])
        /\ \A k \in 1 .. Len(Start[v]) : adj[v][k] = Start[v][k]
    BY DEF IInv, Lists, IsList, Extends, Locked
  <2> QED BY <2>1, <2>2
<1> QED BY InitIInv, NextIInv, <1>1, PTL DEF Spec
-----------------------------------------------------------------------------
(* A list that holds no vertex twice has as many vertices as places.       *)
LEMMA ListCount ==
  ASSUME NEW s \in Seq(Node), \A k, l \in DOMAIN s : s[k] = s[l] => k = l
  PROVE  IsFiniteSet(Elems(s)) /\ Cardinality(Elems(s)) = Len(s)
<1>1. IsFiniteSet(1 .. Len(s)) /\ Cardinality(1 .. Len(s)) = Len(s)
  <2>1. 1 \in Int /\ Len(s) \in Nat
    OBVIOUS
  <2>2. Len(s) \in Int /\ (1 > Len(s) => Len(s) = 0)
    BY <2>1
  <2> QED BY <2>1, <2>2, FS_Interval
<1>2. DOMAIN s = 1 .. Len(s) /\ s = [k \in 1 .. Len(s) |-> s[k]]
  OBVIOUS
<1>3. s \in [1 .. Len(s) -> Elems(s)]
  BY <1>2 DEF Elems
<1>4. \A u \in Elems(s) : \E k \in 1 .. Len(s) : s[k] = u
  BY <1>2 DEF Elems
<1>5. s \in Bijection(1 .. Len(s), Elems(s))
  BY <1>2, <1>3, <1>4 DEF Bijection, Injection, Surjection, IsInjective
<1> QED BY <1>1, <1>5, FS_Bijection DEF ExistsBijection

LEMMA HierCount == \A S : Hier!Cardinality(S) = Cardinality(S)
  BY Zenon DEF Cardinality, Hier!Cardinality

(* The lists of a layer are among those HierIndex lets it have, and what   *)
(* is saved of them is what HierIndex appends: every list, at any moment,  *)
(* is the locked one and then the rest, with no vertex twice.              *)
THEOREM ServesHierarchyCorrect == Spec => []ServesHierarchy
<1>1. IInv => ServesHierarchy
  <2> SUFFICES ASSUME IInv, NEW v \in Node
               PROVE  /\ Elems(adj[v]) \in Hier!Extensions(v)
                      /\ Saved(v) \in Hier!Orders(Hier!Added(v, Elems(adj[v])))
    BY DEF ServesHierarchy
  <2> DEFINE s == adj[v]
             a == Locked(v)
             e == Elems(Start[v])
             r == Saved(v)
  <2>1. /\ s \in Seq(Node) /\ Len(s) <= Degree /\ IsWellFormed(v, s)
        /\ a <= Len(s) /\ \A k \in 1 .. a : s[k] = Start[v][k]
        /\ \A k \in DOMAIN s : Kin(pass, v, s[k])
    BY DEF IInv, Lists, IsList, Extends
  <2>2. Start[v] \in Seq(Node) /\ a \in Nat /\ DOMAIN Start[v] = 1 .. a
    BY LayerAssumption DEF Locked
  <2>3. /\ r \in Seq(Node) /\ Len(r) = Len(s) - a
        /\ \A k \in 1 .. Len(s) - a : r[k] = s[a + k]
    <3>1. r = SubSeq(s, a + 1, Len(s))
      BY DEF Saved, Locked
    <3> HIDE DEF r
    <3> QED BY <2>1, <2>2, <3>1
  <2>4. e \subseteq Elems(s)
    BY <2>1, <2>2 DEF Elems
  <2>5. Elems(s) \ e = Elems(r)
    <3>1. \A u \in Elems(s) \ e : u \in Elems(r)
      <4> SUFFICES ASSUME NEW u \in Elems(s) \ e PROVE u \in Elems(r)
        OBVIOUS
      <4>1. PICK k \in 1 .. Len(s) : s[k] = u
        BY <2>1 DEF Elems
      <4>2. k > a
        BY <2>1, <2>2, <4>1 DEF Elems
      <4>3. k - a \in 1 .. Len(s) - a /\ r[k - a] = u
        BY <2>1, <2>2, <2>3, <4>1, <4>2
      <4> QED BY <2>1, <2>2, <2>3, <4>3 DEF Elems
    <3>2. \A k \in DOMAIN r : r[k] \in Elems(s) \ e
      <4> SUFFICES ASSUME NEW k \in DOMAIN r PROVE r[k] \in Elems(s) \ e
        OBVIOUS
      <4>1. k \in 1 .. Len(s) - a /\ a + k \in DOMAIN s /\ r[k] = s[a + k]
        BY <2>1, <2>2, <2>3
      <4>2. \A j \in 1 .. a : s[j] # s[a + k]
        BY <2>1, <2>2, <4>1 DEF IsWellFormed
      <4> QED BY <2>1, <2>2, <4>1, <4>2 DEF Elems
    <3> QED BY <3>1, <3>2 DEF Elems
  <2>6. IsFiniteSet(Elems(s)) /\ Cardinality(Elems(s)) = Len(s)
    BY <2>1, ListCount DEF IsWellFormed
  <2>7. \A k, l \in DOMAIN r : r[k] = r[l] => k = l
    <3> SUFFICES ASSUME NEW k \in DOMAIN r, NEW l \in DOMAIN r, r[k] = r[l]
                 PROVE  k = l
      OBVIOUS
    <3>1. /\ k \in 1 .. Len(s) - a /\ a + k \in DOMAIN s /\ r[k] = s[a + k]
          /\ l \in 1 .. Len(s) - a /\ a + l \in DOMAIN s /\ r[l] = s[a + l]
      BY <2>1, <2>2, <2>3
    <3>2. a + k = a + l
      BY <2>1, <3>1 DEF IsWellFormed
    <3> QED BY <2>2, <3>1, <3>2
  <2>8. Cardinality(Elems(r)) = Len(r)
    BY <2>3, <2>7, ListCount
  <2>9. Elems(s) \in Hier!Extensions(v)
    <3>1. Elems(s) \subseteq Hier!Eligible(v)
      <4> SUFFICES ASSUME NEW k \in DOMAIN s PROVE s[k] \in Hier!Eligible(v)
        BY DEF Elems
      <4>1. s[k] \in Node /\ s[k] # v
        BY <2>1 DEF IsWellFormed
      <4>2. OwnEntryPoint => Entry[s[k]] = Entry[v]
        BY <2>1 DEF Kin, SameComponent
      <4>3. Hier!InLayer(0) = Node
        BY DEF Hier!InLayer
      <4>4. OwnEntryPoint => Hier!Together(s[k], v, 0)
        BY <4>1, <4>2, <4>3 DEF Hier!Together
      <4> QED BY <4>1, <4>3, <4>4 DEF Hier!Eligible
    <3>2. Cardinality(Elems(s)) <= Degree
      BY <2>1, <2>6
    <3> HIDE DEF s, e
    <3>3. [w \in Node |-> Elems(Start[w])][v] \subseteq Elems(s)
      BY <2>4 DEF e
    <3> QED BY <3>1, <3>2, <3>3, HierCount DEF Hier!Extensions
  <2>10. Hier!Added(v, Elems(s)) = Elems(r)
    BY <2>5 DEF Hier!Added
  <2>11. r \in Hier!Orders(Elems(r))
    <3>1. r \in [1 .. Len(r) -> Elems(r)]
      BY <2>3 DEF Elems
    <3> HIDE DEF r
    <3>2. r \in [1 .. Cardinality(Elems(r)) -> Elems(r)]
      BY <2>8, <3>1
    <3> QED BY <2>7, <3>2, HierCount DEF Hier!Orders
  <2> QED BY <2>9, <2>10, <2>11
<1> QED BY InitIInv, NextIInv, <1>1, PTL DEF Spec

-----------------------------------------------------------------------------
(* What Robust_Prune_Build writes is no shorter than what it found: as     *)
(* long as there is space, nothing stays in recycleBin.                    *)
LEMMA Recycles ==
  ASSUME NEW d \in Distances, NEW bin \in SUBSET Node, NEW R \in SUBSET bin,
         NEW space \in Nat, IsRecycled(R, d, bin, space)
  PROVE  R = bin \/ Cardinality(R) >= space
<1> SUFFICES ASSUME R # bin PROVE Cardinality(R) >= space
  OBVIOUS
<1> DEFINE T == {d[c] : c \in bin \ R}
<1>1. T \in SUBSET Nat /\ T # {}
  <2>1. \A c \in Node : d[c] \in Nat
    BY DEF Distances
  <2>2. PICK c \in bin : c \notin R
    OBVIOUS
  <2> QED BY <2>1, <2>2
<1>2. PICK m \in T : \A n \in T : m <= n
  <2> HIDE DEF T
  <2> QED BY <1>1, LeastElement
<1>3. PICK c \in bin \ R : m = d[c]
  BY <1>2
<1>4. \A b \in bin \ R : ~Nearer(d, b, c)
  <2>1. \A b \in bin \ R : d[c] <= d[b]
    BY <1>2, <1>3
  <2>2. \A b \in Node : d[b] \in Nat
    BY DEF Distances
  <2> QED BY <2>1, <2>2 DEF Nearer
<1> DEFINE before == {b \in bin : Nearer(d, b, c)}
<1>5. before \in SUBSET R /\ IsFiniteSet(R)
  <2>1. R \in SUBSET Node
    OBVIOUS
  <2> QED BY <1>4, <2>1, FS_Subset, LayerAssumption
<1>6. ~(Cardinality(before) < space)
  BY <1>3 DEF IsRecycled
<1>7. /\ Cardinality(before) <= Cardinality(R)
      /\ Cardinality(before) \in Nat /\ Cardinality(R) \in Nat
  BY <1>5, FS_Subset, FS_CardinalityType
<1> HIDE DEF before
<1> QED BY <1>6, <1>7

LEMMA JoinedLength ==
  ASSUME NEW a \in Seq(Node), NEW b \in Seq(Node), NEW c \in Seq(Node)
  PROVE  Len(a \o b \o c) = Len(a) + Len(b) + Len(c)
<1>1. a \o b \in Seq(Node) /\ Len(a \o b) = Len(a) + Len(b)
  OBVIOUS
<1> DEFINE ab == a \o b
<1>2. ab \in Seq(Node) => Len(ab \o c) = Len(ab) + Len(c)
  <2> HIDE DEF ab
  <2> QED OBVIOUS
<1> QED BY <1>1, <1>2

LEMMA JoinedMembers ==
  ASSUME NEW a \in Seq(Node), NEW b \in Seq(Node), NEW c \in Seq(Node)
  PROVE  Elems(a \o b \o c) = Elems(a) \cup Elems(b) \cup Elems(c)
<1>1. \A x, y \in Seq(Node) :
        x \o y \in Seq(Node) /\ Elems(x \o y) = Elems(x) \cup Elems(y)
  <2>1. TAKE x, y \in Seq(Node)
  <2>2. x \o y \in Seq(Node) /\ DOMAIN (x \o y) = 1 .. Len(x) + Len(y)
    OBVIOUS
  <2>3. ASSUME NEW k \in DOMAIN (x \o y)
        PROVE  (x \o y)[k] \in Elems(x) \cup Elems(y)
    <3>1. CASE k <= Len(x)
      <4>1. k \in DOMAIN x /\ (x \o y)[k] = x[k]
        BY <2>2, <3>1
      <4> QED BY <4>1 DEF Elems
    <3>2. CASE ~(k <= Len(x))
      <4>1. k - Len(x) \in DOMAIN y /\ (x \o y)[k] = y[k - Len(x)]
        BY <2>2, <3>2
      <4> QED BY <4>1 DEF Elems
    <3> QED BY <3>1, <3>2
  <2>4. \A k \in DOMAIN x : k \in DOMAIN (x \o y) /\ (x \o y)[k] = x[k]
    BY <2>2
  <2>5. \A k \in DOMAIN y :
          k + Len(x) \in DOMAIN (x \o y) /\ (x \o y)[k + Len(x)] = y[k]
    BY <2>2
  <2>6. Elems(x \o y) \subseteq Elems(x) \cup Elems(y)
    <3> DEFINE xy == x \o y
    <3>1. \A k \in DOMAIN xy : xy[k] \in Elems(x) \cup Elems(y)
      BY <2>3
    <3>2. Elems(xy) \subseteq Elems(x) \cup Elems(y)
      <4> HIDE DEF xy
      <4> QED BY <3>1 DEF Elems
    <3> QED BY <3>2
  <2>7. Elems(x) \cup Elems(y) \subseteq Elems(x \o y)
    <3> DEFINE xy == x \o y
    <3>1. /\ \A k \in DOMAIN x : k \in DOMAIN xy /\ xy[k] = x[k]
          /\ \A k \in DOMAIN y : k + Len(x) \in DOMAIN xy /\ xy[k + Len(x)] = y[k]
      BY <2>4, <2>5
    <3>2. Elems(x) \cup Elems(y) \subseteq Elems(xy)
      <4> HIDE DEF xy
      <4> QED BY <3>1 DEF Elems
    <3> QED BY <3>2
  <2> QED BY <2>2, <2>6, <2>7
<1>2. a \o b \in Seq(Node) /\ Elems(a \o b) = Elems(a) \cup Elems(b)
  BY <1>1
<1>3. Elems(a \o b \o c) = Elems(a \o b) \cup Elems(c)
  BY <1>1, <1>2
<1> QED BY <1>2, <1>3

(* The locked neighbours of v, those picked from pool and those taken back *)
(* from recycleBin.                                                        *)
PartedInto(v, d, list, pool, s) ==
  \E G \in SUBSET pool : \E R \in SUBSET (pool \ G) :
    /\ IsRecycled(R, d, pool \ G, Degree - Locked(v) - Cardinality(G))
    /\ Len(s) = Locked(v) + Cardinality(G) + Cardinality(R)
    /\ Elems(s) = Elems(SubSeq(list, 1, Locked(v))) \cup G \cup R

LEMMA PrunedParts ==
  ASSUME NEW v \in Node, NEW d \in Distances, NEW list \in Seq(Node), Locked(v) <= Len(list),
         NEW cands \in SUBSET Node, NEW blocks, NEW s \in Pruned(v, d, list, cands, blocks)
  PROVE  PartedInto(v, d, list, Pool(v, list, cands), s)
<1> DEFINE keep == SubSeq(list, 1, Locked(v))
           pool == Pool(v, list, cands)
           good == {G \in SUBSET pool : IsGood(G, v, d, keep, pool, blocks)}
           recycled(G) ==
             {R \in SUBSET (pool \ G) :
                IsRecycled(R, d, pool \ G, Degree - Len(keep) - Cardinality(G))}
           lists(G, R) ==
             {keep \o p[1] \o p[2] : p \in Ranked(d, G) \X Ranked(d, R)}
<1>1. Locked(v) \in Nat /\ IsFiniteSet(Node)
  BY LayerAssumption DEF Locked
<1>2. keep \in Seq(Node) /\ Len(keep) = Locked(v)
  BY <1>1
<1>3. s \in UNION {UNION {lists(G, R) : R \in recycled(G)} : G \in good}
  BY DEF Pruned
<1>4. \E G \in good : \E R \in recycled(G) : s \in lists(G, R)
  <2> HIDE DEF good, recycled, lists
  <2> QED BY <1>3
<1>5. PICK G \in good : \E R \in recycled(G) : s \in lists(G, R)
  BY <1>4
<1>6. PICK R \in recycled(G) : s \in lists(G, R)
  BY <1>5
<1>7. PICK x \in Ranked(d, G), y \in Ranked(d, R) : s = keep \o x \o y
  <2>1. PICK p \in Ranked(d, G) \X Ranked(d, R) : s = keep \o p[1] \o p[2]
    BY <1>6
  <2> QED BY <2>1
<1>8. pool \in SUBSET Node
  BY DEF Pool, Elems
<1>9. /\ G \in SUBSET Node /\ R \in SUBSET Node
      /\ IsFiniteSet(G) /\ IsFiniteSet(R)
  <2>1. G \in SUBSET Node /\ R \in SUBSET Node
    BY <1>5, <1>6, <1>8
  <2> QED BY <1>1, <2>1, FS_Subset
<1>10. /\ x \in Seq(Node) /\ Len(x) = Cardinality(G)
       /\ y \in Seq(Node) /\ Len(y) = Cardinality(R)
  BY <1>7, <1>9, RankedProperties
<1>12. IsRecycled(R, d, pool \ G, Degree - Locked(v) - Cardinality(G))
  BY <1>2, <1>6
<1>13. G \in SUBSET pool /\ R \in SUBSET (pool \ G)
  BY <1>5, <1>6
<1>11. Len(s) = Locked(v) + Cardinality(G) + Cardinality(R)
  <2>1. Len(s) = Len(keep) + Len(x) + Len(y)
    <3> HIDE DEF keep
    <3> QED BY <1>2, <1>7, <1>10, JoinedLength
  <2> QED BY <1>2, <1>10, <2>1
<1>16. Elems(s) = Elems(keep) \cup G \cup R
  <2>1. Elems(s) = Elems(keep) \cup Elems(x) \cup Elems(y)
    <3> HIDE DEF keep
    <3> QED BY <1>2, <1>7, <1>10, JoinedMembers
  <2>2. Elems(x) = G /\ Elems(y) = R
    BY <1>7, <1>9, RankedProperties
  <2> QED BY <2>1, <2>2
<1> DEFINE P(g, r) == /\ IsRecycled(r, d, pool \ g, Degree - Locked(v) - Cardinality(g))
                      /\ Len(s) = Locked(v) + Cardinality(g) + Cardinality(r)
                      /\ Elems(s) = Elems(keep) \cup g \cup r
<1>14. P(G, R)
  BY <1>11, <1>12, <1>16
<1>15. \E g \in SUBSET pool : \E r \in SUBSET (pool \ g) : P(g, r)
  <2> HIDE DEF P, pool, good, recycled, lists, keep
  <2> QED BY <1>13, <1>14
<1> QED BY <1>15 DEF PartedInto

LEMMA PrunedNoShorter ==
  ASSUME NEW v \in Node, NEW d \in Distances, NEW list, IsList(pass, v, list),
         NEW cands \in SUBSET Node, \A c \in cands : Kin(pass, v, c),
         NEW blocks, NEW s \in Pruned(v, d, list, cands, blocks)
  PROVE  Len(list) <= Len(s)
<1> DEFINE pool == Pool(v, list, cands)
           free == (Locked(v) + 1) .. Len(list)
<1>1. /\ list \in Seq(Node) /\ Len(list) <= Degree /\ IsWellFormed(v, list)
      /\ Locked(v) <= Len(list) /\ Locked(v) \in Nat /\ Degree \in Nat
      /\ IsFiniteSet(Node) /\ Len(list) \in Nat
  BY LayerAssumption DEF IsList, Extends, Locked
<1>2. PICK G \in SUBSET pool : \E R \in SUBSET (pool \ G) :
        /\ IsRecycled(R, d, pool \ G, Degree - Locked(v) - Cardinality(G))
        /\ Len(s) = Locked(v) + Cardinality(G) + Cardinality(R)
  <2>1. list \in Seq(Node) /\ Locked(v) <= Len(list)
    BY <1>1
  <2>2. PartedInto(v, d, list, Pool(v, list, cands), s)
    BY <2>1, PrunedParts
  <2> QED BY <2>2 DEF PartedInto
<1>3. PICK R \in SUBSET (pool \ G) :
        /\ IsRecycled(R, d, pool \ G, Degree - Locked(v) - Cardinality(G))
        /\ Len(s) = Locked(v) + Cardinality(G) + Cardinality(R)
  BY <1>2
<1>4. pool \in SUBSET Node /\ pool \ G \in SUBSET Node /\ R \in SUBSET Node
  BY <1>1 DEF Pool, Elems
<1>5. /\ IsFiniteSet(pool) /\ IsFiniteSet(G) /\ IsFiniteSet(R)
      /\ Cardinality(pool) \in Nat /\ Cardinality(G) \in Nat /\ Cardinality(R) \in Nat
  BY <1>1, <1>4, FS_Subset, FS_CardinalityType
<1>6. Cardinality(free) <= Cardinality(pool) /\ Cardinality(free) = Len(list) - Locked(v)
  <2> DEFINE f == [k \in free |-> list[k]]
  <2>1. \A k \in free : list[k] \in pool
    <3> SUFFICES ASSUME NEW k \in free PROVE list[k] \in pool
      OBVIOUS
    <3>1. k \in DOMAIN list /\ list[k] \in Elems(list) /\ list[k] # v
      BY <1>1 DEF Elems, IsWellFormed
    <3>2. list[k] \notin Elems(SubSeq(list, 1, Locked(v)))
      <4>1. \A j \in 1 .. Locked(v) : SubSeq(list, 1, Locked(v))[j] = list[j]
                                      /\ j \in DOMAIN list /\ j # k
        BY <1>1
      <4>2. DOMAIN SubSeq(list, 1, Locked(v)) = 1 .. Locked(v)
        BY <1>1
      <4> QED BY <1>1, <3>1, <4>1, <4>2 DEF Elems, IsWellFormed
    <3> QED BY <3>1, <3>2 DEF Pool
  <2>2. \A j, k \in free : list[j] = list[k] => j = k
    BY <1>1 DEF IsWellFormed
  <2> HIDE DEF pool, free
  <2>3. f \in Injection(free, pool)
    BY <2>1, <2>2 DEF Injection, IsInjective
  <2>4. Cardinality(free) <= Cardinality(pool)
    BY <1>5, <2>3, FS_Injection
  <2>5. Cardinality(free) = Len(list) - Locked(v)
    BY <1>1, FS_Interval DEF free
  <2> QED BY <2>4, <2>5
<1>7. CASE R = pool \ G
  <2>1. Cardinality(pool \ G) = Cardinality(pool) - Cardinality(G)
    <3>1. G \cap pool = G
      BY <1>2
    <3>2. Cardinality(pool \ G) = Cardinality(pool) - Cardinality(pool \cap G)
      BY <1>5, FS_Difference
    <3>3. pool \cap G = G
      BY <1>2
    <3> QED BY <3>2, <3>3
  <2> HIDE DEF pool, free
  <2> QED BY <1>1, <1>3, <1>5, <1>6, <1>7, <2>1
<1>8. CASE R # pool \ G
  <2> DEFINE space == Degree - Locked(v) - Cardinality(G)
  <2>1. CASE space \in Nat
    <3>1. Cardinality(R) >= space
      <4> HIDE DEF pool, space
      <4>1. IsRecycled(R, d, pool \ G, space)
        BY <1>3 DEF space
      <4> QED BY <1>3, <1>4, <1>8, <2>1, <4>1, Recycles
    <3> QED BY <1>1, <1>3, <1>5, <3>1
  <2>2. CASE space \notin Nat
    BY <1>1, <1>3, <1>5, <2>2
  <2> QED BY <2>1, <2>2
<1> QED BY <1>7, <1>8

(* What is left out of the rewritten list had no place in it.              *)
LEMMA PrunedKeeps ==
  ASSUME NEW v \in Node, NEW d \in Distances, NEW list \in Seq(Node), Locked(v) <= Len(list),
         NEW cands \in SUBSET Node, NEW blocks, NEW s \in Pruned(v, d, list, cands, blocks)
  PROVE  /\ Elems(s) \subseteq cands \cup Elems(list)
         /\ \A x \in Elems(list) \ {v} : x \in Elems(s) \/ Len(s) >= Degree
<1> DEFINE pool == Pool(v, list, cands)
           keep == SubSeq(list, 1, Locked(v))
<1>1. PICK G \in SUBSET pool : \E R \in SUBSET (pool \ G) :
        /\ IsRecycled(R, d, pool \ G, Degree - Locked(v) - Cardinality(G))
        /\ Len(s) = Locked(v) + Cardinality(G) + Cardinality(R)
        /\ Elems(s) = Elems(keep) \cup G \cup R
  <2>1. PartedInto(v, d, list, Pool(v, list, cands), s)
    BY PrunedParts
  <2> QED BY <2>1 DEF PartedInto
<1>2. PICK R \in SUBSET (pool \ G) :
        /\ IsRecycled(R, d, pool \ G, Degree - Locked(v) - Cardinality(G))
        /\ Len(s) = Locked(v) + Cardinality(G) + Cardinality(R)
        /\ Elems(s) = Elems(keep) \cup G \cup R
  BY <1>1
<1>3. Locked(v) \in Nat /\ Degree \in Nat
  BY LayerAssumption DEF Locked
<1>4. Elems(keep) \subseteq Elems(list)
  <2>1. \A k \in DOMAIN keep : k \in DOMAIN list /\ keep[k] = list[k]
    BY <1>3
  <2> QED BY <2>1 DEF Elems
<1>5. /\ pool \subseteq cands \cup Elems(list)
      /\ Elems(list) \ {v} \subseteq Elems(keep) \cup pool
      /\ pool \in SUBSET Node
  <2>1. Elems(list) \in SUBSET Node
    BY DEF Elems
  <2> HIDE DEF keep
  <2>2. pool = (cands \cup Elems(list)) \ ({v} \cup Elems(keep))
    BY DEF Pool, keep
  <2> QED BY <2>1, <2>2
<1> HIDE DEF pool, keep
<1>6. Elems(s) \subseteq cands \cup Elems(list)
  BY <1>2, <1>4, <1>5
<1>7. R = pool \ G \/ Len(s) >= Degree
  <2> DEFINE space == Degree - Locked(v) - Cardinality(G)
  <2>1. /\ G \in SUBSET Node /\ R \in SUBSET Node
        /\ IsFiniteSet(G) /\ IsFiniteSet(R)
    BY <1>5, FS_Subset, LayerAssumption
  <2>2. Cardinality(G) \in Nat /\ Cardinality(R) \in Nat
    BY <2>1, FS_CardinalityType
  <2>3. CASE space \in Nat
    <3>1. R = pool \ G \/ Cardinality(R) >= space
      <4>1. pool \ G \in SUBSET Node /\ IsRecycled(R, d, pool \ G, space)
        BY <1>2, <1>5
      <4> HIDE DEF space
      <4> QED BY <2>3, <4>1, Recycles
    <3> QED BY <1>2, <1>3, <2>2, <3>1
  <2>4. CASE space \notin Nat
    BY <1>2, <1>3, <2>2, <2>4
  <2> QED BY <2>3, <2>4
<1>8. \A x \in Elems(list) \ {v} : x \in Elems(s) \/ Len(s) >= Degree
  BY <1>2, <1>5, <1>7
<1> QED BY <1>6, <1>8

(* Where nothing is locked, what is written comes from the candidates and  *)
(* the list, and is empty only if they are.                                *)
LEMMA PrunedMembers ==
  ASSUME NEW v \in Node, NEW d \in Distances, NEW list \in Seq(Node), Locked(v) = 0,
         NEW cands \in SUBSET Node, NEW blocks, NEW s \in Pruned(v, d, list, cands, blocks)
  PROVE  /\ Elems(s) \subseteq cands \cup Elems(list)
         /\ cands \ {v} # {} => s # <<>>
<1> DEFINE pool == Pool(v, list, cands)
<1>1. PICK G \in SUBSET pool : \E R \in SUBSET (pool \ G) :
        /\ IsRecycled(R, d, pool \ G, Degree - Locked(v) - Cardinality(G))
        /\ Len(s) = Locked(v) + Cardinality(G) + Cardinality(R)
        /\ Elems(s) = Elems(SubSeq(list, 1, Locked(v))) \cup G \cup R
  <2>1. Locked(v) <= Len(list)
    OBVIOUS
  <2>2. PartedInto(v, d, list, Pool(v, list, cands), s)
    BY <2>1, PrunedParts
  <2> QED BY <2>2 DEF PartedInto
<1>2. PICK R \in SUBSET (pool \ G) :
        /\ IsRecycled(R, d, pool \ G, Degree - Locked(v) - Cardinality(G))
        /\ Len(s) = Locked(v) + Cardinality(G) + Cardinality(R)
        /\ Elems(s) = Elems(SubSeq(list, 1, Locked(v))) \cup G \cup R
  BY <1>1
<1>3. Elems(SubSeq(list, 1, Locked(v))) = {}
  BY DEF Elems
<1>4. pool = (cands \cup Elems(list)) \ {v} /\ pool \in SUBSET Node
  BY <1>3 DEF Pool, Elems
<1>5. Elems(s) \subseteq cands \cup Elems(list)
  BY <1>2, <1>3, <1>4
<1>6. ASSUME s = <<>> PROVE cands \ {v} = {}
  <2>1. /\ G \in SUBSET Node /\ R \in SUBSET Node
        /\ IsFiniteSet(G) /\ IsFiniteSet(R)
    BY <1>4, FS_Subset, LayerAssumption
  <2>2. /\ Cardinality(G) \in Nat /\ Cardinality(R) \in Nat
        /\ Len(s) = 0
    BY <1>6, <2>1, FS_CardinalityType
  <2>3. Cardinality(G) = 0 /\ Cardinality(R) = 0
    BY <1>2, <2>2
  <2>4. G = {} /\ R = {}
    BY <2>1, <2>3, FS_EmptySet
  <2>5. Degree \in Nat /\ Degree # 0
    BY LayerAssumption
  <2>6. IsRecycled(R, d, pool, Degree)
    BY <1>2, <2>3, <2>4, <2>5
  <2>7. R = pool \/ Cardinality(R) >= Degree
    <3> HIDE DEF pool
    <3> QED BY <1>4, <2>4, <2>5, <2>6, Recycles
  <2> QED BY <1>4, <2>3, <2>4, <2>5, <2>7
<1> QED BY <1>5, <1>6

(* Whoever is writing a list holds its mutex, so that the list is still    *)
(* the one that was read, and no longer than what takes its place.         *)
Guarded ==
  \A t \in Thread : Writing(t) =>
    /\ lock[Site(t)] = t
    /\ Len(adj[Site(t)]) <= Len(fill[t])

LEMMA OthersGuarded ==
  ASSUME Guarded, NEW t \in Thread, Others(t),
         \A u \in Thread \ {t} : Writing(u) =>
           lock'[Site(u)] = lock[Site(u)] /\ adj'[Site(u)] = adj[Site(u)],
         Writing(t)' => lock'[Site(t)'] = t /\ Len(adj'[Site(t)']) <= Len(fill'[t])
  PROVE  Guarded'
<1> SUFFICES ASSUME NEW u \in Thread \ {t}, Writing(u)'
             PROVE  lock'[Site(u)'] = u /\ Len(adj'[Site(u)']) <= Len(fill'[u])
  BY DEF Guarded
<1>1. Writing(u) /\ Site(u)' = Site(u) /\ fill'[u] = fill[u]
  BY DEF Others, Writing, Site
<1> QED BY <1>1 DEF Guarded

LEMMA WriterSite ==
  ASSUME IInv, NEW t \in Thread, Writing(t)
  PROVE  Site(t) \in Node /\ IsList(pass, Site(t), fill[t])
BY DEF IInv, Threads, ThreadOK, Writing, Busy, Linking, Companion, Site

LEMMA GuardedStep ==
  ASSUME IInv, Guarded, NEW t \in Thread, Insert(t)
  PROVE  Guarded'
<1>1. TypeOK /\ ThreadOK(t) /\ Lists /\ NoThread \notin Thread
  BY LayerAssumption DEF IInv, Threads
<1>2. \A u \in Thread : Writing(u) => Site(u) \in Node /\ lock[Site(u)] = u
  BY WriterSite DEF Guarded
<1>3. CASE \/ Claim(t) \/ Skip(t) \/ Enter(t) \/ Expand(t) \/ Pick(t)
           \/ LinkKnown(t) \/ Full(t)
  <2>1. lock' = lock /\ adj' = adj /\ Others(t) /\ ~Writing(t)'
    BY <1>1, <1>3 DEF Claim, Skip, Take, Enter, Expand, Pick, LinkKnown, Full,
                      NextLink, Others, Writing, TypeOK
  <2> QED BY <2>1, OthersGuarded
<1>4. CASE TakeOwn(t) \/ Leave(t)
  <2>1. adj' = adj /\ Others(t) /\ ~Writing(t)'
    BY <1>1, <1>4 DEF TakeOwn, Leave, Others, Writing, TypeOK
  <2>2. \A v \in Node : lock[v] \in Thread \ {t} => lock'[v] = lock[v]
    BY <1>1, <1>4 DEF TakeOwn, Leave, Free, TypeOK
  <2> QED BY <1>2, <2>1, <2>2, OthersGuarded
<1>5. CASE LinkBack(t)
  <2>1. /\ lock' = lock /\ Free(target[t]) /\ Others(t) /\ ~Writing(t)'
        /\ adj' = [adj EXCEPT ![target[t]] = Append(@, cur[t])]
    BY <1>1, <1>5 DEF LinkBack, NextLink, Others, Writing, TypeOK
  <2>2. \A v \in Node : lock[v] \in Thread => adj'[v] = adj[v]
    BY <1>1, <2>1 DEF Free, TypeOK
  <2> QED BY <1>2, <2>1, <2>2, OthersGuarded
<1>6. CASE EndPrune(t) \/ EndOffer(t)
  <2>1. Writing(t) /\ Install(t, Site(t)) /\ ~Writing(t)' /\ Others(t)
    BY <1>1, <1>6 DEF EndPrune, EndOffer, NextLink, Install, Writing, Site, Others, TypeOK
  <2>2. Site(t) \in Node /\ lock[Site(t)] = t
    BY <1>2, <2>1
  <2>3. \A v \in Node : lock[v] \in Thread \ {t} => lock'[v] = lock[v] /\ adj'[v] = adj[v]
    BY <1>1, <2>1, <2>2 DEF Install, TypeOK
  <2> QED BY <1>2, <2>1, <2>3, OthersGuarded
<1>7. CASE BeginPrune(t) \/ BeginOffer(t)
  <2>1. PICK v \in Node, d \in Distances, cands \in SUBSET Node,
             at \in {"prune", "offering"} :
          /\ Rewrite(t, v, d, cands, at)
          /\ v = IF at = "prune" THEN cur[t] ELSE target[t]
          /\ \A c \in cands : Kin(pass, v, c)
    <3>1. CASE BeginPrune(t)
      <4>1. pc[t] = "search" /\ Rewrite(t, cur[t], Dist[cur[t]], cand[t], "prune")
        BY <3>1 DEF BeginPrune
      <4>2. cur[t] \in Node /\ cand[t] \in SUBSET Node
            /\ \A c \in cand[t] : Kin(pass, cur[t], c)
        BY <1>1, <4>1 DEF ThreadOK, Busy, TypeOK
      <4> QED BY <4>1, <4>2, InDistances
    <3>2. CASE BeginOffer(t)
      <4>1. pc[t] = "offer" /\ Rewrite(t, target[t], Offered(target[t], cur[t], adj[target[t]]),
                                       {cur[t]}, "offering")
        BY <3>2 DEF BeginOffer
      <4>2. /\ cur[t] \in Node /\ target[t] \in Node
            /\ Kin(pass, target[t], cur[t])
        BY <1>1, <4>1, KinProperties DEF ThreadOK, Busy, Linking, Companion
      <4> QED BY <4>1, <4>2, InDistances
    <3> QED BY <1>7, <3>1, <3>2
  <2>2. PICK s \in Pruned(v, d, adj[v], cands, This.blocks) : fill' = [fill EXCEPT ![t] = s]
    BY <2>1 DEF Rewrite
  <2>3. /\ Free(v) /\ lock' = [lock EXCEPT ![v] = t] /\ pc' = [pc EXCEPT ![t] = at]
        /\ UNCHANGED <<adj, cur, target, result, cand>>
    BY <2>1 DEF Rewrite
  <2>4. Others(t) /\ fill'[t] = s /\ pc'[t] = at /\ lock'[v] = t
    BY <1>1, <2>2, <2>3 DEF Others, TypeOK
  <2>5. Site(t)' = v
    BY <2>1, <2>3, <2>4 DEF Site
  <2>6. Len(adj[v]) <= Len(s)
    <3>1. IsList(pass, v, adj[v])
      BY <1>1 DEF Lists
    <3> QED BY <2>1, <2>2, <3>1, PrunedNoShorter
  <2>7. \A x \in Node : lock[x] \in Thread => lock'[x] = lock[x]
    BY <1>1, <2>3 DEF Free, TypeOK
  <2> QED BY <1>2, <2>3, <2>4, <2>5, <2>6, <2>7, OthersGuarded
<1> QED BY <1>3, <1>4, <1>5, <1>6, <1>7 DEF Insert

LEMMA NextGuarded == IInv /\ Guarded /\ [Next]_vars => Guarded'
<1> SUFFICES ASSUME IInv, Guarded, [Next]_vars PROVE Guarded'
  OBVIOUS
<1>1. CASE \E t \in Thread : Insert(t)
  BY <1>1, GuardedStep
<1>2. CASE NextPass \/ UNCHANGED vars
  <2>1. UNCHANGED <<adj, lock, pc, cur, target, fill>>
    BY <1>2 DEF NextPass, vars
  <2> QED BY <2>1 DEF Guarded, Writing, Site
<1> QED BY <1>1, <1>2 DEF Next, Terminated

LEMMA NeverShorter ==
  ASSUME IInv, Guarded, [Next]_vars
  PROVE  \A v \in Node : Len(adj'[v]) >= Len(adj[v])
<1>1. TypeOK /\ \A v \in Node : Len(adj[v]) \in Nat
  BY DEF IInv, TypeOK
<1>2. CASE adj' = adj
  BY <1>1, <1>2
<1>3. ASSUME NEW t \in Thread, EndPrune(t) \/ EndOffer(t)
      PROVE  \A v \in Node : Len(adj'[v]) >= Len(adj[v])
  <2>1. Writing(t) /\ adj' = [adj EXCEPT ![Site(t)] = fill[t]]
    BY <1>3 DEF EndPrune, EndOffer, Install, Writing, Site
  <2>2. Site(t) \in Node /\ Len(fill[t]) \in Nat /\ Len(adj[Site(t)]) <= Len(fill[t])
    BY <1>1, <2>1, WriterSite DEF Guarded, IsList
  <2> QED BY <1>1, <2>1, <2>2 DEF TypeOK
<1>4. ASSUME NEW t \in Thread, LinkBack(t)
      PROVE  \A v \in Node : Len(adj'[v]) >= Len(adj[v])
  <2>1. /\ adj' = [adj EXCEPT ![target[t]] = Append(@, cur[t])]
        /\ pc[t] = "link"
    BY <1>4 DEF LinkBack
  <2>2. target[t] \in Node /\ cur[t] \in Node
    BY <2>1 DEF IInv, Threads, ThreadOK, Busy, Linking, Companion
  <2>3. Len(Append(adj[target[t]], cur[t])) = Len(adj[target[t]]) + 1
    BY <1>1, <2>2 DEF TypeOK
  <2> QED BY <1>1, <2>1, <2>2, <2>3 DEF TypeOK
<1>5. \/ adj' = adj
      \/ \E t \in Thread : EndPrune(t) \/ EndOffer(t) \/ LinkBack(t)
      \/ UNCHANGED vars
  BY DEF Next, Insert, Claim, Skip, Enter, Expand, BeginPrune, Rewrite, TakeOwn,
         Pick, Leave, LinkKnown, Full, BeginOffer, NextPass, Terminated
<1>6. CASE UNCHANGED vars
  BY <1>2, <1>6 DEF vars
<1> QED BY <1>2, <1>3, <1>4, <1>5, <1>6

LEMMA InitGuarded == Init => Guarded
  BY DEF Init, Guarded, Writing

(* A list is read under one acquisition of its mutex and written under     *)
(* another, but never leaves a vertex with fewer neighbours than before.   *)
THEOREM NoneLosesCorrect == Spec => NoneLoses
<1>1. ASSUME IInv, Guarded, [Next]_vars
      PROVE  [\A v \in Node : Len(adj'[v]) >= Len(adj[v])]_vars
  BY <1>1, NeverShorter
<1> QED BY <1>1, InitGuarded, InitIInv, NextIInv, NextGuarded, PTL DEF Spec, NoneLoses

-----------------------------------------------------------------------------
LEMMA EmptyBefore ==
  ASSUME IInv, Guarded, [Next]_vars, NEW v \in Node, adj'[v] = <<>>
  PROVE  adj[v] = <<>>
<1>1. Len(adj[v]) <= 0 /\ adj[v] \in Seq(Node)
  BY NeverShorter DEF IInv, TypeOK
<1> QED BY <1>1

LEMMA AppendedNotEmpty ==
  ASSUME IInv, NEW t \in Thread, LinkBack(t), target[t] \in Node
  PROVE  adj'[target[t]] # <<>>
<1>1. adj[target[t]] \in Seq(Node) /\ cur[t] \in Node
  BY DEF IInv, TypeOK, Threads, ThreadOK, LinkBack, Busy
<1>2. adj'[target[t]] = Append(adj[target[t]], cur[t])
  BY DEF IInv, TypeOK, LinkBack
<1> QED BY <1>1, <1>2

(* What it keeps of the other threads: the mutexes they hold stay theirs.  *)
LEMMA HeldStays ==
  ASSUME IInv, Guarded, NEW t \in Thread, Insert(t), NEW v \in Node,
         lock[v] \in Thread \ {t}
  PROVE  lock'[v] = lock[v]
<1>1. TypeOK /\ NoThread \notin Thread
  BY LayerAssumption DEF IInv
<1>2. CASE EndPrune(t) \/ EndOffer(t)
  <2>1. Writing(t) /\ lock' = [lock EXCEPT ![Site(t)] = NoThread]
    BY <1>2 DEF EndPrune, EndOffer, Install, Writing, Site
  <2>2. lock[Site(t)] = t
    BY <2>1 DEF Guarded
  <2> QED BY <1>1, <2>1, <2>2 DEF TypeOK
<1>3. CASE TakeOwn(t) \/ Leave(t) \/ BeginPrune(t) \/ BeginOffer(t)
  BY <1>1, <1>3 DEF TakeOwn, Leave, BeginPrune, BeginOffer, Rewrite, Free, TypeOK
<1>4. CASE \/ Claim(t) \/ Skip(t) \/ Enter(t) \/ Expand(t) \/ Pick(t)
           \/ LinkKnown(t) \/ LinkBack(t) \/ Full(t)
  BY <1>4 DEF Claim, Skip, Take, Enter, Expand, Pick, LinkKnown, LinkBack, Full
<1> QED BY <1>2, <1>3, <1>4 DEF Insert

LEMMA OthersAsBefore ==
  ASSUME IInv, NEW t \in Thread, Insert(t)
  PROVE  Others(t) /\ \A u \in Thread \ {t} : index'[u] = index[u]
<1>1. TypeOK
  BY DEF IInv
<1>2. CASE Claim(t) \/ Skip(t) \/ Enter(t) \/ Expand(t) \/ TakeOwn(t)
  BY <1>1, <1>2 DEF Claim, Skip, Take, Enter, Expand, TakeOwn, Others, TypeOK
<1>3. CASE Pick(t) \/ Leave(t) \/ LinkKnown(t) \/ LinkBack(t) \/ Full(t)
  BY <1>1, <1>3 DEF Pick, Leave, LinkKnown, LinkBack, Full, NextLink, Others, TypeOK
<1>4. CASE BeginPrune(t) \/ BeginOffer(t)
  BY <1>1, <1>4 DEF BeginPrune, BeginOffer, Rewrite, Others, TypeOK
<1>5. CASE EndPrune(t) \/ EndOffer(t)
  BY <1>1, <1>5 DEF EndPrune, EndOffer, Install, NextLink, Others, TypeOK
<1> QED BY <1>2, <1>3, <1>4, <1>5 DEF Insert

(* The own list of a vertex whose mutex is held has no other writer.       *)
LEMMA NoWriter ==
  ASSUME Guarded, NEW t \in Thread, ~Writing(t), NEW v, lock[v] = t
  PROVE  Writers(v) = {} /\ Sizes(v) = {Len(adj[v])}
<1>1. Writers(v) = {}
  BY DEF Writers, Guarded, Writing
<1> QED BY <1>1 DEF Sizes

-----------------------------------------------------------------------------
(* A loop that holds: no thread waits for the shared enter_pt, and each has *)
(* the mutex of its vertex while it links.                                 *)
AtLink(t) == pc[t] \in {"pick", "link", "offer", "offering"}

Holding(t) ==
  /\ pc[t] # "enter"
  /\ AtLink(t) => lock[cur[t]] = t
  /\ pc[t] \in {"idle", "search", "prune", "own"} => index[t] = 1

LEMMA HoldingStep ==
  ASSUME IInv, Guarded, This.hold, NEW t \in Thread, Insert(t), Holding(t)
  PROVE  Holding(t)'
<1>1. TypeOK /\ ThreadOK(t)
  BY DEF IInv, Threads
<1>2. CASE Claim(t) \/ Skip(t)
  <2>1. (pc' = pc \/ pc' = [pc EXCEPT ![t] = "search"]) /\ index' = index /\ pc[t] = "idle"
    BY <1>2 DEF Claim, Skip, Take
  <2> QED BY <1>1, <2>1 DEF Holding, AtLink, TypeOK
<1>3. CASE Enter(t) \/ Expand(t)
  BY <1>1, <1>3 DEF Enter, Expand, Holding, AtLink, TypeOK
<1>4. CASE BeginPrune(t) \/ EndPrune(t)
  <2>1. /\ pc' = [pc EXCEPT ![t] = "prune"] \/ pc' = [pc EXCEPT ![t] = "own"]
        /\ index' = index /\ pc[t] \in {"search", "prune"}
    BY <1>4 DEF BeginPrune, EndPrune, Rewrite
  <2> QED BY <1>1, <2>1 DEF Holding, AtLink, TypeOK
<1>5. CASE TakeOwn(t)
  <2>1. /\ pc[t] = "own" /\ pc' = [pc EXCEPT ![t] = "pick"]
        /\ lock' = [lock EXCEPT ![cur[t]] = t] /\ cur' = cur
    BY <1>5 DEF TakeOwn
  <2>2. cur[t] \in Node
    BY <1>1, <2>1 DEF ThreadOK, Busy
  <2> QED BY <1>1, <2>1, <2>2 DEF Holding, TypeOK
<1>6. CASE Leave(t)
  BY <1>1, <1>6 DEF Leave, Holding, AtLink, TypeOK
<1>7. CASE Pick(t) \/ LinkKnown(t) \/ LinkBack(t) \/ Full(t)
  <2>1. /\ AtLink(t) /\ UNCHANGED <<lock, cur>>
        /\ pc'[t] \in {"pick", "link", "offer"}
    BY <1>1, <1>7 DEF Pick, LinkKnown, LinkBack, Full, NextLink, AtLink, TypeOK
  <2> QED BY <2>1 DEF Holding
<1>8. CASE BeginOffer(t) \/ EndOffer(t)
  <2>1. /\ AtLink(t) /\ cur' = cur /\ pc'[t] \in {"pick", "offering"}
        /\ target[t] # cur[t] /\ cur[t] \in Node
        /\ \/ lock' = [lock EXCEPT ![target[t]] = t]
           \/ lock' = [lock EXCEPT ![target[t]] = NoThread]
    BY <1>1, <1>8 DEF BeginOffer, EndOffer, Rewrite, Install, NextLink, AtLink, TypeOK,
                      ThreadOK, Busy, Linking, Companion
  <2>2. lock'[cur[t]] = lock[cur[t]]
    BY <1>1, <2>1 DEF TypeOK
  <2> QED BY <2>1, <2>2 DEF Holding
<1> QED BY <1>2, <1>3, <1>4, <1>5, <1>6, <1>7, <1>8 DEF Insert

LEMMA HoldingOthers ==
  ASSUME IInv, Guarded, NEW t \in Thread, Insert(t), NEW u \in Thread \ {t}, Holding(u)
  PROVE  Holding(u)'
<1>1. /\ pc'[u] = pc[u] /\ cur'[u] = cur[u] /\ index'[u] = index[u]
      /\ ThreadOK(u)
  BY OthersAsBefore DEF Others, IInv, Threads
<1>2. AtLink(u) => lock'[cur[u]] = u
  <2>1. SUFFICES ASSUME AtLink(u) PROVE lock'[cur[u]] = u
    OBVIOUS
  <2>2. cur[u] \in Node /\ lock[cur[u]] = u
    BY <1>1, <2>1 DEF ThreadOK, Busy, AtLink, Holding
  <2> QED BY <2>2, HeldStays
<1> QED BY <1>1, <1>2 DEF Holding, AtLink

-----------------------------------------------------------------------------
(* In the first loop of the first layer, a vertex knows only its entry     *)
(* vertex until somebody has linked to that one; the entry vertex gets its *)
(* first neighbour from the first of them.                                 *)
Alone(v) == adj[Entry[v]] = <<>>

Started(t) ==
  /\ pc[t] = "search" =>
       \/ result[t] = {Entry[cur[t]]} /\ cand[t] = {}
       \/ Entry[cur[t]] \in cand[t]
  /\ pc[t] = "prune" /\ cur[t] # Entry[cur[t]] => fill[t] # <<>>

OnlyEntry(t) ==
  Busy(t) /\ Alone(cur[t]) =>
    /\ pc[t] \notin {"offer", "offering"}
    /\ pc[t] = "search" => result[t] \cup cand[t] \subseteq {Entry[cur[t]]}
    /\ pc[t] = "prune" => Elems(fill[t]) \subseteq {Entry[cur[t]]}
    /\ pc[t] \in {"pick", "link"} => index[t] = 1
    /\ pc[t] = "link" => target[t] = Entry[cur[t]]

Lone(v) == Alone(v) => Elems(adj[v]) \subseteq {Entry[v]}

Ahead(v) == \E i \in DOMAIN This.order : i >= next /\ This.order[i] = v

(* A vertex that is not linked yet is still to come or on its way.         *)
Awaited(v) ==
  v # Entry[v] =>
    /\ adj[v] = <<>> =>
         Ahead(v) \/ \E t \in Thread : cur[t] = v /\ pc[t] \in {"search", "prune"}
    /\ Alone(v) => Ahead(v) \/ \E t \in Thread : cur[t] = v /\ Busy(t)

AllLinked == \A v \in Node : v # Entry[v] => adj[v] # <<>> /\ ~Alone(v)

LinkInv ==
  IF pass = 1
  THEN /\ \A t \in Thread : Holding(t) /\ Started(t) /\ OnlyEntry(t)
       /\ \A v \in Node : Lone(v) /\ Awaited(v)
  ELSE AllLinked

(* What the first layer says of the first loop.                            *)
LEMMA FirstLoop ==
  ASSUME FirstLayer, pass = 1
  PROVE  /\ This.hold
         /\ \A v \in Node : Locked(v) = 0
         /\ \A u, v \in Node : Companion(pass, v, u) => Entry[u] = Entry[v]
         /\ pass <= Len(Passes)
<1>1. /\ Passes[1].hold /\ Passes # <<>>
      /\ Passes \in Seq([order : Seq(Node), hold : BOOLEAN,
                         blocks : SUBSET (Node \X Node \X Node \X Nat)])
  BY LayerAssumption DEF FirstLayer
<1>2. 1 <= Len(Passes) /\ \A k \in DOMAIN Passes : k <= 1 => k = 1
  BY <1>1
<1>3. HeldUpTo(1)
  BY <1>1, <1>2 DEF HeldUpTo
<1>4. \A v \in Node : Locked(v) = 0
  BY DEF FirstLayer, Locked
<1> QED BY <1>1, <1>2, <1>3, <1>4 DEF This, Companion, Kin, SameComponent

LEMMA OrderType ==
  ASSUME pass \in 1 .. Len(Passes)
  PROVE  This.order \in Seq(Node)
<1> DEFINE Pass == [order : Seq(Node), hold : BOOLEAN,
                    blocks : SUBSET (Node \X Node \X Node \X Nat)]
<1>1. Passes \in Seq(Pass)
  BY LayerAssumption
<1>2. Passes[pass] \in Pass
  <2> HIDE DEF Pass
  <2> QED BY <1>1
<1> QED BY <1>2 DEF This

LEMMA TakenIsNode ==
  ASSUME TypeOK, NEW t \in Thread, Take(t)
  PROVE  /\ This.order \in Seq(Node)
         /\ next \in DOMAIN This.order /\ This.order[next] \in Node
<1>1. Len(Passes) \in Nat
  BY LayerAssumption
<1>2. This.order \in Seq(Node)
  BY <1>1, OrderType DEF Take, TypeOK, Done
<1>3. next \in 1 .. Len(This.order)
  BY <1>2 DEF Take, TypeOK
<1> QED BY <1>2, <1>3

-----------------------------------------------------------------------------
(* What a step keeps of the thread that takes it.                          *)
LEMMA SearchOwn ==
  ASSUME FirstLayer, IInv, Guarded, LinkInv, pass = 1, NEW t \in Thread,
         \/ Claim(t) \/ Skip(t) \/ Enter(t) \/ Expand(t)
  PROVE  Started(t)' /\ OnlyEntry(t)'
<1>1. /\ TypeOK /\ ThreadOK(t) /\ Lists /\ Holding(t) /\ Started(t) /\ OnlyEntry(t)
  BY DEF IInv, Threads, LinkInv
<1>2. This.hold /\ \A v \in Node : Locked(v) = 0
  BY FirstLoop
<1>3. CASE Claim(t)
  <2> DEFINE v == This.order[next]
  <2>1. /\ result' = [result EXCEPT ![t] = {Entry[v]}]
        /\ pc[t] = "idle" /\ pc' = [pc EXCEPT ![t] = "search"]
        /\ cur' = [cur EXCEPT ![t] = v]
        /\ UNCHANGED <<adj, cand, index>>
    BY <1>2, <1>3 DEF Claim, Take, EntryOf
  <2>2. cand[t] = {} /\ index[t] = 1
    BY <1>1, <2>1 DEF ThreadOK, Holding, AtLink, Started
  <2> HIDE DEF v
  <2>3. result'[t] = {Entry[v]} /\ pc'[t] = "search" /\ cur'[t] = v
    BY <1>1, <2>1 DEF TypeOK
  <2> QED BY <2>1, <2>2, <2>3 DEF Holding, AtLink, Started, OnlyEntry
<1>4. CASE Skip(t)
  <2>1. This.order[next] \in Node
    BY <1>1, <1>4, TakenIsNode DEF Skip
  <2> QED BY <1>2, <1>4, <2>1, LayerAssumption DEF Skip
<1>5. CASE Enter(t)
  BY <1>1, <1>5 DEF Enter, Holding, AtLink, Started
<1>6. CASE Expand(t)
  <2>1. PICK u \in Unexpanded(t) :
          /\ cand' = [cand EXCEPT ![t] = Expanded(t, u)]
          /\ result' = [result EXCEPT ![t] = Closest(cur[t], @ \cup Elems(adj[u]))]
    BY <1>6 DEF Expand
  <2>2. pc[t] = "search" /\ UNCHANGED <<adj, pc, cur, index>>
    BY <1>6 DEF Expand
  <2>3. u \in result[t] /\ u \notin cand[t]
    BY DEF Unexpanded
  <2>4. /\ cand'[t] = cand[t] \cup {u}
        /\ result'[t] \subseteq result[t] \cup Elems(adj[u])
    BY <1>1, <2>1 DEF TypeOK, Expanded, Closest
  <2>5. Entry[cur[t]] \in cand'[t]
    BY <1>1, <2>2, <2>3, <2>4 DEF Holding, AtLink, Started
  <2>6. Started(t)'
    BY <1>1, <2>2, <2>5 DEF Holding, AtLink, Started
  <2>7. ASSUME Alone(cur[t]) PROVE result'[t] \cup cand'[t] \subseteq {Entry[cur[t]]}
    <3>1. result[t] \cup cand[t] \subseteq {Entry[cur[t]]}
      BY <1>1, <2>2, <2>7 DEF OnlyEntry, Busy
    <3>2. u = Entry[cur[t]] /\ Elems(adj[u]) = {}
      BY <2>3, <2>7, <3>1 DEF Alone, Elems
    <3> QED BY <2>4, <3>1, <3>2
  <2>8. OnlyEntry(t)'
    BY <2>2, <2>7 DEF OnlyEntry, Alone
  <2> QED BY <2>6, <2>8
<1> QED BY <1>3, <1>4, <1>5, <1>6

LEMMA PruneOwn ==
  ASSUME FirstLayer, IInv, Guarded, LinkInv, pass = 1, NEW t \in Thread,
         BeginPrune(t) \/ EndPrune(t) \/ TakeOwn(t)
  PROVE  Started(t)' /\ OnlyEntry(t)'
<1>1. /\ TypeOK /\ ThreadOK(t) /\ Lists /\ Holding(t) /\ Started(t) /\ OnlyEntry(t)
      /\ \A v \in Node : Lone(v)
  BY DEF IInv, Threads, LinkInv
<1>2. This.hold /\ \A v \in Node : Locked(v) = 0
  BY FirstLoop
<1>3. CASE BeginPrune(t)
  <2>1. /\ pc[t] = "search" /\ Unexpanded(t) = {}
        /\ Rewrite(t, cur[t], Dist[cur[t]], cand[t], "prune")
    BY <1>3 DEF BeginPrune
  <2>2. cur[t] \in Node /\ cand[t] \in SUBSET Node
    BY <1>1, <2>1 DEF ThreadOK, Busy, TypeOK
  <2>3. PICK s \in Pruned(cur[t], Dist[cur[t]], adj[cur[t]], cand[t], This.blocks) :
          fill' = [fill EXCEPT ![t] = s]
    BY <2>1 DEF Rewrite
  <2>4. pc' = [pc EXCEPT ![t] = "prune"] /\ UNCHANGED <<adj, cur, index>>
    BY <2>1 DEF Rewrite
  <2>5. adj[cur[t]] \in Seq(Node)
    BY <1>1, <2>2 DEF TypeOK
  <2>6. /\ Elems(s) \subseteq cand[t] \cup Elems(adj[cur[t]])
        /\ cand[t] \ {cur[t]} # {} => s # <<>>
    BY <1>2, <2>2, <2>3, <2>5, InDistances, PrunedMembers
  <2>7. Entry[cur[t]] \in cand[t]
    BY <1>1, <2>1 DEF Holding, AtLink, Started, Unexpanded
  <2>8. fill'[t] = s /\ pc'[t] = "prune"
    BY <1>1, <2>3, <2>4 DEF TypeOK
  <2>9. Started(t)'
    BY <1>1, <2>1, <2>4, <2>6, <2>7, <2>8 DEF Holding, AtLink, Started
  <2>10. Alone(cur[t]) => Elems(s) \subseteq {Entry[cur[t]]}
    BY <1>1, <2>1, <2>2, <2>6 DEF OnlyEntry, Busy, Lone
  <2>11. OnlyEntry(t)'
    BY <2>4, <2>8, <2>10 DEF OnlyEntry, Alone
  <2> QED BY <2>9, <2>11
<1>4. CASE EndPrune(t)
  <2>1. pc[t] = "prune" /\ pc' = [pc EXCEPT ![t] = "own"] /\ index' = index
    BY <1>2, <1>4 DEF EndPrune
  <2>2. pc'[t] = "own" /\ index[t] = 1
    BY <1>1, <2>1 DEF TypeOK, Holding, AtLink, Started
  <2> QED BY <2>1, <2>2 DEF Holding, AtLink, Started, OnlyEntry
<1>5. CASE TakeOwn(t)
  <2>1. /\ pc[t] = "own" /\ pc' = [pc EXCEPT ![t] = "pick"]
        /\ lock' = [lock EXCEPT ![cur[t]] = t]
        /\ UNCHANGED <<index, cur>>
    BY <1>5 DEF TakeOwn
  <2>2. cur[t] \in Node
    BY <1>1, <2>1 DEF ThreadOK, Busy
  <2>3. pc'[t] = "pick" /\ index[t] = 1 /\ lock'[cur[t]] = t
    BY <1>1, <2>1, <2>2 DEF TypeOK, Holding, AtLink, Started
  <2> QED BY <2>1, <2>3 DEF Holding, AtLink, Started, OnlyEntry
<1> QED BY <1>3, <1>4, <1>5

LEMMA LinkOwn ==
  ASSUME FirstLayer, IInv, Guarded, LinkInv, pass = 1, NEW t \in Thread, [Next]_vars,
         \/ Pick(t) \/ Leave(t) \/ LinkKnown(t) \/ LinkBack(t) \/ Full(t)
         \/ BeginOffer(t) \/ EndOffer(t)
  PROVE  Started(t)' /\ OnlyEntry(t)'
<1>1. /\ TypeOK /\ ThreadOK(t) /\ Lists /\ Holding(t) /\ Started(t) /\ OnlyEntry(t)
      /\ \A v \in Node : Lone(v)
  BY DEF IInv, Threads, LinkInv
<1>2. /\ pc[t] \in {"pick", "link", "offer", "offering"} /\ Busy(t)
      /\ cur[t] \in Node /\ lock[cur[t]] = t
  BY <1>1 DEF Pick, Leave, LinkKnown, LinkBack, Full, BeginOffer, EndOffer, Busy,
              ThreadOK, Holding, AtLink
<1>3. Degree \in Nat \ {0} /\ Entry[cur[t]] \in Node
  BY <1>2, LayerAssumption
<1>4. CASE Pick(t)
  <2>1. PICK u \in Slots(cur[t], index[t]) : target' = [target EXCEPT ![t] = u]
    BY <1>4 DEF Pick
  <2>2. /\ pc[t] = "pick" /\ pc' = [pc EXCEPT ![t] = "link"]
        /\ UNCHANGED <<adj, lock, cur, index>>
    BY <1>4 DEF Pick
  <2>3. pc'[t] = "link" /\ target'[t] = u
    BY <1>1, <2>1, <2>2 DEF TypeOK
  <2>4. ASSUME Alone(cur[t]) PROVE index[t] = 1 /\ u = Entry[cur[t]]
    <3>1. index[t] = 1 /\ Elems(adj[cur[t]]) \subseteq {Entry[cur[t]]}
      BY <1>1, <1>2, <2>2, <2>4 DEF OnlyEntry, Lone
    <3>2. Writers(cur[t]) = {}
      BY <1>2, <2>2, NoWriter DEF Writing
    <3>3. u = adj[cur[t]][1] /\ 1 <= Len(adj[cur[t]])
      BY <2>1, <3>1, <3>2 DEF Slots
    <3>4. adj[cur[t]] \in Seq(Node)
      BY <1>1, <1>2 DEF TypeOK
    <3>5. u \in Elems(adj[cur[t]])
      BY <3>3, <3>4 DEF Elems
    <3> QED BY <3>1, <3>5
  <2>5. Started(t)'
    BY <1>2, <2>2, <2>3 DEF Holding, AtLink, Started
  <2>6. OnlyEntry(t)'
    BY <2>2, <2>3, <2>4 DEF OnlyEntry, Alone
  <2> QED BY <2>5, <2>6
<1>5. CASE Leave(t)
  <2>1. pc'[t] = "idle" /\ index'[t] = 1
    BY <1>1, <1>5 DEF Leave, TypeOK
  <2> QED BY <2>1 DEF Holding, AtLink, Started, OnlyEntry, Busy
<1>6. CASE LinkKnown(t)
  <2>1. /\ pc[t] = "link" /\ pc'[t] = "pick"
        /\ cur[t] \in Elems(adj[target[t]])
        /\ UNCHANGED <<adj, lock, cur>>
    BY <1>1, <1>6 DEF LinkKnown, NextLink, TypeOK, IsDuplicate
  <2>2. ~Alone(cur[t])
    <3>1. SUFFICES ASSUME Alone(cur[t]) PROVE FALSE
      OBVIOUS
    <3>2. adj[target[t]] = <<>>
      BY <1>1, <1>2, <2>1, <3>1 DEF OnlyEntry, Alone
    <3> QED BY <2>1, <3>2 DEF Elems
  <2> QED BY <1>2, <2>1, <2>2 DEF Holding, AtLink, Started, OnlyEntry, Alone
<1>7. CASE LinkBack(t)
  <2>1. /\ pc[t] = "link" /\ pc'[t] = "pick" /\ UNCHANGED <<lock, cur>>
        /\ adj' = [adj EXCEPT ![target[t]] = Append(@, cur[t])]
    BY <1>1, <1>7 DEF LinkBack, NextLink, TypeOK
  <2>2. target[t] \in Node
    BY <1>1, <2>1 DEF ThreadOK, Linking, Companion
  <2>3. adj'[target[t]] # <<>>
    BY <2>2, <1>7, AppendedNotEmpty
  <2>4. ~Alone(cur[t])'
    <3>1. SUFFICES ASSUME adj'[Entry[cur[t]]] = <<>> PROVE FALSE
      BY <2>1 DEF Alone
    <3>2. Alone(cur[t])
      BY <1>1, <1>2, <1>3, <3>1, EmptyBefore DEF Alone
    <3> QED BY <1>1, <1>2, <2>1, <2>3, <3>1, <3>2 DEF OnlyEntry
  <2> QED BY <1>2, <2>1, <2>4 DEF Holding, AtLink, Started, OnlyEntry
<1>8. CASE Full(t)
  <2>1. /\ pc[t] = "link" /\ pc'[t] = "offer"
        /\ ~(Len(adj[target[t]]) < Degree)
        /\ UNCHANGED <<adj, lock, cur>>
    BY <1>1, <1>8 DEF Full, TypeOK, HasRoom
  <2>2. ~Alone(cur[t])
    <3>1. SUFFICES ASSUME Alone(cur[t]) PROVE FALSE
      OBVIOUS
    <3>2. adj[target[t]] = <<>>
      BY <1>1, <1>2, <2>1, <3>1 DEF OnlyEntry, Alone
    <3> QED BY <1>3, <2>1, <3>2
  <2> QED BY <1>2, <2>1, <2>2 DEF Holding, AtLink, Started, OnlyEntry, Alone
<1>9. CASE BeginOffer(t)
  <2>1. /\ pc[t] = "offer" /\ pc' = [pc EXCEPT ![t] = "offering"]
        /\ lock' = [lock EXCEPT ![target[t]] = t]
        /\ UNCHANGED <<adj, cur>>
    BY <1>9 DEF BeginOffer, Rewrite
  <2>2. pc'[t] = "offering" /\ lock'[cur[t]] = t
    BY <1>1, <1>2, <2>1 DEF TypeOK
  <2>3. ~Alone(cur[t])
    BY <1>1, <1>2, <2>1 DEF OnlyEntry
  <2> QED BY <2>1, <2>2, <2>3 DEF Holding, AtLink, Started, OnlyEntry, Alone
<1>10. CASE EndOffer(t)
  <2>1. /\ pc[t] = "offering" /\ pc'[t] = "pick" /\ cur' = cur
        /\ lock' = [lock EXCEPT ![target[t]] = NoThread]
    BY <1>1, <1>10 DEF EndOffer, NextLink, Install, TypeOK
  <2>2. target[t] # cur[t]
    BY <1>1, <2>1 DEF ThreadOK, Linking, Companion
  <2>3. lock'[cur[t]] = t
    BY <1>1, <1>2, <2>1, <2>2 DEF TypeOK
  <2>4. ~Alone(cur[t])
    BY <1>1, <1>2, <2>1 DEF OnlyEntry
  <2>5. ~Alone(cur[t])'
    BY <1>1, <1>2, <1>3, <2>1, <2>4, EmptyBefore DEF Alone
  <2> QED BY <2>1, <2>3, <2>5 DEF Holding, AtLink, Started, OnlyEntry
<1> QED BY <1>4, <1>5, <1>6, <1>7, <1>8, <1>9, <1>10

-----------------------------------------------------------------------------
LEMMA OthersLink ==
  ASSUME IInv, Guarded, LinkInv, pass = 1, NEW t \in Thread, Insert(t),
         NEW u \in Thread \ {t}
  PROVE  Started(u)' /\ OnlyEntry(u)'
<1>1. TypeOK /\ ThreadOK(u) /\ Holding(u) /\ Started(u) /\ OnlyEntry(u) /\ [Next]_vars
  BY DEF IInv, Threads, LinkInv, Next
<1>2. /\ pc'[u] = pc[u] /\ cur'[u] = cur[u] /\ target'[u] = target[u]
      /\ result'[u] = result[u] /\ cand'[u] = cand[u] /\ fill'[u] = fill[u]
      /\ index'[u] = index[u]
  BY OthersAsBefore DEF Others
<1>3. pc[u] \in {"pick", "link", "offer", "offering"} => lock'[cur[u]] = u
  <2>1. SUFFICES ASSUME pc[u] \in {"pick", "link", "offer", "offering"}
                 PROVE  lock'[cur[u]] = u
    OBVIOUS
  <2>2. cur[u] \in Node /\ lock[cur[u]] = u
    BY <1>1, <2>1 DEF ThreadOK, Busy, Holding, AtLink, Started
  <2> QED BY <2>2, HeldStays
<1>4. Busy(u) /\ Alone(cur[u])' => Alone(cur[u])
  <2>1. SUFFICES ASSUME Busy(u), adj'[Entry[cur[u]]] = <<>> PROVE Alone(cur[u])
    BY <1>2 DEF Alone
  <2>2. Entry[cur[u]] \in Node
    BY <1>1, <2>1, LayerAssumption DEF ThreadOK
  <2> QED BY <1>1, <2>1, <2>2, EmptyBefore DEF Alone
<1>5. Started(u)'
  BY <1>1, <1>2, <1>3 DEF Holding, AtLink, Started
<1>6. OnlyEntry(u)'
  BY <1>1, <1>2, <1>4 DEF OnlyEntry, Busy
<1> QED BY <1>5, <1>6

-----------------------------------------------------------------------------
(* What it keeps of the vertices.                                          *)
LEMMA LoneStep ==
  ASSUME FirstLayer, IInv, Guarded, LinkInv, pass = 1, NEW t \in Thread, Insert(t),
         NEW v \in Node
  PROVE  Lone(v)'
<1>1. /\ TypeOK /\ ThreadOK(t) /\ Holding(t) /\ Started(t) /\ OnlyEntry(t) /\ Lone(v)
      /\ [Next]_vars /\ Entry[v] \in Node
  BY LayerAssumption DEF IInv, Threads, LinkInv, Next
<1>2. SUFFICES ASSUME adj'[Entry[v]] = <<>>
               PROVE  Elems(adj'[v]) \subseteq {Entry[v]}
  BY DEF Lone, Alone
<1>3. Alone(v) /\ Elems(adj[v]) \subseteq {Entry[v]}
  BY <1>1, <1>2, EmptyBefore DEF Alone, Lone
<1>4. CASE EndPrune(t)
  <2>1. /\ pc[t] = "prune" /\ adj' = [adj EXCEPT ![cur[t]] = fill[t]]
    BY <1>4 DEF EndPrune, Install
  <2>2. CASE v = cur[t]
    BY <1>1, <1>3, <2>1, <2>2 DEF OnlyEntry, Busy, TypeOK
  <2>3. CASE v # cur[t]
    BY <1>1, <1>3, <2>1, <2>3 DEF TypeOK
  <2> QED BY <2>2, <2>3
<1>5. CASE LinkBack(t) \/ EndOffer(t)
  <2>1. /\ Linking(t) /\ Busy(t) /\ pc[t] \in {"link", "offering"}
        /\ pc[t] = "link" => LinkBack(t)
    BY <1>5 DEF LinkBack, EndOffer, Linking, Busy
  <2>2. target[t] \in Node /\ cur[t] \in Node /\ Entry[target[t]] = Entry[cur[t]]
    BY <1>1, <2>1, FirstLoop DEF ThreadOK, Companion
  <2>3. CASE v = target[t]
    <3>1. Alone(cur[t])
      BY <1>3, <2>2, <2>3 DEF Alone
    <3>2. LinkBack(t) /\ target[t] = Entry[cur[t]]
      BY <1>1, <2>1, <3>1 DEF OnlyEntry
    <3>3. adj'[target[t]] # <<>>
      BY <2>2, <3>2, AppendedNotEmpty
    <3> QED BY <1>2, <2>2, <2>3, <3>2, <3>3
  <2>4. CASE v # target[t]
    <3>1. adj'[v] = adj[v]
      BY <1>1, <1>5, <2>4 DEF LinkBack, EndOffer, Install, TypeOK
    <3> QED BY <1>3, <3>1
  <2> QED BY <2>3, <2>4
<1>6. CASE ~(EndPrune(t) \/ LinkBack(t) \/ EndOffer(t))
  <2>1. adj' = adj
    BY <1>6 DEF Insert, Claim, Skip, Take, Enter, Expand, BeginPrune, Rewrite, TakeOwn,
                Pick, Leave, LinkKnown, Full, BeginOffer
  <2> QED BY <1>3, <2>1
<1> QED BY <1>4, <1>5, <1>6

(* An iteration that starts is one that was ahead.                         *)
LEMMA AheadOrTaken ==
  ASSUME FirstLayer, IInv, pass = 1, NEW t \in Thread, Insert(t), NEW v \in Node,
         Ahead(v)
  PROVE  Ahead(v)' \/ (cur'[t] = v /\ pc'[t] = "search")
<1>1. TypeOK /\ This.hold
  BY FirstLoop DEF IInv
<1>2. PICK i \in DOMAIN This.order : i >= next /\ This.order[i] = v
  BY DEF Ahead
<1>3. CASE Claim(t) \/ Skip(t)
  <2>1. next' = next + 1 /\ pass' = pass /\ Take(t)
    BY <1>3 DEF Claim, Skip, Take
  <2>2. CASE i # next
    <3>1. DOMAIN This.order \in SUBSET Nat /\ next \in Nat
      <4>1. This.order \in Seq(Node)
        BY <1>1, <2>1, TakenIsNode
      <4> QED BY <1>1, <4>1 DEF TypeOK
    <3>2. i >= next + 1
      BY <1>2, <2>2, <3>1
    <3> QED BY <1>2, <2>1, <3>2 DEF Ahead, This
  <2>3. CASE i = next
    <3>1. Locked(v) # Degree
      BY FirstLoop, LayerAssumption
    <3>2. Claim(t)
      BY <1>2, <1>3, <2>3, <3>1 DEF Skip
    <3> QED BY <1>1, <1>2, <2>3, <3>2 DEF Claim, TypeOK
  <2> QED BY <2>2, <2>3
<1>4. CASE ~(Claim(t) \/ Skip(t))
  <2>1. next' = next /\ pass' = pass
    BY <1>4 DEF Insert, Enter, Expand, BeginPrune, EndPrune, Rewrite, TakeOwn,
                Pick, Leave, LinkKnown, LinkBack, Full, BeginOffer, EndOffer
  <2> QED BY <1>2, <2>1 DEF Ahead, This
<1> QED BY <1>3, <1>4

LEMMA AwaitedStep ==
  ASSUME FirstLayer, IInv, Guarded, LinkInv, pass = 1, NEW t \in Thread, Insert(t),
         NEW v \in Node
  PROVE  Awaited(v)'
<1>1. /\ TypeOK /\ ThreadOK(t) /\ Holding(t) /\ Started(t) /\ OnlyEntry(t) /\ Awaited(v)
      /\ [Next]_vars /\ Entry[v] \in Node
  BY LayerAssumption DEF IInv, Threads, LinkInv, Next
<1>2. SUFFICES ASSUME v # Entry[v] PROVE Awaited(v)'
  BY DEF Awaited
<1>3. \A u \in Thread \ {t} : pc'[u] = pc[u] /\ cur'[u] = cur[u]
  BY OthersAsBefore DEF Others
<1>4. ASSUME adj'[v] = <<>>
      PROVE  Ahead(v)' \/ \E u \in Thread : cur'[u] = v /\ pc'[u] \in {"search", "prune"}
  <2>1. adj[v] = <<>>
    BY <1>1, <1>4, EmptyBefore
  <2>2. CASE Ahead(v)
    BY <2>2, AheadOrTaken
  <2>3. CASE \E u \in Thread \ {t} : cur[u] = v /\ pc[u] \in {"search", "prune"}
    BY <1>3, <2>3
  <2>4. CASE cur[t] = v /\ pc[t] \in {"search", "prune"}
    <3>1. ~EndPrune(t)
      <4>1. SUFFICES ASSUME EndPrune(t) PROVE FALSE
        OBVIOUS
      <4>2. pc[t] = "prune" /\ adj' = [adj EXCEPT ![v] = fill[t]]
        BY <2>4, <4>1 DEF EndPrune, Install
      <4>3. fill[t] # <<>> /\ adj'[v] = fill[t]
        BY <1>1, <1>2, <2>4, <4>2 DEF Holding, AtLink, Started, TypeOK
      <4> QED BY <1>4, <4>3
    <3>2. (Expand(t) \/ BeginPrune(t))
      BY <2>4, <3>1 DEF Insert, Claim, Skip, Take, Enter, TakeOwn, Pick, Leave,
                        LinkKnown, LinkBack, Full, BeginOffer, EndOffer
    <3>3. cur' = cur /\ (pc' = pc \/ pc' = [pc EXCEPT ![t] = "prune"])
      BY <3>2 DEF Expand, BeginPrune, Rewrite
    <3>4. cur'[t] = v /\ pc'[t] \in {"search", "prune"}
      BY <1>1, <2>4, <3>3 DEF TypeOK
    <3> QED BY <3>4
  <2> QED BY <1>1, <1>2, <2>1, <2>2, <2>3, <2>4 DEF Awaited
<1>5. ASSUME Alone(v)'
      PROVE  Ahead(v)' \/ \E u \in Thread : cur'[u] = v /\ pc'[u] # "idle"
  <2>1. Alone(v)
    BY <1>1, <1>5, EmptyBefore DEF Alone
  <2>2. CASE Ahead(v)
    BY <2>2, AheadOrTaken
  <2>3. CASE \E u \in Thread \ {t} : cur[u] = v /\ Busy(u)
    BY <1>3, <2>3 DEF Busy
  <2>4. CASE cur[t] = v /\ Busy(t) /\ ~Leave(t)
    <3>1. cur'[t] = v /\ pc'[t] # "idle"
      BY <1>1, <2>4 DEF Insert, Claim, Skip, Take, Enter, Expand, BeginPrune, EndPrune,
                        Install, Rewrite, TakeOwn, Pick, LinkKnown, LinkBack, Full,
                        BeginOffer, EndOffer, NextLink, Busy, TypeOK
    <3> QED BY <3>1
  <2>5. CASE cur[t] = v /\ Leave(t)
    <3>1. pc[t] = "pick" /\ \E size \in Sizes(v) : index[t] > size
      BY <2>5 DEF Leave, PastEnd
    <3>2. index[t] = 1 /\ lock[v] = t
      BY <1>1, <2>1, <2>5, <3>1 DEF OnlyEntry, Busy, Holding, AtLink, Started
    <3>3. Sizes(v) = {Len(adj[v])}
      BY <3>1, <3>2, NoWriter DEF Writing
    <3>4. 1 > Len(adj[v]) /\ adj[v] \in Seq(Node)
      BY <1>1, <3>1, <3>2, <3>3 DEF TypeOK
    <3>5. adj[v] = <<>>
      BY <3>4
    <3>6. Ahead(v) \/ \E u \in Thread : cur[u] = v /\ pc[u] \in {"search", "prune"}
      BY <1>1, <1>2, <3>5 DEF Awaited
    <3>7. Ahead(v) \/ \E u \in Thread \ {t} : cur[u] = v /\ Busy(u)
      BY <3>1, <3>6 DEF Busy
    <3> QED BY <2>2, <2>3, <3>7
  <2> QED BY <1>1, <1>2, <2>1, <2>2, <2>3, <2>4, <2>5 DEF Awaited
<1> QED BY <1>4, <1>5 DEF Awaited, Busy

-----------------------------------------------------------------------------
LEMMA InitLinkInv == FirstLayer /\ Init => LinkInv
<1> SUFFICES ASSUME FirstLayer, Init PROVE LinkInv
  OBVIOUS
<1>1. \A v \in Node : adj[v] = <<>> /\ Lone(v)
  BY DEF Init, FirstLayer, Lone, Elems
<1>2. \A t \in Thread : Holding(t) /\ Started(t) /\ OnlyEntry(t)
  BY DEF Init, Holding, AtLink, Started, OnlyEntry, Busy
<1>3. \A v \in Node : Awaited(v)
  <2>1. TAKE v \in Node
  <2>2. PICK i \in DOMAIN Passes[1].order : Passes[1].order[i] = v
    BY DEF FirstLayer, Elems
  <2>3. i >= 1
    <3> DEFINE Pass == [order : Seq(Node), hold : BOOLEAN,
                        blocks : SUBSET (Node \X Node \X Node \X Nat)]
    <3>1. Passes \in Seq(Pass) /\ Passes # <<>>
      BY LayerAssumption DEF FirstLayer
    <3>2. Passes[1] \in Pass
      <4> HIDE DEF Pass
      <4> QED BY <3>1
    <3>3. Passes[1].order \in Seq(Node)
      BY <3>2
    <3> QED BY <3>3
  <2>4. Ahead(v)
    BY <2>2, <2>3 DEF Init, Ahead, This
  <2> QED BY <2>4 DEF Awaited
<1> QED BY <1>1, <1>2, <1>3 DEF Init, LinkInv

LEMMA LinkedStays ==
  ASSUME IInv, Guarded, [Next]_vars, AllLinked
  PROVE  AllLinked'
<1>1. \A v \in Node : adj'[v] = <<>> => adj[v] = <<>>
  BY EmptyBefore
<1>2. \A v \in Node : Entry[v] \in Node
  BY LayerAssumption
<1> QED BY <1>1, <1>2 DEF AllLinked, Alone

LEMMA NextLinkInv ==
  ASSUME FirstLayer, IInv, Guarded, LinkInv, [Next]_vars
  PROVE  LinkInv'
<1>1. TypeOK
  BY DEF IInv
<1>2. CASE \E t \in Thread : Insert(t)
  <2>1. PICK t \in Thread : Insert(t)
    BY <1>2
  <2>2. pass' = pass
    BY <2>1 DEF Insert, Claim, Skip, Take, Enter, Expand, BeginPrune, EndPrune, Rewrite,
                TakeOwn, Pick, Leave, LinkKnown, LinkBack, Full, BeginOffer, EndOffer
  <2>3. CASE pass = 1
    <3>1. This.hold /\ \A u \in Thread : Holding(u)
      BY <2>3, FirstLoop DEF LinkInv
    <3>2. Holding(t)' /\ Started(t)' /\ OnlyEntry(t)'
      BY <2>1, <2>3, <3>1, HoldingStep, SearchOwn, PruneOwn, LinkOwn DEF Insert
    <3>3. \A u \in Thread \ {t} : Holding(u)' /\ Started(u)' /\ OnlyEntry(u)'
      BY <2>1, <2>3, <3>1, HoldingOthers, OthersLink
    <3>4. \A v \in Node : Lone(v)' /\ Awaited(v)'
      BY <2>1, <2>3, LoneStep, AwaitedStep
    <3>5. /\ (\A u \in Thread : Holding(u) /\ Started(u) /\ OnlyEntry(u))'
          /\ (\A v \in Node : Lone(v) /\ Awaited(v))'
      BY <3>2, <3>3, <3>4
    <3> QED BY <2>2, <2>3, <3>5 DEF LinkInv
  <2>4. CASE pass # 1
    BY <2>2, <2>4, LinkedStays DEF LinkInv
  <2> QED BY <2>3, <2>4
<1>3. CASE NextPass
  <2>1. /\ pass' = pass + 1 /\ adj' = adj /\ next > Len(This.order)
        /\ \A t \in Thread : pc[t] = "idle"
    BY <1>3 DEF NextPass
  <2>2. pass' # 1
    BY <1>1, <2>1, LayerAssumption DEF TypeOK
  <2>3. CASE pass = 1
    <3>1. \A v \in Node : ~Ahead(v)
      <4>1. This.order \in Seq(Node)
        BY <2>3, FirstLoop, OrderType
      <4> QED BY <1>1, <2>1, <4>1 DEF Ahead, TypeOK
    <3>2. AllLinked
      BY <2>1, <2>3, <3>1 DEF LinkInv, Awaited, AllLinked, Busy
    <3> QED BY <2>1, <2>2, <3>2 DEF LinkInv, AllLinked, Alone
  <2>4. CASE pass # 1
    BY <2>2, <2>4, LinkedStays DEF LinkInv
  <2> QED BY <2>3, <2>4
<1>4. CASE UNCHANGED vars
  <2>1. UNCHANGED <<adj, lock, pass, next, pc, cur, result, cand, index, target, fill>>
    BY <1>4 DEF vars
  <2>2. \A t \in Thread : Holding(t) /\ Started(t) /\ OnlyEntry(t) =>
                            Holding(t)' /\ Started(t)' /\ OnlyEntry(t)'
    BY <2>1 DEF Holding, AtLink, Started, OnlyEntry, Busy, Alone
  <2>3. \A v \in Node : Lone(v) /\ Awaited(v) => Lone(v)' /\ Awaited(v)'
    BY <2>1 DEF Lone, Awaited, Ahead, Alone, Busy, This
  <2>4. CASE pass = 1
    <3>1. /\ (\A t \in Thread : Holding(t) /\ Started(t) /\ OnlyEntry(t))'
          /\ (\A v \in Node : Lone(v) /\ Awaited(v))'
      BY <2>2, <2>3, <2>4 DEF LinkInv
    <3> QED BY <2>1, <2>4, <3>1 DEF LinkInv
  <2>5. CASE pass # 1
    BY <2>1, <2>5, LinkedStays DEF LinkInv
  <2> QED BY <2>4, <2>5
<1> QED BY <1>2, <1>3, <1>4 DEF Next, Terminated

(* However the insertions of the first layer interleave, a vertex that has *)
(* company in its component has a neighbour when the layer is built: its   *)
(* search finds the entry vertex, which takes it in while it has nobody.   *)
THEOREM EveryVertexLinkedCorrect == FirstLayer => (Spec => []EveryVertexLinked)
<1> SUFFICES ASSUME FirstLayer PROVE Spec => []EveryVertexLinked
  OBVIOUS
<1>1. LinkInv => EveryVertexLinked
  <2> SUFFICES ASSUME LinkInv, Done, NEW v \in Node, NEW u \in Node \ {v},
                      SameComponent(u, v)
               PROVE  adj[v] # <<>>
    BY DEF EveryVertexLinked
  <2>1. AllLinked
    BY FirstLoop DEF Done, LinkInv
  <2>2. CASE v # Entry[v]
    BY <2>1, <2>2 DEF AllLinked
  <2>3. CASE v = Entry[v]
    BY <2>1, <2>3 DEF AllLinked, Alone, SameComponent
  <2> QED BY <2>2, <2>3
<1>2. IInv /\ Guarded /\ LinkInv /\ [Next]_vars => LinkInv'
  BY NextLinkInv
<1>3. Init => LinkInv
  BY InitLinkInv
<1> QED BY <1>1, <1>2, <1>3, InitGuarded, InitIInv, NextIInv, NextGuarded, PTL DEF Spec

-----------------------------------------------------------------------------
(* Links that do not point back are those of a thread that has still to    *)
(* make them, or lead to a full list.                                      *)
Back(v, u) == v \in Elems(adj[u]) \/ Len(adj[u]) = Degree

ToLink(t, v, u) ==
  /\ cur[t] = v
  /\ \/ pc[t] = "own"
     \/ AtLink(t) /\ \E k \in DOMAIN adj[v] : k >= index[t] /\ adj[v][k] = u

Answered(v, u) == Back(v, u) \/ \E t \in Thread : ToLink(t, v, u)

(* While a thread links, nobody changes the list it reads; while it        *)
(* rewrites a list, nobody changes that one.                               *)
AtTarget(t) ==
  /\ Linking(t) =>
       index[t] \in DOMAIN adj[cur[t]] /\ target[t] = adj[cur[t]][index[t]]
  /\ pc[t] \in {"offer", "offering"} => Len(adj[target[t]]) = Degree
  /\ Writing(t) =>
       \A x \in Elems(adj[Site(t)]) : x \in Elems(fill[t]) \/ Len(fill[t]) = Degree
  /\ pc[t] = "offering" => Elems(fill[t]) \subseteq Elems(adj[target[t]]) \cup {cur[t]}

MutualInv ==
  /\ \A t \in Thread : Holding(t) /\ AtTarget(t)
  /\ \A v \in Node : \A u \in Elems(adj[v]) : Answered(v, u)

LEMMA LoopHolds ==
  ASSUME HeldLoops, IInv, NEW t \in Thread, Insert(t)
  PROVE  This.hold
<1>1. pass \in 1 .. Len(Passes)
  <2>1. ThreadOK(t) /\ pass \in Nat \ {0} /\ Len(Passes) \in Nat
    BY LayerAssumption DEF IInv, Threads, TypeOK
  <2>2. pass <= Len(Passes)
    BY <2>1 DEF ThreadOK, Busy, Insert, Claim, Skip, Take, Done, Enter, Expand, BeginPrune,
                EndPrune, TakeOwn, Pick, Leave, LinkKnown, LinkBack, Full, BeginOffer,
                EndOffer
  <2> QED BY <2>1, <2>2
<1>2. pass \in DOMAIN Passes
  BY <1>1, LayerAssumption
<1> QED BY <1>2 DEF HeldLoops, This

(* A list whose mutex another thread holds stays, and a full one stays so. *)
LEMMA ListStaysPut ==
  ASSUME IInv, Guarded, NEW t \in Thread, Insert(t), NEW v \in Node,
         lock[v] \in Thread \ {t}
  PROVE  adj'[v] = adj[v]
<1>1. TypeOK /\ NoThread \notin Thread
  BY LayerAssumption DEF IInv
<1>2. CASE EndPrune(t) \/ EndOffer(t)
  <2>1. Writing(t) /\ adj' = [adj EXCEPT ![Site(t)] = fill[t]]
    BY <1>2 DEF EndPrune, EndOffer, Install, Writing, Site
  <2>2. lock[Site(t)] = t
    BY <2>1 DEF Guarded
  <2> QED BY <1>1, <2>1, <2>2 DEF TypeOK
<1>3. CASE LinkBack(t)
  BY <1>1, <1>3 DEF LinkBack, Free, TypeOK
<1>4. CASE ~(EndPrune(t) \/ EndOffer(t) \/ LinkBack(t))
  BY <1>4 DEF Insert, Claim, Skip, Take, Enter, Expand, BeginPrune, Rewrite, TakeOwn,
              Pick, Leave, LinkKnown, Full, BeginOffer
<1> QED BY <1>2, <1>3, <1>4

LEMMA FullStays ==
  ASSUME IInv, IInv', Guarded, [Next]_vars, NEW v \in Node, Len(adj[v]) = Degree
  PROVE  Len(adj'[v]) = Degree
<1>1. Len(adj'[v]) >= Degree /\ Len(adj'[v]) <= Degree /\ adj'[v] \in Seq(Node)
  BY NeverShorter DEF IInv, Lists, IsList
<1> QED BY <1>1, LayerAssumption

LEMMA OthersAtTarget ==
  ASSUME IInv, IInv', Guarded, NEW t \in Thread, Insert(t), NEW u \in Thread \ {t},
         Holding(u), AtTarget(u)
  PROVE  AtTarget(u)'
<1>1. /\ pc'[u] = pc[u] /\ cur'[u] = cur[u] /\ target'[u] = target[u]
      /\ fill'[u] = fill[u] /\ index'[u] = index[u] /\ ThreadOK(u) /\ [Next]_vars
  BY OthersAsBefore DEF Others, IInv, Threads, Next
<1>2. Linking(u) => adj'[cur[u]] = adj[cur[u]]
  <2>1. SUFFICES ASSUME Linking(u) PROVE adj'[cur[u]] = adj[cur[u]]
    OBVIOUS
  <2>2. cur[u] \in Node /\ lock[cur[u]] = u
    BY <1>1, <2>1 DEF ThreadOK, Busy, Linking, AtLink, Holding
  <2> QED BY <2>2, ListStaysPut
<1>3. Writing(u) => adj'[Site(u)] = adj[Site(u)]
  <2>1. SUFFICES ASSUME Writing(u) PROVE adj'[Site(u)] = adj[Site(u)]
    OBVIOUS
  <2>2. Site(u) \in Node /\ lock[Site(u)] = u
    BY <2>1, WriterSite DEF Guarded
  <2> QED BY <2>2, ListStaysPut
<1>4. pc[u] \in {"offer", "offering"} => Len(adj'[target[u]]) = Degree
  <2>1. SUFFICES ASSUME pc[u] \in {"offer", "offering"} PROVE Len(adj'[target[u]]) = Degree
    OBVIOUS
  <2>2. target[u] \in Node /\ Len(adj[target[u]]) = Degree
    BY <1>1, <2>1 DEF ThreadOK, Linking, Companion, AtTarget
  <2> QED BY <1>1, <2>2, FullStays
<1>5. Site(u)' = Site(u)
  BY <1>1 DEF Site
<1>6. pc[u] = "offering" => Site(u) = target[u]
  BY DEF Site
<1> QED BY <1>1, <1>2, <1>3, <1>4, <1>5, <1>6 DEF AtTarget, Linking, Writing

-----------------------------------------------------------------------------
LEMMA OwnAtTarget ==
  ASSUME IInv, IInv', Guarded, NEW t \in Thread, Insert(t), This.hold,
         Holding(t), AtTarget(t)
  PROVE  AtTarget(t)'
<1>1. TypeOK /\ ThreadOK(t) /\ Lists /\ [Next]_vars
  BY DEF IInv, Threads, Next
<1>2. CASE \/ Claim(t) \/ Skip(t) \/ Enter(t) \/ Expand(t) \/ EndPrune(t) \/ TakeOwn(t)
           \/ Leave(t) \/ LinkKnown(t) \/ LinkBack(t) \/ EndOffer(t)
  <2>1. pc'[t] \in {"idle", "enter", "search", "own", "pick"}
    BY <1>1, <1>2 DEF Claim, Skip, Take, Enter, Expand, EndPrune, TakeOwn, Leave,
                      LinkKnown, LinkBack, EndOffer, NextLink, TypeOK
  <2> QED BY <2>1 DEF AtTarget, Linking, Writing
<1>3. CASE Pick(t)
  <2>1. PICK u \in Slots(cur[t], index[t]) : target' = [target EXCEPT ![t] = u]
    BY <1>3 DEF Pick
  <2>2. /\ pc[t] = "pick" /\ pc' = [pc EXCEPT ![t] = "link"]
        /\ UNCHANGED <<adj, cur, index>>
    BY <1>3 DEF Pick
  <2>3. pc'[t] = "link" /\ target'[t] = u
    BY <1>1, <2>1, <2>2 DEF TypeOK
  <2>4. lock[cur[t]] = t /\ cur[t] \in Node /\ index[t] \in Nat \ {0}
    BY <1>1, <2>2 DEF Holding, AtLink, ThreadOK, Busy, TypeOK
  <2>5. Writers(cur[t]) = {}
    BY <2>2, <2>4, NoWriter DEF Writing
  <2>6. u = adj[cur[t]][index[t]] /\ index[t] <= Len(adj[cur[t]])
    BY <2>1, <2>5 DEF Slots
  <2>7. index[t] \in DOMAIN adj[cur[t]]
    BY <1>1, <2>4, <2>6 DEF TypeOK
  <2> QED BY <2>2, <2>3, <2>6, <2>7 DEF AtTarget, Linking, Writing
<1>4. CASE Full(t)
  <2>1. /\ pc[t] = "link" /\ pc' = [pc EXCEPT ![t] = "offer"]
        /\ ~(Len(adj[target[t]]) < Degree)
        /\ UNCHANGED <<adj, cur, target, index>>
    BY <1>4 DEF Full, HasRoom
  <2>2. pc'[t] = "offer"
    BY <1>1, <2>1 DEF TypeOK
  <2>3. Len(adj[target[t]]) <= Degree /\ adj[target[t]] \in Seq(Node)
    BY <1>1, <2>1 DEF ThreadOK, Linking, Companion, Lists, IsList
  <2>4. Len(adj[target[t]]) = Degree
    BY <2>1, <2>3, LayerAssumption
  <2> QED BY <1>1, <2>1, <2>2, <2>4 DEF AtTarget, Linking, Writing
<1>5. CASE BeginPrune(t) \/ BeginOffer(t)
  <2>1. PICK v \in Node, d \in Distances, cands \in SUBSET Node,
             at \in {"prune", "offering"} :
          /\ Rewrite(t, v, d, cands, at)
          /\ pc[t] = IF at = "prune" THEN "search" ELSE "offer"
          /\ v = IF at = "prune" THEN cur[t] ELSE target[t]
          /\ at = "offering" => cands = {cur[t]}
          /\ \A c \in cands : Kin(pass, v, c)
    <3>1. CASE BeginPrune(t)
      <4>1. pc[t] = "search" /\ Rewrite(t, cur[t], Dist[cur[t]], cand[t], "prune")
        BY <3>1 DEF BeginPrune
      <4>2. cur[t] \in Node /\ cand[t] \in SUBSET Node
            /\ \A c \in cand[t] : Kin(pass, cur[t], c)
        BY <1>1, <4>1 DEF ThreadOK, Busy, TypeOK
      <4> QED BY <4>1, <4>2, InDistances
    <3>2. CASE BeginOffer(t)
      <4>1. pc[t] = "offer" /\ Rewrite(t, target[t], Offered(target[t], cur[t], adj[target[t]]),
                                       {cur[t]}, "offering")
        BY <3>2 DEF BeginOffer
      <4>2. /\ cur[t] \in Node /\ target[t] \in Node
            /\ Kin(pass, target[t], cur[t])
        BY <1>1, <4>1, KinProperties DEF ThreadOK, Busy, Linking, Companion
      <4> QED BY <4>1, <4>2, InDistances
    <3> QED BY <1>5, <3>1, <3>2
  <2>2. PICK s \in Pruned(v, d, adj[v], cands, This.blocks) : fill' = [fill EXCEPT ![t] = s]
    BY <2>1 DEF Rewrite
  <2>3. /\ pc' = [pc EXCEPT ![t] = at] /\ UNCHANGED <<adj, cur, target, index>>
    BY <2>1 DEF Rewrite
  <2>4. fill'[t] = s /\ pc'[t] = at /\ Site(t)' = v
    BY <1>1, <2>1, <2>2, <2>3 DEF TypeOK, Site
  <2>5. IsList(pass, v, adj[v])
    BY <1>1 DEF Lists
  <2>6. IsList(pass, v, s)
    BY <2>1, <2>2, <2>5, PrunedIsList
  <2>7. adj[v] \in Seq(Node) /\ Locked(v) <= Len(adj[v]) /\ v \notin Elems(adj[v])
    BY <2>5 DEF IsList, Extends, IsWellFormed, Elems
  <2>8. /\ Elems(s) \subseteq cands \cup Elems(adj[v])
        /\ \A x \in Elems(adj[v]) \ {v} : x \in Elems(s) \/ Len(s) >= Degree
    BY <2>2, <2>7, PrunedKeeps
  <2>9. Len(s) <= Degree /\ s \in Seq(Node)
    BY <2>6 DEF IsList
  <2>10. \A x \in Elems(adj[v]) : x \in Elems(s) \/ Len(s) = Degree
    <3>1. Len(s) >= Degree => Len(s) = Degree
      BY <2>9, LayerAssumption
    <3> QED BY <2>7, <2>8, <3>1
  <2>11. CASE at = "prune"
    BY <2>3, <2>4, <2>10, <2>11 DEF AtTarget, Linking
  <2>12. CASE at = "offering"
    BY <1>1, <2>1, <2>3, <2>4, <2>8, <2>10, <2>12 DEF AtTarget, Linking
  <2> QED BY <2>11, <2>12
<1> QED BY <1>2, <1>3, <1>4, <1>5 DEF Insert

-----------------------------------------------------------------------------
(* The links of a thread that is not linking yet, or not any more.         *)
LEMMA OthersToLink ==
  ASSUME IInv, Guarded, NEW t \in Thread, Insert(t), NEW s \in Thread \ {t},
         Holding(s), NEW v \in Node, NEW u, ToLink(s, v, u)
  PROVE  ToLink(s, v, u)'
<1>1. pc'[s] = pc[s] /\ cur'[s] = cur[s] /\ index'[s] = index[s]
  BY OthersAsBefore DEF Others
<1>2. AtLink(s) => adj'[v] = adj[v]
  <2>1. AtLink(s) => lock[v] = s
    BY DEF Holding, ToLink
  <2> QED BY <2>1, ListStaysPut
<1> QED BY <1>1, <1>2 DEF ToLink, AtLink

LEMMA BackStays ==
  ASSUME IInv, IInv', Guarded, MutualInv, NEW t \in Thread, Insert(t),
         NEW v \in Node, NEW u \in Node, Back(v, u)
  PROVE  Back(v, u)'
<1>1. /\ TypeOK /\ ThreadOK(t) /\ AtTarget(t) /\ [Next]_vars
  BY DEF IInv, Threads, MutualInv, Next
<1>2. CASE Len(adj[u]) = Degree
  BY <1>1, <1>2, FullStays DEF Back
<1>3. CASE v \in Elems(adj[u]) /\ (EndPrune(t) \/ EndOffer(t))
  <2>1. Writing(t) /\ adj' = [adj EXCEPT ![Site(t)] = fill[t]]
    BY <1>3 DEF EndPrune, EndOffer, Install, Writing, Site
  <2>2. CASE u = Site(t)
    BY <1>1, <1>3, <2>1, <2>2 DEF AtTarget, Back, TypeOK
  <2>3. CASE u # Site(t)
    BY <1>1, <1>3, <2>1, <2>3 DEF Back, TypeOK
  <2> QED BY <2>2, <2>3
<1>4. CASE v \in Elems(adj[u]) /\ LinkBack(t)
  <2>1. CASE u = target[t]
    <3>1. v \in Elems(Append(adj[u], cur[t]))
      <4>1. adj[u] \in Seq(Node)
        BY <1>1 DEF TypeOK
      <4>2. \A k \in DOMAIN adj[u] :
              /\ k \in DOMAIN Append(adj[u], cur[t])
              /\ Append(adj[u], cur[t])[k] = adj[u][k]
        BY <4>1
      <4> QED BY <1>4, <4>2 DEF Elems
    <3>2. adj'[u] = Append(adj[u], cur[t])
      BY <1>1, <1>4, <2>1 DEF LinkBack, TypeOK
    <3> QED BY <3>1, <3>2 DEF Back
  <2>2. CASE u # target[t]
    BY <1>1, <1>4, <2>2 DEF LinkBack, Back, TypeOK
  <2> QED BY <2>1, <2>2
<1>5. CASE v \in Elems(adj[u]) /\ ~(EndPrune(t) \/ EndOffer(t) \/ LinkBack(t))
  <2>1. adj' = adj
    BY <1>5 DEF Insert, Claim, Skip, Take, Enter, Expand, BeginPrune, Rewrite, TakeOwn,
                Pick, Leave, LinkKnown, Full, BeginOffer
  <2> QED BY <1>5, <2>1 DEF Back
<1> QED BY <1>2, <1>3, <1>4, <1>5 DEF Back

(* A link that was there before the step.                                  *)
LEMMA OldLinkStep ==
  ASSUME IInv, IInv', Guarded, MutualInv, NEW t \in Thread, Insert(t), This.hold,
         NEW v \in Node, NEW u \in Elems(adj[v])
  PROVE  Answered(v, u)'
<1>1. /\ TypeOK /\ ThreadOK(t) /\ AtTarget(t) /\ Holding(t) /\ [Next]_vars
      /\ Answered(v, u) /\ Lists
  BY DEF IInv, Threads, MutualInv, Next
<1>2. u \in Node
  BY <1>1 DEF TypeOK, Elems
<1>3. CASE Back(v, u)
  BY <1>2, <1>3, BackStays DEF Answered
<1>4. CASE \E s \in Thread \ {t} : ToLink(s, v, u)
  <2>1. PICK s \in Thread \ {t} : ToLink(s, v, u)
    BY <1>4
  <2>2. ToLink(s, v, u)'
    BY <2>1, OthersToLink DEF MutualInv
  <2>3. \E x \in Thread : ToLink(x, v, u)'
    BY <2>2
  <2> QED BY <2>3 DEF Answered
<1>5. CASE ToLink(t, v, u)
  <2>1. SUFFICES ToLink(t, v, u)' \/ Back(v, u)'
    BY DEF Answered
  <2>2. cur[t] = v /\ (pc[t] = "own" \/ AtLink(t))
    BY <1>5 DEF ToLink
  <2>3. CASE TakeOwn(t)
    <3>1. pc'[t] = "pick" /\ cur' = cur /\ adj' = adj /\ index' = index /\ index[t] = 1
      BY <1>1, <2>3 DEF TakeOwn, TypeOK, Holding
    <3>2. PICK k \in DOMAIN adj[v] : adj[v][k] = u
      BY DEF Elems
    <3>3. k >= 1
      BY <1>1 DEF TypeOK
    <3> QED BY <2>2, <3>1, <3>2, <3>3 DEF ToLink, AtLink
  <2>4. CASE Pick(t) \/ Full(t) \/ BeginOffer(t)
    <3>1. /\ pc'[t] \in {"link", "offer", "offering"} /\ UNCHANGED <<adj, cur, index>>
          /\ pc[t] # "own"
      BY <1>1, <2>4 DEF Pick, Full, BeginOffer, Rewrite, TypeOK
    <3> QED BY <1>5, <3>1 DEF ToLink, AtLink
  <2>5. CASE Leave(t)
    <3>1. PICK k \in DOMAIN adj[v] : k >= index[t]
      BY <1>5, <2>5 DEF Leave, ToLink
    <3>2. Sizes(v) = {Len(adj[v])}
      BY <1>1, <2>2, <2>5, NoWriter DEF Leave, Holding, AtLink, Writing
    <3>3. index[t] > Len(adj[v])
      BY <2>2, <2>5, <3>2 DEF Leave, PastEnd
    <3> QED BY <1>1, <3>1, <3>3 DEF TypeOK
  <2>6. CASE LinkKnown(t) \/ LinkBack(t) \/ EndOffer(t)
    <3>1. /\ Linking(t) /\ pc[t] # "own" /\ pc'[t] = "pick" /\ cur' = cur
          /\ index'[t] = index[t] + 1
      BY <1>1, <2>6 DEF LinkKnown, LinkBack, EndOffer, NextLink, Linking, TypeOK
    <3>2. /\ target[t] \in Node /\ target[t] # v
          /\ target[t] = adj[v][index[t]] /\ index[t] \in Nat \ {0}
      BY <1>1, <2>2, <3>1 DEF ThreadOK, Companion, AtTarget, TypeOK
    <3>3. adj'[v] = adj[v]
      BY <1>1, <2>6, <3>2 DEF LinkKnown, LinkBack, EndOffer, Install, TypeOK
    <3>4. PICK k \in DOMAIN adj[v] : k >= index[t] /\ adj[v][k] = u
      BY <1>5, <3>1 DEF ToLink
    <3>5. CASE k = index[t]
      <4>1. u = target[t]
        BY <3>2, <3>4, <3>5
      <4>2. CASE LinkKnown(t)
        <5>1. Back(v, u)
          BY <2>2, <4>1, <4>2 DEF LinkKnown, IsDuplicate, Back
        <5> QED BY <1>2, <5>1, BackStays
      <4>3. CASE LinkBack(t)
        <5>1. adj'[u] = Append(adj[u], v)
          BY <1>1, <1>2, <2>2, <4>1, <4>3 DEF LinkBack, TypeOK
        <5>2. adj[u] \in Seq(Node)
          BY <1>1, <1>2 DEF TypeOK
        <5>3. /\ Len(adj[u]) + 1 \in DOMAIN Append(adj[u], v)
              /\ Append(adj[u], v)[Len(adj[u]) + 1] = v
          BY <5>2
        <5> QED BY <5>1, <5>3 DEF Back, Elems
      <4>4. CASE EndOffer(t)
        <5>1. Len(adj[u]) = Degree
          BY <1>1, <4>1, <4>4 DEF EndOffer, AtTarget
        <5> QED BY <1>1, <1>2, <5>1, FullStays DEF Back
      <4> QED BY <2>6, <4>2, <4>3, <4>4
    <3>6. CASE k # index[t]
      <4>1. k >= index[t] + 1
        BY <1>1, <3>2, <3>4, <3>6 DEF TypeOK
      <4> QED BY <2>2, <3>1, <3>3, <3>4, <4>1 DEF ToLink, AtLink
    <3> QED BY <3>5, <3>6
  <2> QED BY <2>2, <2>3, <2>4, <2>5, <2>6
          DEF Insert, Claim, Skip, Take, Enter, Expand, BeginPrune, EndPrune, AtLink
<1> QED BY <1>1, <1>3, <1>4, <1>5 DEF Answered

(* A link that the step makes.                                             *)
LEMMA NewLinkStep ==
  ASSUME IInv, IInv', Guarded, MutualInv, NEW t \in Thread, Insert(t), This.hold,
         NEW v \in Node, NEW u \in Elems(adj'[v]), u \notin Elems(adj[v])
  PROVE  Answered(v, u)'
<1>1. /\ TypeOK /\ ThreadOK(t) /\ AtTarget(t) /\ Holding(t) /\ Lists
  BY DEF IInv, Threads, MutualInv
<1>2. CASE EndPrune(t)
  <2>1. /\ adj' = [adj EXCEPT ![cur[t]] = fill[t]] /\ pc'[t] = "own" /\ cur' = cur
    BY <1>1, <1>2 DEF EndPrune, Install, TypeOK
  <2>2. v = cur[t]
    BY <1>1, <2>1 DEF TypeOK
  <2>3. ToLink(t, v, u)'
    BY <2>1, <2>2 DEF ToLink
  <2>4. \E x \in Thread : ToLink(x, v, u)'
    BY <2>3
  <2> QED BY <2>4 DEF Answered
<1>3. CASE LinkBack(t) \/ EndOffer(t)
  <2>1. Linking(t) /\ AtLink(t)
    BY <1>3 DEF LinkBack, EndOffer, Linking, AtLink
  <2>2. /\ target[t] \in Node /\ target[t] # cur[t] /\ cur[t] \in Node
        /\ index[t] \in DOMAIN adj[cur[t]] /\ target[t] = adj[cur[t]][index[t]]
    BY <1>1, <2>1 DEF ThreadOK, Busy, Linking, Companion, AtTarget
  <2>3. adj'[cur[t]] = adj[cur[t]]
    BY <1>1, <1>3, <2>2 DEF LinkBack, EndOffer, Install, TypeOK
  <2>4. v = target[t]
    BY <1>1, <1>3 DEF LinkBack, EndOffer, Install, TypeOK
  <2>5. u = cur[t]
    <3>1. CASE LinkBack(t)
      <4>1. adj'[v] = Append(adj[v], cur[t]) /\ adj[v] \in Seq(Node)
        BY <1>1, <2>4, <3>1 DEF LinkBack, TypeOK
      <4>2. \A k \in DOMAIN Append(adj[v], cur[t]) :
              \/ k \in DOMAIN adj[v] /\ Append(adj[v], cur[t])[k] = adj[v][k]
              \/ Append(adj[v], cur[t])[k] = cur[t]
        BY <2>2, <4>1
      <4>3. PICK k \in DOMAIN adj'[v] : adj'[v][k] = u
        BY DEF Elems
      <4> QED BY <4>1, <4>2, <4>3 DEF Elems
    <3>2. CASE EndOffer(t)
      <4>1. adj'[v] = fill[t]
        BY <1>1, <2>4, <3>2 DEF EndOffer, Install, TypeOK
      <4> QED BY <1>1, <2>4, <3>2, <4>1 DEF EndOffer, AtTarget
    <3> QED BY <1>3, <3>1, <3>2
  <2>6. v \in Elems(adj'[u])
    BY <2>2, <2>3, <2>4, <2>5 DEF Elems
  <2> QED BY <2>6 DEF Answered, Back
<1>4. CASE ~(EndPrune(t) \/ EndOffer(t) \/ LinkBack(t))
  <2>1. adj' = adj
    BY <1>4 DEF Insert, Claim, Skip, Take, Enter, Expand, BeginPrune, Rewrite, TakeOwn,
                Pick, Leave, LinkKnown, Full, BeginOffer
  <2> QED BY <2>1
<1> QED BY <1>2, <1>3, <1>4

LEMMA NextMutualInv ==
  ASSUME HeldLoops, IInv, IInv', Guarded, MutualInv, [Next]_vars
  PROVE  MutualInv'
<1>1. CASE \E t \in Thread : Insert(t)
  <2>1. PICK t \in Thread : Insert(t)
    BY <1>1
  <2>2. This.hold
    BY <2>1, LoopHolds
  <2>3. Holding(t)' /\ AtTarget(t)'
    BY <2>1, <2>2, HoldingStep, OwnAtTarget DEF MutualInv
  <2>4. \A u \in Thread \ {t} : Holding(u)' /\ AtTarget(u)'
    BY <2>1, HoldingOthers, OthersAtTarget DEF MutualInv
  <2>5. ASSUME NEW v \in Node, NEW u \in Elems(adj'[v]) PROVE Answered(v, u)'
    BY <2>1, <2>2, <2>5, OldLinkStep, NewLinkStep
  <2>6. /\ (\A u \in Thread : Holding(u) /\ AtTarget(u))'
        /\ (\A v \in Node : \A u \in Elems(adj[v]) : Answered(v, u))'
    BY <2>3, <2>4, <2>5
  <2> QED BY <2>6 DEF MutualInv
<1>2. CASE NextPass \/ UNCHANGED vars
  <2>1. UNCHANGED <<adj, lock, pc, cur, index, target, fill>>
    BY <1>2 DEF NextPass, vars
  <2>2. \A t \in Thread : Holding(t) /\ AtTarget(t) => Holding(t)' /\ AtTarget(t)'
    BY <2>1 DEF Holding, AtLink, AtTarget, Linking, Writing, Site
  <2>3. \A v \in Node, u \in Node : Answered(v, u) => Answered(v, u)'
    BY <2>1 DEF Answered, Back, ToLink, AtLink
  <2>4. \A v \in Node : Elems(adj[v]) \in SUBSET Node /\ adj'[v] = adj[v]
    BY <2>1 DEF IInv, TypeOK, Elems
  <2>5. /\ (\A u \in Thread : Holding(u) /\ AtTarget(u))'
        /\ (\A v \in Node : \A u \in Elems(adj[v]) : Answered(v, u))'
    BY <2>2, <2>3, <2>4 DEF MutualInv
  <2> QED BY <2>5 DEF MutualInv
<1> QED BY <1>1, <1>2 DEF Next, Terminated

(* While every loop keeps the mutex of the vertex it links, no link is     *)
(* forgotten, however the insertions interleave: what Make_Edge leaves     *)
(* without an answer leads to a full list, and full lists stay full.       *)
THEOREM ReciprocalCorrect == HeldLoops => (Spec => []ReciprocalUnlessFull)
<1> SUFFICES ASSUME HeldLoops PROVE Spec => []ReciprocalUnlessFull
  OBVIOUS
<1>1. Init => MutualInv
  <2> SUFFICES ASSUME Init PROVE MutualInv
    OBVIOUS
  <2>1. \A t \in Thread : Holding(t) /\ AtTarget(t)
    BY DEF Init, Holding, AtLink, AtTarget, Linking, Writing
  <2>2. \A v \in Node : \A u \in Elems(adj[v]) : Answered(v, u)
    BY DEF Init, HeldLoops, Answered, Back
  <2> QED BY <2>1, <2>2 DEF MutualInv
<1>2. IInv /\ IInv' /\ Guarded /\ MutualInv /\ [Next]_vars => MutualInv'
  BY NextMutualInv
<1>3. IInv /\ MutualInv => ReciprocalUnlessFull
  <2> SUFFICES ASSUME IInv, MutualInv, Done, NEW v \in Node, NEW u \in Elems(adj[v])
               PROVE  Back(v, u)
    BY DEF ReciprocalUnlessFull, Back
  <2>1. \A t \in Thread : ~Busy(t)
    <3>1. pass \in Nat /\ Len(Passes) \in Nat
      BY LayerAssumption DEF IInv, TypeOK
    <3> QED BY <3>1 DEF IInv, Threads, ThreadOK, Done
  <2> QED BY <2>1 DEF MutualInv, Answered, ToLink, AtLink, Busy
<1> QED BY <1>1, <1>2, <1>3, InitGuarded, InitIInv, NextIInv, NextGuarded, PTL DEF Spec

-----------------------------------------------------------------------------
(* In the first loop of the first layer every vertex is inserted once.  A  *)
(* vertex is fresh until its thread takes its own mutex to link, and       *)
(* untouched until its list is written; from then on nobody has met it.    *)
Comes(v, at) == Ahead(v) \/ \E t \in Thread : cur[t] = v /\ pc[t] \in at
Fresh(v) == v # Entry[v] /\ Comes(v, {"search", "prune", "own"})
Untouched(v) == v # Entry[v] /\ Comes(v, {"search", "prune"})
Settled(v) == ~Ahead(v) /\ \A t \in Thread : Busy(t) => cur[t] # v
Passive(v) == v = Entry[v] \/ Settled(v)

Once(t) ==
  Busy(t) =>
    /\ \E i \in DOMAIN This.order : i < next /\ This.order[i] = cur[t]
    /\ \A s \in Thread : Busy(s) /\ cur[s] = cur[t] => s = t

Unseen(v) ==
  /\ Fresh(v) => \A x \in Node : v \notin Elems(adj[x])
  /\ Untouched(v) => adj[v] = <<>>

(* What a search expands, and so what it links to, is passive: its mutex   *)
(* is kept by no thread that links, unless it is the entry vertex.         *)
SeesPassive(t) ==
  /\ pc[t] = "search" =>
       (\A u \in result[t] : ~Fresh(u)) /\ \A u \in cand[t] : Passive(u)
  /\ pc[t] = "prune" =>
       \A u \in Elems(fill[t]) : u \in Elems(adj[cur[t]]) \/ Passive(u)

(* Nor is it the entry vertex if that one may link to the vertex itself.   *)
LinksPassive(t) ==
  cur[t] # Entry[cur[t]] =>
    /\ pc[t] = "own" \/ AtLink(t) =>
         \A k \in DOMAIN adj[cur[t]] : k >= index[t] => Passive(adj[cur[t]][k])
    /\ AtLink(t) =>
         \A e \in Node : e = Entry[e] /\ cur[t] \in Elems(adj[e]) =>
           \A k \in DOMAIN adj[cur[t]] : k >= index[t] => adj[cur[t]][k] # e

WaitInv ==
  FirstLayer /\ pass = 1 =>
    /\ \A t \in Thread : /\ Holding(t) /\ AtTarget(t)
                         /\ Once(t) /\ SeesPassive(t) /\ LinksPassive(t)
    /\ \A v \in Node : Unseen(v)

LEMMA EntryIsEntry == \A v \in Node : Entry[v] \in Node /\ Entry[Entry[v]] = Entry[v]
BY LayerAssumption

(* The order of the loop names no vertex twice.                            *)
LEMMA NamedOnce ==
  ASSUME FirstLayer, pass = 1
  PROVE  /\ This.order \in Seq(Node)
         /\ \A i, j \in DOMAIN This.order : This.order[i] = This.order[j] => i = j
<1>1. Passes # <<>> /\ Len(Passes) \in Nat /\ DOMAIN Passes = 1 .. Len(Passes)
  BY LayerAssumption DEF FirstLayer
<1>2. 1 <= Len(Passes)
  <2>1. Passes \in Seq([order : Seq(Node), hold : BOOLEAN,
                        blocks : SUBSET (Node \X Node \X Node \X Nat)])
    BY LayerAssumption
  <2> QED BY <1>1, <2>1
<1>3. This.order \in Seq(Node)
  BY <1>1, <1>2, OrderType
<1>4. 1 \in DOMAIN Passes
  BY <1>1, <1>2
<1> QED BY <1>3, <1>4, LayerAssumption DEF This

LEMMA NextOrSame ==
  ASSUME IInv, NEW t \in Thread, Insert(t)
  PROVE  /\ pass' = pass /\ next \in Nat
         /\ next' = next \/ next' = next + 1
<1>1. next \in Nat
  BY DEF IInv, TypeOK
<1> QED BY <1>1 DEF Insert, Claim, Skip, Take, Enter, Expand, BeginPrune, EndPrune, Rewrite,
           TakeOwn, Pick, Leave, LinkKnown, LinkBack, Full, BeginOffer, EndOffer

LEMMA AheadBefore ==
  ASSUME FirstLayer, IInv, pass = 1, NEW t \in Thread, Insert(t), NEW v, Ahead(v)'
  PROVE  Ahead(v)
<1>1. pass' = pass /\ next \in Nat /\ next' >= next /\ next' \in Nat
  BY NextOrSame
<1>2. PICK i \in DOMAIN This.order : i >= next' /\ This.order[i] = v
  BY <1>1 DEF Ahead, This
<1>3. i \in Nat
  BY NamedOnce
<1> QED BY <1>1, <1>2, <1>3 DEF Ahead

(* A thread that is busy with a vertex after the step was so before, or    *)
(* has just taken it.                                                      *)
LEMMA BusyBefore ==
  ASSUME FirstLayer, IInv, pass = 1, NEW t \in Thread, Insert(t),
         NEW s \in Thread, NEW v, cur'[s] = v, pc'[s] # "idle"
  PROVE  \/ cur[s] = v /\ Busy(s) /\ ~(s = t /\ Claim(t))
         \/ s = t /\ Claim(t) /\ v = This.order[next] /\ Ahead(v)
<1>1. TypeOK
  BY DEF IInv
<1>2. CASE s # t
  BY <1>2, OthersAsBefore DEF Others, Busy
<1>3. CASE s = t /\ Claim(t)
  <2>1. next \in DOMAIN This.order
    BY <1>1, <1>3, TakenIsNode DEF Claim
  <2>2. cur'[t] = This.order[next] /\ next \in Nat
    BY <1>1, <1>3 DEF Claim, TypeOK
  <2> QED BY <1>3, <2>1, <2>2 DEF Ahead
<1>4. CASE s = t /\ ~Claim(t)
  BY <1>1, <1>4 DEF Insert, Skip, Take, Enter, Expand, BeginPrune, EndPrune,
     Install, Rewrite, TakeOwn, Pick, Leave, LinkKnown, LinkBack, Full,
     BeginOffer, EndOffer, NextLink, Busy, TypeOK
<1> QED BY <1>2, <1>3, <1>4

LEMMA SettledStays ==
  ASSUME FirstLayer, IInv, pass = 1, NEW t \in Thread, Insert(t), NEW v, Settled(v)
  PROVE  Settled(v)'
<1>1. ~Ahead(v)'
  BY AheadBefore DEF Settled
<1>2. \A s \in Thread : pc'[s] # "idle" => cur'[s] # v
  BY BusyBefore DEF Settled
<1> QED BY <1>1, <1>2 DEF Settled, Busy

LEMMA PassiveStays ==
  ASSUME FirstLayer, IInv, pass = 1, NEW t \in Thread, Insert(t), NEW v, Passive(v)
  PROVE  Passive(v)'
BY SettledStays DEF Passive

(* No step makes a vertex fresh or untouched again.                        *)
LEMMA ComesBefore ==
  ASSUME FirstLayer, IInv, pass = 1, NEW t \in Thread, Insert(t), NEW v
  PROVE  /\ Fresh(v)' => Fresh(v)
         /\ Untouched(v)' => Untouched(v)
<1>1. TypeOK
  BY DEF IInv
<1>2. ASSUME NEW s \in Thread, cur'[s] = v, pc'[s] \in {"search", "prune", "own"}
      PROVE  Ahead(v) \/ /\ cur[s] = v /\ pc[s] \in {"search", "prune", "own"}
                         /\ pc'[s] # "own" => pc[s] # "own"
  <2>1. \/ cur[s] = v /\ Busy(s) /\ ~(s = t /\ Claim(t))
        \/ Ahead(v)
    BY <1>2, BusyBefore
  <2>2. CASE s # t
    BY <1>2, <2>2, OthersAsBefore DEF Others
  <2>3. CASE s = t /\ ~Claim(t) /\ cur[s] = v /\ Busy(s)
    <3>1. ~Enter(t)
      BY <1>1, FirstLoop DEF Enter, IInv, Threads, ThreadOK
    <3> QED BY <1>1, <1>2, <2>3, <3>1
            DEF Insert, Skip, Take, Expand, BeginPrune, EndPrune,
                Install, Rewrite, TakeOwn, Pick, Leave, LinkKnown, LinkBack, Full,
                BeginOffer, EndOffer, NextLink, Busy, TypeOK
  <2> QED BY <2>1, <2>2, <2>3
<1>3. Fresh(v)' => Fresh(v)
  BY <1>2, AheadBefore DEF Fresh, Comes
<1>4. Untouched(v)' => Untouched(v)
  BY <1>2, AheadBefore DEF Untouched, Comes
<1> QED BY <1>3, <1>4

(* A vertex that is being inserted is not to come again.                   *)
LEMMA NotAheadAgain ==
  ASSUME FirstLayer, IInv, pass = 1, NEW t \in Thread, Once(t), Busy(t)
  PROVE  ~Ahead(cur[t])
<1>1. SUFFICES ASSUME Ahead(cur[t]) PROVE FALSE
  OBVIOUS
<1>2. PICK i \in DOMAIN This.order : i >= next /\ This.order[i] = cur[t]
  BY <1>1 DEF Ahead
<1>3. PICK j \in DOMAIN This.order : j < next /\ This.order[j] = cur[t]
  BY DEF Once
<1>4. i = j /\ i \in Nat /\ next \in Nat
  BY <1>2, <1>3, NamedOnce DEF IInv, TypeOK
<1> QED BY <1>2, <1>3, <1>4

LEMMA LinkerNotFresh ==
  ASSUME FirstLayer, IInv, pass = 1, NEW t \in Thread, Once(t), AtLink(t)
  PROVE  ~Fresh(cur[t])
<1>1. Busy(t) /\ ~Ahead(cur[t])
  BY NotAheadAgain DEF AtLink, Busy
<1> QED BY <1>1 DEF Fresh, Comes, Once, Busy, AtLink

LEMMA OnceStep ==
  ASSUME FirstLayer, IInv, pass = 1, NEW t \in Thread, Insert(t),
         \A s \in Thread : Once(s), NEW s \in Thread
  PROVE  Once(s)'
<1>1. TypeOK /\ pass' = pass /\ next \in Nat /\ next' \in Nat /\ next' >= next
  BY NextOrSame DEF IInv
<1>2. This.order \in Seq(Node)
  BY NamedOnce
<1>3. SUFFICES ASSUME pc'[s] # "idle" PROVE Once(s)'
  BY DEF Once, Busy
<1>4. \E i \in DOMAIN This.order : i < next' /\ This.order[i] = cur'[s]
  <2>1. CASE cur[s] = cur'[s] /\ Busy(s)
    <3>1. PICK i \in DOMAIN This.order : i < next /\ This.order[i] = cur[s]
      BY <2>1 DEF Once
    <3>2. i < next'
      BY <1>1, <1>2, <3>1
    <3> QED BY <2>1, <3>1, <3>2
  <2>2. CASE s = t /\ Claim(t)
    <3>1. next' = next + 1 /\ cur'[t] = This.order[next] /\ next \in DOMAIN This.order
      BY <1>1, <2>2, TakenIsNode DEF Claim, Take, TypeOK
    <3> QED BY <1>1, <2>2, <3>1
  <2> QED BY <1>3, <2>1, <2>2, BusyBefore
<1>5. \A r \in Thread : pc'[r] # "idle" /\ cur'[r] = cur'[s] => r = s
  <2>1. SUFFICES ASSUME NEW r \in Thread, pc'[r] # "idle", cur'[r] = cur'[s] PROVE r = s
    OBVIOUS
  <2>2. \A q \in {r, s} :
          \/ cur[q] = cur'[s] /\ Busy(q) /\ ~(q = t /\ Claim(t))
          \/ q = t /\ Claim(t) /\ Ahead(cur'[s])
    BY <1>3, <2>1, BusyBefore
  <2>3. \A q \in {r, s} : cur[q] = cur'[s] /\ Busy(q) => ~Ahead(cur'[s])
    BY NotAheadAgain
  <2> QED BY <2>2, <2>3 DEF Once
<1> QED BY <1>1, <1>3, <1>4, <1>5 DEF Once, Busy, This

(* The ways a list changes: it is written, or gets the linker's vertex.    *)
LEMMA ListsChange ==
  ASSUME NEW t \in Thread, Insert(t)
  PROVE  \/ adj' = adj
         \/ /\ EndPrune(t) \/ EndOffer(t)
            /\ Writing(t) /\ adj' = [adj EXCEPT ![Site(t)] = fill[t]]
         \/ /\ LinkBack(t)
            /\ adj' = [adj EXCEPT ![target[t]] = Append(adj[target[t]], cur[t])]
<1>1. CASE EndPrune(t) \/ EndOffer(t)
  BY <1>1 DEF EndPrune, EndOffer, Install, Writing, Site
<1>2. CASE LinkBack(t)
  BY <1>2 DEF LinkBack
<1>3. CASE ~(EndPrune(t) \/ EndOffer(t) \/ LinkBack(t))
  BY <1>3 DEF Insert, Claim, Skip, Take, Enter, Expand, BeginPrune, Rewrite, TakeOwn,
              Pick, Leave, LinkKnown, Full, BeginOffer
<1> QED BY <1>1, <1>2, <1>3

LEMMA AppendedElems ==
  ASSUME NEW list \in Seq(Node), NEW u
  PROVE  Elems(Append(list, u)) \subseteq Elems(list) \cup {u}
<1>1. \A k \in DOMAIN Append(list, u) :
        \/ k \in DOMAIN list /\ Append(list, u)[k] = list[k]
        \/ Append(list, u)[k] = u
  <2>1. Len(list) \in Nat /\ DOMAIN list = 1 .. Len(list)
        /\ DOMAIN Append(list, u) = 1 .. Len(list) + 1
    OBVIOUS
  <2>2. \A k \in 1 .. Len(list) + 1 :
          Append(list, u)[k] = IF k = Len(list) + 1 THEN u ELSE list[k]
    OBVIOUS
  <2> QED BY <2>1, <2>2
<1> QED BY <1>1 DEF Elems

(* Who comes into a list: a passive vertex, or the linker's, which is not  *)
(* fresh any more; entry vertices take only those that link.               *)
LEMMA NewInList ==
  ASSUME FirstLayer, IInv, Guarded, WaitInv, pass = 1, NEW t \in Thread, Insert(t),
         NEW x \in Node, NEW v \in Elems(adj'[x]), v \notin Elems(adj[x])
  PROVE  \/ EndPrune(t) /\ x = cur[t] /\ Passive(v)
         \/ /\ LinkBack(t) \/ EndOffer(t)
            /\ x = target[t] /\ v = cur[t]
<1>1. TypeOK /\ ThreadOK(t) /\ AtTarget(t) /\ SeesPassive(t)
  BY DEF IInv, Threads, WaitInv
<1>2. CASE EndPrune(t)
  <2>1. adj' = [adj EXCEPT ![cur[t]] = fill[t]] /\ pc[t] = "prune"
    BY <1>2 DEF EndPrune, Install
  <2>2. x = cur[t] /\ v \in Elems(fill[t])
    BY <1>1, <2>1 DEF TypeOK
  <2> QED BY <1>1, <1>2, <2>1, <2>2 DEF SeesPassive
<1>3. CASE EndOffer(t)
  <2>1. adj' = [adj EXCEPT ![target[t]] = fill[t]] /\ pc[t] = "offering"
    BY <1>3 DEF EndOffer, Install
  <2>2. x = target[t] /\ v \in Elems(fill[t])
    BY <1>1, <2>1 DEF TypeOK
  <2> QED BY <1>1, <1>3, <2>1, <2>2 DEF AtTarget
<1>4. CASE LinkBack(t)
  <2>1. adj' = [adj EXCEPT ![target[t]] = Append(adj[target[t]], cur[t])]
    BY <1>4 DEF LinkBack
  <2>2. x = target[t] /\ v \in Elems(Append(adj[x], cur[t])) /\ adj[x] \in Seq(Node)
    BY <1>1, <2>1 DEF TypeOK
  <2> QED BY <1>4, <2>2, AppendedElems
<1> QED BY <1>2, <1>3, <1>4, ListsChange

LEMMA UnseenStep ==
  ASSUME FirstLayer, IInv, Guarded, WaitInv, pass = 1, NEW t \in Thread, Insert(t),
         NEW v \in Node
  PROVE  Unseen(v)'
<1>1. /\ TypeOK /\ ThreadOK(t) /\ Holding(t) /\ AtTarget(t)
      /\ Once(t) /\ SeesPassive(t) /\ Unseen(v)
  BY DEF IInv, Threads, WaitInv
<1>2. ASSUME Fresh(v)', NEW x \in Node, v \in Elems(adj'[x]) PROVE FALSE
  <2>1. Fresh(v) /\ v \notin Elems(adj[x])
    BY <1>1, <1>2, ComesBefore DEF Unseen
  <2>2. CASE Passive(v)
    BY <2>1, <2>2 DEF Passive, Settled, Fresh, Comes, Busy
  <2>3. CASE (LinkBack(t) \/ EndOffer(t)) /\ v = cur[t]
    <3>1. AtLink(t)
      BY <2>3 DEF LinkBack, EndOffer, AtLink
    <3> QED BY <1>1, <2>1, <2>3, <3>1, LinkerNotFresh
  <2> QED BY <1>2, <2>1, <2>2, <2>3, NewInList
<1>3. ASSUME Untouched(v)' PROVE adj'[v] = <<>>
  <2>1. Untouched(v) /\ adj[v] = <<>> /\ Fresh(v)
    BY <1>1, <1>3, ComesBefore DEF Unseen, Untouched, Fresh, Comes
  <2>2. CASE adj' = adj
    BY <2>1, <2>2
  <2>3. CASE EndPrune(t)
    <3>1. v # cur[t]
      <4>1. SUFFICES ASSUME v = cur[t] PROVE FALSE
        OBVIOUS
      <4>2. Busy(t) /\ pc'[t] = "own"
        BY <1>1, <2>3, FirstLoop DEF EndPrune, Busy, TypeOK
      <4>3. ~Ahead(v)'
        BY <1>1, <4>1, <4>2, NotAheadAgain, AheadBefore
      <4>4. PICK s \in Thread : cur'[s] = v /\ pc'[s] \in {"search", "prune"}
        BY <1>3, <4>3 DEF Untouched, Comes
      <4>5. s # t
        BY <4>2, <4>4
      <4>6. cur[s] = v /\ Busy(s)
        BY <4>4, <4>5, OthersAsBefore DEF Others, Busy
      <4> QED BY <1>1, <4>1, <4>2, <4>5, <4>6 DEF Once
    <3>2. adj' = [adj EXCEPT ![cur[t]] = fill[t]]
      BY <2>3 DEF EndPrune, Install
    <3> QED BY <1>1, <2>1, <3>1, <3>2 DEF TypeOK
  <2>4. CASE LinkBack(t) \/ EndOffer(t)
    <3>1. Linking(t) /\ cur[t] \in Node
      BY <1>1, <2>4 DEF LinkBack, EndOffer, Linking, ThreadOK, Busy
    <3>2. target[t] \in Elems(adj[cur[t]])
      BY <1>1, <3>1 DEF AtTarget, Elems
    <3>3. v # target[t]
      BY <1>1, <2>1, <3>1, <3>2 DEF Unseen
    <3>4. \E s : adj' = [adj EXCEPT ![target[t]] = s]
      BY <2>4 DEF LinkBack, EndOffer, Install
    <3> QED BY <1>1, <2>1, <3>3, <3>4 DEF TypeOK
  <2> QED BY <2>2, <2>3, <2>4, ListsChange
<1> QED BY <1>2, <1>3 DEF Unseen

-----------------------------------------------------------------------------
(* Free and no longer fresh: whoever still linked it would hold its mutex. *)
LEMMA FreeIsPassive ==
  ASSUME WaitInv, FirstLayer, pass = 1, NEW v \in Node, Free(v), ~Fresh(v),
         IInv
  PROVE  Passive(v)
<1>1. SUFFICES ASSUME v # Entry[v] PROVE Settled(v)
  BY DEF Passive
<1>2. ~Ahead(v)
  BY <1>1 DEF Fresh, Comes
<1>3. ASSUME NEW s \in Thread, Busy(s), cur[s] = v PROVE FALSE
  <2>1. pc[s] \notin {"search", "prune", "own", "idle", "enter"} /\ Holding(s)
    BY <1>1, <1>3 DEF Fresh, Comes, Busy, WaitInv, Holding
  <2>2. AtLink(s)
    BY <2>1 DEF IInv, TypeOK, AtLink
  <2>3. lock[v] = s
    BY <1>3, <2>1, <2>2 DEF Holding
  <2> QED BY <2>3, LayerAssumption DEF Free
<1> QED BY <1>2, <1>3 DEF Settled

LEMMA SeesOthers ==
  ASSUME FirstLayer, IInv, Guarded, WaitInv, pass = 1, NEW t \in Thread, Insert(t),
         NEW s \in Thread \ {t}
  PROVE  SeesPassive(s)'
<1>1. /\ pc'[s] = pc[s] /\ cur'[s] = cur[s] /\ result'[s] = result[s]
      /\ cand'[s] = cand[s] /\ fill'[s] = fill[s]
      /\ ThreadOK(s) /\ SeesPassive(s)
  BY OthersAsBefore DEF Others, IInv, Threads, WaitInv
<1>2. pc[s] = "prune" => adj'[cur[s]] = adj[cur[s]]
  <2>1. SUFFICES ASSUME pc[s] = "prune" PROVE adj'[cur[s]] = adj[cur[s]]
    OBVIOUS
  <2>2. Site(s) = cur[s] /\ cur[s] \in Node /\ lock[cur[s]] = s
    BY <1>1, <2>1, WriterSite DEF Site, Writing, Guarded
  <2> QED BY <2>2, ListStaysPut
<1>3. \A u : (~Fresh(u) => ~Fresh(u)') /\ (Passive(u) => Passive(u)')
  BY ComesBefore, PassiveStays
<1> QED BY <1>1, <1>2, <1>3 DEF SeesPassive

LEMMA SeesOwn ==
  ASSUME FirstLayer, IInv, Guarded, WaitInv, pass = 1, NEW t \in Thread, Insert(t)
  PROVE  SeesPassive(t)'
<1>1. /\ TypeOK /\ ThreadOK(t) /\ Lists /\ Holding(t) /\ SeesPassive(t)
      /\ \A v \in Node : Unseen(v)
  BY DEF IInv, Threads, WaitInv
<1>2. This.hold /\ \A v \in Node : Locked(v) = 0
  BY FirstLoop
<1>3. \A u : (~Fresh(u) => ~Fresh(u)') /\ (Passive(u) => Passive(u)')
  BY ComesBefore, PassiveStays
<1>4. CASE Claim(t)
  <2>1. PICK v \in Node : v = This.order[next]
    BY <1>1, <1>4, TakenIsNode DEF Claim
  <2>2. /\ result' = [result EXCEPT ![t] = {Entry[v]}]
        /\ pc' = [pc EXCEPT ![t] = "search"] /\ cand' = cand
        /\ pc[t] = "idle"
    BY <1>2, <1>4, <2>1 DEF Claim, Take, EntryOf
  <2>3. cand'[t] = {} /\ result'[t] = {Entry[v]} /\ pc'[t] = "search"
    BY <1>1, <2>2 DEF ThreadOK, TypeOK
  <2>4. ~Fresh(Entry[v])'
    BY <2>1, EntryIsEntry DEF Fresh
  <2> QED BY <2>3, <2>4 DEF SeesPassive
<1>5. CASE Expand(t)
  <2>1. PICK u \in Unexpanded(t) :
          /\ Free(u) /\ cand' = [cand EXCEPT ![t] = cand[t] \cup {u}]
          /\ result' = [result EXCEPT ![t] =
                          Closest(cur[t], result[t] \cup Elems(adj[u]))]
    BY <1>5 DEF Expand, Expanded, Readable
  <2>2. pc[t] = "search" /\ pc' = pc
    BY <1>5 DEF Expand
  <2>3. u \in result[t] /\ u \in Node
    BY <1>1 DEF Unexpanded, TypeOK
  <2>4. ~Fresh(u) /\ Passive(u)
    BY <1>1, <2>1, <2>2, <2>3, FreeIsPassive DEF SeesPassive
  <2>5. \A x \in Elems(adj[u]) : x \in Node /\ ~Fresh(x)
    <3>1. \A x \in Elems(adj[u]) : x \in Node
      BY <1>1, <2>3 DEF TypeOK, Elems
    <3> QED BY <1>1, <2>3, <3>1 DEF Unseen
  <2>6. /\ cand'[t] = cand[t] \cup {u}
        /\ result'[t] \subseteq result[t] \cup Elems(adj[u])
    BY <1>1, <2>1 DEF TypeOK, Closest
  <2> QED BY <1>1, <1>3, <2>2, <2>4, <2>5, <2>6 DEF SeesPassive
<1>6. CASE BeginPrune(t)
  <2>1. pc[t] = "search" /\ Rewrite(t, cur[t], Dist[cur[t]], cand[t], "prune") /\ cur[t] \in Node
    BY <1>1, <1>6 DEF BeginPrune, ThreadOK, Busy
  <2>2. PICK s \in Pruned(cur[t], Dist[cur[t]], adj[cur[t]], cand[t], This.blocks) :
          fill' = [fill EXCEPT ![t] = s]
    BY <2>1 DEF Rewrite
  <2>3. pc'[t] = "prune" /\ cur' = cur /\ adj' = adj /\ fill'[t] = s
    BY <1>1, <2>1, <2>2 DEF Rewrite, TypeOK
  <2>4. Elems(s) \subseteq cand[t] \cup Elems(adj[cur[t]])
    <3>1. adj[cur[t]] \in Seq(Node) /\ cand[t] \in SUBSET Node /\ Locked(cur[t]) = 0
      BY <1>1, <1>2, <2>1 DEF TypeOK
    <3> QED BY <2>1, <2>2, <3>1, InDistances, PrunedMembers
  <2> QED BY <1>1, <1>3, <2>1, <2>3, <2>4 DEF SeesPassive
<1>7. CASE ~(Claim(t) \/ Expand(t) \/ BeginPrune(t))
  <2>1. ~Enter(t)
    BY <1>1 DEF Enter, Holding
  <2>2. pc'[t] \notin {"search", "prune"}
    BY <1>1, <1>7, <2>1 DEF Insert, Skip, Take, EndPrune, TakeOwn, Pick, Leave,
         LinkKnown, LinkBack, Full, BeginOffer, EndOffer, Rewrite, NextLink, TypeOK
  <2> QED BY <2>2 DEF SeesPassive
<1> QED BY <1>4, <1>5, <1>6, <1>7

-----------------------------------------------------------------------------
(* The list of a vertex whose thread is about to link stays: nobody knows  *)
(* the vertex while its mutex is free, and then its thread has it.         *)
LEMMA OwnListStays ==
  ASSUME FirstLayer, IInv, Guarded, WaitInv, pass = 1, NEW t \in Thread, Insert(t),
         NEW s \in Thread \ {t}, pc[s] = "own" \/ AtLink(s), cur[s] # Entry[cur[s]]
  PROVE  adj'[cur[s]] = adj[cur[s]]
<1>1. /\ TypeOK /\ ThreadOK(t) /\ ThreadOK(s) /\ Holding(s) /\ AtTarget(t)
      /\ Once(s) /\ \A v \in Node : Unseen(v)
  BY DEF IInv, Threads, WaitInv
<1>2. Busy(s) /\ cur[s] \in Node
  BY <1>1 DEF ThreadOK, Busy, AtLink
<1>3. CASE AtLink(s)
  BY <1>1, <1>2, <1>3, ListStaysPut DEF Holding
<1>4. CASE pc[s] = "own"
  <2>1. Fresh(cur[s])
    BY <1>4 DEF Fresh, Comes
  <2>2. CASE EndPrune(t)
    <3>1. cur[t] # cur[s]
      BY <1>1, <1>2, <2>2 DEF Once, Busy, EndPrune
    <3>2. adj' = [adj EXCEPT ![cur[t]] = fill[t]]
      BY <2>2 DEF EndPrune, Install
    <3> QED BY <1>1, <1>2, <3>1, <3>2 DEF TypeOK
  <2>3. CASE LinkBack(t) \/ EndOffer(t)
    <3>1. Linking(t) /\ cur[t] \in Node
      BY <1>1, <2>3 DEF LinkBack, EndOffer, Linking, ThreadOK, Busy
    <3>2. target[t] \in Elems(adj[cur[t]])
      BY <1>1, <3>1 DEF AtTarget, Elems
    <3>3. cur[s] # target[t]
      BY <1>1, <1>2, <2>1, <3>1, <3>2 DEF Unseen
    <3>4. \E q : adj' = [adj EXCEPT ![target[t]] = q]
      BY <2>3 DEF LinkBack, EndOffer, Install
    <3> QED BY <1>1, <1>2, <3>3, <3>4 DEF TypeOK
  <2> QED BY <2>2, <2>3, ListsChange
<1> QED BY <1>3, <1>4

LEMMA LinksOthers ==
  ASSUME FirstLayer, IInv, Guarded, WaitInv, pass = 1, NEW t \in Thread, Insert(t),
         NEW s \in Thread \ {t}
  PROVE  LinksPassive(s)'
<1>1. /\ pc'[s] = pc[s] /\ cur'[s] = cur[s] /\ index'[s] = index[s]
      /\ LinksPassive(s) /\ Once(s) /\ ThreadOK(s)
  BY OthersAsBefore DEF Others, IInv, Threads, WaitInv
<1>2. \A u : Passive(u) => Passive(u)'
  BY PassiveStays
<1>3. SUFFICES ASSUME cur[s] # Entry[cur[s]], pc[s] = "own" \/ AtLink(s)
               PROVE  LinksPassive(s)'
  BY <1>1 DEF LinksPassive, AtLink
<1>4. adj'[cur[s]] = adj[cur[s]] /\ Busy(s) /\ cur[s] \in Node
  BY <1>1, <1>3, OwnListStays DEF Busy, AtLink, ThreadOK
<1>5. ASSUME NEW e \in Node, e = Entry[e], cur[s] \in Elems(adj'[e])
      PROVE  cur[s] \in Elems(adj[e])
  <2>1. ~Passive(cur[s])
    BY <1>3, <1>4 DEF Passive, Settled
  <2>2. ~((LinkBack(t) \/ EndOffer(t)) /\ cur[s] = cur[t])
    BY <1>1, <1>4 DEF Once, LinkBack, EndOffer, Busy
  <2> QED BY <1>5, <2>1, <2>2, NewInList
<1> QED BY <1>1, <1>2, <1>4, <1>5 DEF LinksPassive, AtLink

LEMMA LinksOwn ==
  ASSUME FirstLayer, IInv, Guarded, WaitInv, pass = 1, NEW t \in Thread, Insert(t)
  PROVE  LinksPassive(t)'
<1>1. /\ TypeOK /\ ThreadOK(t) /\ Lists /\ Holding(t) /\ AtTarget(t)
      /\ SeesPassive(t) /\ LinksPassive(t) /\ \A v \in Node : Unseen(v)
  BY DEF IInv, Threads, WaitInv
<1>2. \A u : Passive(u) => Passive(u)'
  BY PassiveStays
<1>3. CASE EndPrune(t)
  <2>1. pc[t] = "prune" /\ adj' = [adj EXCEPT ![cur[t]] = fill[t]] /\ cur[t] \in Node
    BY <1>1, <1>3 DEF EndPrune, Install, ThreadOK, Busy
  <2>2. pc'[t] = "own" /\ cur' = cur /\ adj'[cur[t]] = fill[t]
    BY <1>1, <1>3, <2>1, FirstLoop DEF EndPrune, TypeOK
  <2>3. SUFFICES ASSUME cur[t] # Entry[cur[t]] PROVE LinksPassive(t)'
    BY <2>2 DEF LinksPassive
  <2>4. adj[cur[t]] = <<>>
    BY <1>1, <2>1, <2>3 DEF Unseen, Untouched, Comes
  <2>5. \A k \in DOMAIN fill[t] : Passive(fill[t][k])
    BY <1>1, <2>1, <2>4 DEF SeesPassive, Elems
  <2> QED BY <1>2, <2>2, <2>5 DEF LinksPassive, AtLink
<1>4. CASE TakeOwn(t)
  <2>1. pc[t] = "own" /\ pc'[t] = "pick" /\ UNCHANGED <<adj, cur, index>> /\ cur[t] \in Node
    BY <1>1, <1>4 DEF TakeOwn, TypeOK, ThreadOK, Busy
  <2>2. cur[t] # Entry[cur[t]] => \A e \in Node : cur[t] \notin Elems(adj[e])
    BY <1>1, <2>1 DEF Unseen, Fresh, Comes
  <2> QED BY <1>1, <1>2, <2>1, <2>2 DEF LinksPassive, AtLink
<1>5. CASE Pick(t) \/ Full(t) \/ BeginOffer(t)
  <2>1. AtLink(t) /\ AtLink(t)' /\ UNCHANGED <<adj, cur, index>> /\ pc'[t] # "own"
    BY <1>1, <1>5 DEF Pick, Full, BeginOffer, Rewrite, AtLink, TypeOK
  <2> QED BY <1>1, <1>2, <2>1 DEF LinksPassive
<1>6. CASE LinkKnown(t) \/ LinkBack(t) \/ EndOffer(t)
  <2>1. /\ Linking(t) /\ AtLink(t) /\ AtLink(t)' /\ pc'[t] # "own" /\ cur' = cur
        /\ index'[t] = index[t] + 1 /\ index[t] \in Nat \ {0} /\ cur[t] \in Node
    BY <1>1, <1>6 DEF LinkKnown, LinkBack, EndOffer, NextLink, AtLink, Linking, TypeOK,
                      ThreadOK, Busy
  <2>2. /\ target[t] # cur[t] /\ index[t] \in DOMAIN adj[cur[t]]
        /\ target[t] = adj[cur[t]][index[t]]
    BY <1>1, <2>1 DEF ThreadOK, Companion, AtTarget
  <2>3. adj'[cur[t]] = adj[cur[t]]
    <3>1. adj' = adj \/ \E q : adj' = [adj EXCEPT ![target[t]] = q]
      BY <1>6 DEF LinkKnown, LinkBack, EndOffer, Install
    <3> QED BY <1>1, <2>1, <2>2, <3>1 DEF TypeOK
  <2>4. SUFFICES ASSUME cur[t] # Entry[cur[t]] PROVE LinksPassive(t)'
    BY <2>1 DEF LinksPassive
  <2>5. \A k \in DOMAIN adj[cur[t]] :
          k >= index'[t] => k >= index[t] /\ adj[cur[t]][k] # target[t]
    <3>1. IsWellFormed(cur[t], adj[cur[t]]) /\ adj[cur[t]] \in Seq(Node)
      BY <1>1, <2>1 DEF Lists, IsList
    <3>2. \A k \in DOMAIN adj[cur[t]] :
            k >= index[t] + 1 => k >= index[t] /\ k # index[t]
      BY <2>1, <3>1
    <3> QED BY <2>1, <2>2, <3>1, <3>2 DEF IsWellFormed
  <2>6. ASSUME NEW e \in Node, e = Entry[e], cur[t] \in Elems(adj'[e])
        PROVE  \A k \in DOMAIN adj[cur[t]] : k >= index'[t] => adj[cur[t]][k] # e
    <3>1. CASE cur[t] \in Elems(adj[e])
      BY <1>1, <2>1, <2>4, <2>5, <2>6, <3>1 DEF LinksPassive
    <3>2. CASE cur[t] \notin Elems(adj[e])
      <4>1. ~EndPrune(t)
        BY <2>1 DEF Linking, EndPrune
      <4>2. e = target[t]
        BY <2>6, <3>2, <4>1, NewInList
      <4> QED BY <2>5, <4>2
    <3> QED BY <3>1, <3>2
  <2>7. \A k \in DOMAIN adj[cur[t]] : k >= index'[t] => Passive(adj[cur[t]][k])'
    <3>1. \A k \in DOMAIN adj[cur[t]] : k >= index'[t] => Passive(adj[cur[t]][k])
      BY <1>1, <2>1, <2>4, <2>5 DEF LinksPassive
    <3>2. \A k \in DOMAIN adj[cur[t]] :
            Passive(adj[cur[t]][k]) => \A u : u = adj[cur[t]][k] => Passive(u)'
      BY <1>2
    <3> QED BY <2>1, <2>3, <3>1, <3>2 DEF Passive, Settled
  <2> QED BY <2>1, <2>3, <2>6, <2>7 DEF LinksPassive
<1>7. CASE ~(EndPrune(t) \/ TakeOwn(t) \/ Pick(t) \/ Full(t) \/ BeginOffer(t)
             \/ LinkKnown(t) \/ LinkBack(t) \/ EndOffer(t))
  <2>1. pc'[t] \in {"idle", "search", "prune"}
    BY <1>1, <1>7, FirstLoop DEF Insert, Claim, Skip, Take, Enter, Expand, BeginPrune,
                                 Rewrite, Leave, TypeOK, Holding
  <2> QED BY <2>1 DEF LinksPassive, AtLink
<1> QED BY <1>3, <1>4, <1>5, <1>6, <1>7

LEMMA NextWaitInv ==
  ASSUME IInv, IInv', Guarded, WaitInv, [Next]_vars
  PROVE  WaitInv'
<1>1. SUFFICES ASSUME FirstLayer, pass' = 1 PROVE WaitInv'
  BY DEF WaitInv
<1>2. CASE \E t \in Thread : Insert(t)
  <2>1. PICK t \in Thread : Insert(t)
    BY <1>2
  <2>2. pass = 1
    BY <1>1, <2>1, NextOrSame
  <2>3. This.hold /\ \A s \in Thread : Holding(s) /\ AtTarget(s) /\ Once(s)
    BY <1>1, <2>2, FirstLoop DEF WaitInv
  <2>4. Holding(t)' /\ AtTarget(t)' /\ SeesPassive(t)' /\ LinksPassive(t)'
    BY <1>1, <2>1, <2>2, <2>3, HoldingStep, OwnAtTarget, SeesOwn, LinksOwn
  <2>5. \A s \in Thread \ {t} :
          Holding(s)' /\ AtTarget(s)' /\ SeesPassive(s)' /\ LinksPassive(s)'
    BY <1>1, <2>1, <2>2, <2>3, HoldingOthers, OthersAtTarget, SeesOthers, LinksOthers
  <2>6. \A s \in Thread : Once(s)'
    BY <1>1, <2>1, <2>2, <2>3, OnceStep
  <2>7. \A v \in Node : Unseen(v)'
    BY <1>1, <2>1, <2>2, UnseenStep
  <2>8. /\ (\A s \in Thread : /\ Holding(s) /\ AtTarget(s)
                              /\ Once(s) /\ SeesPassive(s) /\ LinksPassive(s))'
        /\ (\A v \in Node : Unseen(v))'
    BY <2>4, <2>5, <2>6, <2>7
  <2> QED BY <2>8 DEF WaitInv
<1>3. CASE NextPass
  BY <1>1, <1>3, LayerAssumption DEF NextPass, IInv, TypeOK
<1>4. CASE UNCHANGED vars
  <2>1. UNCHANGED <<adj, lock, pass, next, pc, cur, result, cand, index, target, fill>>
    BY <1>4 DEF vars
  <2>2. \A v : /\ Fresh(v)' = Fresh(v) /\ Untouched(v)' = Untouched(v)
               /\ Passive(v)' = Passive(v)
    BY <2>1 DEF Fresh, Untouched, Comes, Passive, Settled, Ahead, Busy, This
  <2>3. \A s \in Thread :
          Holding(s) /\ AtTarget(s) /\ Once(s) => Holding(s)' /\ AtTarget(s)' /\ Once(s)'
    BY <2>1 DEF Holding, AtLink, AtTarget, Linking, Writing, Site, Once, Busy, This
  <2>4. \A s \in Thread :
          SeesPassive(s) /\ LinksPassive(s) => SeesPassive(s)' /\ LinksPassive(s)'
    BY <2>1, <2>2 DEF SeesPassive, LinksPassive, AtLink
  <2>5. \A v \in Node : Unseen(v) => Unseen(v)'
    BY <2>1, <2>2 DEF Unseen
  <2>6. /\ (\A s \in Thread : /\ Holding(s) /\ AtTarget(s)
                              /\ Once(s) /\ SeesPassive(s) /\ LinksPassive(s))'
        /\ (\A v \in Node : Unseen(v))'
    BY <1>1, <2>1, <2>3, <2>4, <2>5 DEF WaitInv
  <2> QED BY <2>6 DEF WaitInv
<1> QED BY <1>2, <1>3, <1>4 DEF Next, Terminated

LEMMA InitWaitInv == Init => WaitInv
<1> SUFFICES ASSUME Init, FirstLayer PROVE WaitInv
  BY DEF WaitInv
<1>1. \A t \in Thread : /\ Holding(t) /\ AtTarget(t)
                        /\ Once(t) /\ SeesPassive(t) /\ LinksPassive(t)
  BY DEF Init, Holding, AtLink, AtTarget, Linking, Writing, Once, Busy, SeesPassive,
         LinksPassive
<1>2. \A v \in Node : adj[v] = <<>>
  BY DEF Init, FirstLayer
<1>3. \A v \in Node : Unseen(v)
  BY <1>2 DEF Unseen, Elems
<1> QED BY <1>1, <1>3 DEF WaitInv

-----------------------------------------------------------------------------
(* A mutex is held by who writes the list, or, in a loop that holds, by    *)
(* the thread that links the vertex.                                       *)
HeldBy(v) ==
  \A t \in Thread : lock[v] = t =>
    \/ Writing(t) /\ Site(t) = v
    \/ AtLink(t) /\ cur[t] = v /\ ~Done /\ This.hold

Held == (\A v \in Node : HeldBy(v)) /\ \A t \in Thread : pc[t] = "own" => This.hold

LEMMA HeldStep ==
  ASSUME IInv, Guarded, Held, NEW t \in Thread, Insert(t), NEW v \in Node
  PROVE  HeldBy(v)'
<1>1. /\ TypeOK /\ ThreadOK(t) /\ NoThread \notin Thread /\ HeldBy(v) /\ pass' = pass
      /\ pc[t] = "own" => This.hold
  BY LayerAssumption, NextOrSame DEF IInv, Threads, Held
<1>2. SUFFICES ASSUME NEW s \in Thread, lock'[v] = s
               PROVE  \/ Writing(s)' /\ Site(s)' = v
                      \/ AtLink(s)' /\ cur'[s] = v /\ ~Done /\ This.hold
  BY <1>1 DEF HeldBy, Done, This
<1>3. CASE s # t
  <2>1. lock[v] = s
    BY <1>1, <1>2, <1>3 DEF Insert, Claim, Skip, Take, Enter, Expand, BeginPrune, EndPrune,
       Install, Rewrite, TakeOwn, Pick, Leave, LinkKnown, LinkBack, Full,
       BeginOffer, EndOffer, NextLink, TypeOK
  <2>2. pc'[s] = pc[s] /\ cur'[s] = cur[s] /\ target'[s] = target[s]
    BY <1>3, OthersAsBefore DEF Others
  <2> QED BY <1>1, <2>1, <2>2 DEF HeldBy, Writing, Site, AtLink
<1>4. CASE s = t /\ (BeginPrune(t) \/ BeginOffer(t))
  <2>1. PICK w \in Node, at \in {"prune", "offering"} :
          /\ lock' = [lock EXCEPT ![w] = t] /\ pc' = [pc EXCEPT ![t] = at]
          /\ w = IF at = "prune" THEN cur[t] ELSE target[t]
          /\ pc[t] = IF at = "prune" THEN "search" ELSE "offer"
    <3>1. cur[t] \in Node /\ (BeginOffer(t) => target[t] \in Node)
      BY <1>1, <1>4 DEF ThreadOK, Busy, Linking, Companion, BeginPrune, BeginOffer
    <3> QED BY <1>4, <3>1 DEF BeginPrune, BeginOffer, Rewrite
  <2>2. UNCHANGED <<cur, target>> /\ pc'[t] = at
    BY <1>1, <1>4, <2>1 DEF BeginPrune, BeginOffer, Rewrite, TypeOK
  <2>3. CASE v = w
    BY <1>4, <2>1, <2>2, <2>3 DEF Writing, Site
  <2>4. CASE v # w
    <3>1. lock[v] = t
      BY <1>1, <1>2, <1>4, <2>1, <2>4 DEF TypeOK
    <3>2. ~Writing(t)
      BY <2>1 DEF Writing
    <3>3. AtLink(t) /\ cur[t] = v /\ ~Done /\ This.hold
      BY <1>1, <3>1, <3>2 DEF HeldBy
    <3> QED BY <1>4, <2>1, <2>2, <3>3 DEF AtLink
  <2> QED BY <2>3, <2>4
<1>5. CASE s = t /\ TakeOwn(t)
  <2>1. /\ pc[t] = "own" /\ pc'[t] = "pick" /\ cur' = cur
        /\ lock' = [lock EXCEPT ![cur[t]] = t]
    BY <1>1, <1>5 DEF TakeOwn, TypeOK
  <2>2. v = cur[t]
    <3>1. lock[v] # t
      BY <1>1, <2>1 DEF HeldBy, Writing, AtLink
    <3> QED BY <1>1, <1>2, <1>5, <2>1, <3>1 DEF TypeOK
  <2>3. ~Done /\ This.hold
    <3>1. pass \in Nat /\ Len(Passes) \in Nat /\ pass <= Len(Passes)
      BY <1>1, <2>1, LayerAssumption DEF ThreadOK, Busy, TypeOK
    <3> QED BY <1>1, <2>1, <3>1 DEF Done
  <2> QED BY <1>5, <2>1, <2>2, <2>3 DEF AtLink
<1>6. CASE s = t /\ (EndPrune(t) \/ EndOffer(t))
  <2>1. /\ Writing(t) /\ lock' = [lock EXCEPT ![Site(t)] = NoThread] /\ cur' = cur
        /\ EndOffer(t) => pc'[t] = "pick"
        /\ pc[t] = IF EndPrune(t) THEN "prune" ELSE "offering"
    BY <1>1, <1>6 DEF EndPrune, EndOffer, Install, Writing, Site, NextLink, TypeOK
  <2>2. v # Site(t) /\ lock[v] = t
    BY <1>1, <1>2, <1>6, <2>1 DEF TypeOK
  <2>3. AtLink(t) /\ cur[t] = v /\ ~Done /\ This.hold
    BY <1>1, <2>2 DEF HeldBy
  <2> QED BY <1>6, <2>1, <2>3 DEF AtLink
<1>7. CASE s = t /\ Leave(t)
  BY <1>1, <1>2, <1>7 DEF Leave
<1>8. CASE /\ s = t
           /\ \/ Claim(t) \/ Skip(t) \/ Enter(t) \/ Expand(t) \/ Pick(t)
              \/ LinkKnown(t) \/ LinkBack(t) \/ Full(t)
  <2>1. lock[v] = t /\ ~Writing(t)
    BY <1>2, <1>8 DEF Claim, Skip, Take, Enter, Expand, Pick, LinkKnown, LinkBack, Full,
                      NextLink, Writing
  <2>2. AtLink(t) /\ cur[t] = v /\ ~Done /\ This.hold
    BY <1>1, <2>1 DEF HeldBy
  <2>3. cur' = cur /\ pc'[t] \in {"pick", "link", "offer"}
    BY <1>1, <1>8, <2>2 DEF Claim, Skip, Take, Enter, Expand, Pick, LinkKnown, LinkBack,
                            Full, NextLink, AtLink, TypeOK
  <2> QED BY <1>8, <2>2, <2>3 DEF AtLink
<1> QED BY <1>3, <1>4, <1>5, <1>6, <1>7, <1>8 DEF Insert

LEMMA NextHeld ==
  ASSUME IInv, Guarded, Held, [Next]_vars
  PROVE  Held'
<1>1. TypeOK
  BY DEF IInv
<1>2. CASE \E t \in Thread : Insert(t)
  <2>1. PICK t \in Thread : Insert(t)
    BY <1>2
  <2>2. \A v \in Node : HeldBy(v)'
    BY <2>1, HeldStep
  <2>3. ASSUME NEW s \in Thread, pc'[s] = "own" PROVE This.hold
    <3>1. CASE s = t
      BY <1>1, <2>1, <2>3, <3>1 DEF Insert, Claim, Skip, Take, Enter, Expand, BeginPrune,
         EndPrune, Rewrite, TakeOwn, Pick, Leave, LinkKnown, LinkBack, Full, BeginOffer,
         EndOffer, NextLink, TypeOK, Held
    <3>2. CASE s # t
      BY <2>1, <2>3, <3>2, OthersAsBefore DEF Others, Held
    <3> QED BY <3>1, <3>2
  <2>4. This' = This
    BY <2>1, NextOrSame DEF This
  <2>5. (\A v \in Node : HeldBy(v))' /\ (\A s \in Thread : pc[s] = "own" => This.hold)'
    BY <2>2, <2>3, <2>4
  <2> QED BY <2>5 DEF Held
<1>3. CASE NextPass
  <2>1. \A t \in Thread : pc[t] = "idle" /\ ~Writing(t) /\ ~AtLink(t)
    BY <1>3 DEF NextPass, Writing, AtLink
  <2>2. \A v \in Node, t \in Thread : lock'[v] # t
    BY <1>3, <2>1 DEF Held, HeldBy, NextPass
  <2>3. \A t \in Thread : pc'[t] # "own"
    BY <1>3, <2>1 DEF NextPass
  <2>4. (\A v \in Node : HeldBy(v))' /\ (\A s \in Thread : pc[s] = "own" => This.hold)'
    BY <2>2, <2>3 DEF HeldBy
  <2> QED BY <2>4 DEF Held
<1>4. CASE UNCHANGED vars
  BY <1>4 DEF vars, Held, HeldBy, Writing, Site, AtLink, Done, This
<1> QED BY <1>2, <1>3, <1>4 DEF Next, Terminated

-----------------------------------------------------------------------------
(* Who waits for a thread that links waits for its vertex.                 *)
LEMMA WaiterLinks ==
  ASSUME IInv, Held, NEW t \in Thread, NEW u \in Thread,
         WaitsFor(t, u), ~Writing(u)
  PROVE  /\ AtLink(u) /\ cur[u] \in Node /\ Wants(t, cur[u])
         /\ ~Done /\ This.hold
BY DEF WaitsFor, Held, HeldBy

LEMMA NoneWaitsRound ==
  ASSUME FirstLayer, IInv, WaitInv, pass = 1, Held,
         NEW S \in SUBSET Thread, S # {}
  PROVE  \E t \in S : \A u \in S : ~WaitsFor(t, u)
<1>1. SUFFICES ASSUME \A t \in S : \E u \in S : WaitsFor(t, u) PROVE FALSE
  OBVIOUS
<1>2. \A t \in S : ~Writing(t)
  BY <1>1 DEF WaitsFor, Wants, Writing
<1>3. ASSUME NEW t \in S
      PROVE  \E u \in S : /\ AtLink(u) /\ Busy(u) /\ cur[u] \in Node /\ Wants(t, cur[u])
  <2>1. PICK u \in S : WaitsFor(t, u)
    BY <1>1
  <2> QED BY <1>2, <2>1, WaiterLinks DEF AtLink, Busy
<1>4. ASSUME NEW t \in S, AtLink(t), cur[t] \in Node
      PROVE  \E u \in S : /\ AtLink(u) /\ cur[u] \in Node
                          /\ \E k \in DOMAIN adj[cur[t]] :
                               k >= index[t] /\ cur[u] = adj[cur[t]][k]
                          /\ cur[t] # Entry[cur[t]] => cur[u] = Entry[cur[u]]
  <2>1. PICK u \in S : AtLink(u) /\ Busy(u) /\ cur[u] \in Node /\ Wants(t, cur[u])
    BY <1>3
  <2>2. cur[u] = target[t] /\ Linking(t)
    BY <1>4, <2>1 DEF Wants, AtLink, Linking
  <2>3. /\ index[t] \in DOMAIN adj[cur[t]] /\ cur[u] = adj[cur[t]][index[t]]
        /\ index[t] >= index[t]
    BY <2>2 DEF WaitInv, AtTarget, IInv, TypeOK
  <2>4. cur[t] # Entry[cur[t]] => Passive(cur[u])
    BY <1>4, <2>3 DEF WaitInv, LinksPassive
  <2> QED BY <2>1, <2>3, <2>4 DEF Passive, Settled
<1>5. PICK t \in S : AtLink(t) /\ cur[t] \in Node /\ cur[t] = Entry[cur[t]]
  <2>1. PICK t \in S : AtLink(t) /\ cur[t] \in Node
    BY <1>3
  <2> QED BY <1>4, <2>1
<1>6. PICK u \in S : /\ AtLink(u) /\ cur[u] \in Node
                     /\ \E k \in DOMAIN adj[cur[t]] : cur[u] = adj[cur[t]][k]
  BY <1>4, <1>5
<1>7. cur[u] \in Elems(adj[cur[t]]) /\ cur[u] # cur[t] /\ Entry[cur[u]] = cur[t]
  <2>1. IsList(pass, cur[t], adj[cur[t]])
    BY <1>5 DEF IInv, Lists
  <2>2. Companion(pass, cur[t], cur[u])
    BY <1>5, <1>6, <2>1 DEF IsList, IsWellFormed, Companion
  <2> QED BY <1>5, <1>6, <2>2, FirstLoop DEF Elems, Companion
<1>8. PICK w \in S : /\ cur[w] \in Node /\ cur[w] = Entry[cur[w]]
                     /\ \E k \in DOMAIN adj[cur[u]] :
                          k >= index[u] /\ cur[w] = adj[cur[u]][k]
  BY <1>4, <1>6, <1>7
<1>9. Entry[cur[w]] = Entry[cur[u]]
  <2>1. IsList(pass, cur[u], adj[cur[u]])
    BY <1>6 DEF IInv, Lists
  <2>2. Companion(pass, cur[u], cur[w])
    BY <1>6, <1>8, <2>1 DEF IsList, IsWellFormed, Companion
  <2> QED BY <1>6, <1>8, <2>2, FirstLoop
<1>10. cur[w] = cur[t]
  BY <1>7, <1>8, <1>9
<1> QED BY <1>5, <1>6, <1>7, <1>8, <1>10 DEF WaitInv, LinksPassive

(* However many threads build a layer, they never wait for each other in a *)
(* round: in the first loop of the first layer, what a vertex links to has *)
(* released its own mutex, or is the entry vertex, and then does not link  *)
(* to it; no other loop holds one mutex while it takes another.            *)
THEOREM NoCircularWaitCorrect == OnlyFirstHolds => (Spec => []NoCircularWait)
<1> SUFFICES ASSUME OnlyFirstHolds PROVE Spec => []NoCircularWait
  OBVIOUS
<1>1. Init => WaitInv /\ Held
  BY InitWaitInv, LayerAssumption DEF Init, Held, HeldBy
<1>2. IInv /\ IInv' /\ Guarded /\ WaitInv /\ Held /\ [Next]_vars => WaitInv' /\ Held'
  BY NextWaitInv, NextHeld
<1>3. IInv /\ WaitInv /\ Held => NoCircularWait
  <2> SUFFICES ASSUME IInv, WaitInv, Held, NEW S \in SUBSET Thread, S # {}
               PROVE  \E t \in S : \A u \in S : ~WaitsFor(t, u)
    BY DEF NoCircularWait
  <2>1. CASE FirstLayer /\ pass = 1
    BY <2>1, NoneWaitsRound
  <2>2. CASE ~(FirstLayer /\ pass = 1)
    <3>1. SUFFICES ASSUME \A t \in S : \E u \in S : WaitsFor(t, u) PROVE FALSE
      OBVIOUS
    <3>2. \A t \in S : ~Writing(t)
      BY <3>1 DEF WaitsFor, Wants, Writing
    <3>3. ~Done /\ This.hold
      BY <3>1, <3>2, WaiterLinks
    <3>4. pass \in DOMAIN Passes
      BY <3>3, LayerAssumption DEF IInv, TypeOK, Done
    <3> QED BY <2>2, <3>3, <3>4 DEF OnlyFirstHolds, This
  <2> QED BY <2>1, <2>2
<1> QED BY <1>1, <1>2, <1>3, InitGuarded, InitIInv, NextIInv, NextGuarded, PTL DEF Spec
=============================================================================
