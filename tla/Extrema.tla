------------------------------ MODULE Extrema ------------------------------
(***************************************************************************)
(* Least and greatest elements of sets of naturals, and what is iterated,  *)
(* for the proofs.                                                         *)
(***************************************************************************)
EXTENDS Integers, FiniteSetTheorems, WellFoundedInduction, TLAPS

(* A nonempty set of naturals with an upper bound has a greatest element.  *)
LEMMA GreatestElement ==
  ASSUME NEW n \in Nat, NEW T \in SUBSET (0 .. n), T # {}
  PROVE  \E i \in T : \A j \in T : j <= i
<1> DEFINE U == {m \in 0 .. n : n - m \in T}
<1>1. U \subseteq Nat
  OBVIOUS
<1>2. U # {}
  <2>1. PICK i \in T : TRUE
    OBVIOUS
  <2>2. n - i \in U
    BY <2>1
  <2> QED BY <2>2
<1>3. \E x \in U : \A y \in U : ~(<<y, x>> \in OpToRel(<, Nat))
  BY <1>1, <1>2, NatLessThanWellFounded, WFMin
<1>4. PICK x \in U : \A y \in U : ~(<<y, x>> \in OpToRel(<, Nat))
  BY <1>3
<1>5. \A y \in U : ~(y < x)
  BY <1>1, <1>4 DEF OpToRel
<1>6. ASSUME NEW j \in T PROVE j <= n - x
  <2>1. n - j \in U
    BY <1>6
  <2>2. ~(n - j < x)
    BY <2>1, <1>5
  <2> QED BY <2>2, <1>1
<1> QED BY <1>6

(* Every nonempty set of naturals has a least element.                     *)
LEMMA LeastElement ==
  ASSUME NEW T \in SUBSET Nat, T # {}
  PROVE  \E i \in T : \A j \in T : i <= j
<1>1. PICK x \in T : \A y \in T : ~(<<y, x>> \in OpToRel(<, Nat))
  BY NatLessThanWellFounded, WFMin
<1>2. \A y \in T : ~(y < x)
  BY <1>1 DEF OpToRel
<1> QED BY <1>2
(* The values of a function on a finite set are finitely many.             *)
LEMMA FiniteImage ==
  ASSUME NEW S, IsFiniteSet(S), NEW f
  PROVE  IsFiniteSet({f[x] : x \in S})
<1> DEFINE T == {f[x] : x \in S}
<1> DEFINE g == [x \in S |-> f[x]]
<1>1. g \in Surjection(S, T)
  BY DEF Surjection
<1> QED BY <1>1, FS_Surjection

(* A nonempty finite set of naturals has a greatest element: the smallest  *)
(* one without would have a greatest once an element is removed.           *)
LEMMA FiniteHasGreatest ==
  ASSUME NEW S \in SUBSET Nat, IsFiniteSet(S), S # {}
  PROVE  \E i \in S : \A j \in S : j <= i
<1> DEFINE Topped(T) == \E i \in T : \A j \in T : j <= i
<1> DEFINE Bad == {n \in Nat : \E T \in SUBSET S :
                                 T # {} /\ Cardinality(T) = n /\ ~Topped(T)}
<1>1. CASE Bad = {}
  <2>1. Cardinality(S) \in Nat
    BY FS_CardinalityType
  <2> QED BY <1>1, <2>1
<1>2. CASE Bad # {}
  <2>1. PICK n \in Bad : \A m \in Bad : n <= m
    <3>1. Bad \in SUBSET Nat
      OBVIOUS
    <3> HIDE DEF Bad
    <3> QED BY <1>2, <3>1, LeastElement
  <2>2. PICK T \in SUBSET S : T # {} /\ Cardinality(T) = n /\ ~Topped(T)
    BY <2>1
  <2>3. PICK e \in T : TRUE
    BY <2>2
  <2>4. IsFiniteSet(T)
    BY FS_Subset
  <2>5. T \ {e} \in SUBSET S /\ Cardinality(T \ {e}) = n - 1 /\ n \in Nat
    BY <2>1, <2>2, <2>3, <2>4, FS_RemoveElement
  <2>6. Cardinality(T \ {e}) \in Nat
    BY <2>4, FS_RemoveElement, FS_CardinalityType
  <2>7. T \ {e} = {} \/ Topped(T \ {e})
    BY <2>1, <2>5, <2>6
  <2>8. CASE T \ {e} = {}
    <3>1. T = {e} /\ e \in Nat
      BY <2>3, <2>8
    <3> QED BY <2>2, <3>1
  <2>9. CASE Topped(T \ {e})
    <3>1. PICK i \in T \ {e} : \A j \in T \ {e} : j <= i
      BY <2>9
    <3>2. i \in Nat /\ e \in Nat /\ T \subseteq Nat
      BY <2>3, <3>1
    <3>3. CASE i <= e
      BY <2>2, <2>3, <3>1, <3>2, <3>3
    <3>4. CASE e <= i
      BY <2>2, <2>3, <3>1, <3>2, <3>4
    <3> QED BY <3>2, <3>3, <3>4
  <2> QED BY <2>7, <2>8, <2>9
<1> QED BY <1>1, <1>2

(* A function from sets to sets can be iterated any number of times.       *)
Iterate(K, A, F, w) == w = [n \in 0 .. K |-> IF n = 0 THEN A ELSE F[w[n - 1]]]

LEMMA Iterates ==
  ASSUME NEW K \in Nat, NEW A, NEW F
  PROVE  \E w : Iterate(K, A, F, w)
<1> DEFINE Bad == {k \in Nat : ~\E w : Iterate(k, A, F, w)}
<1>1. CASE Bad = {}
  BY <1>1
<1>2. CASE Bad # {}
  <2>1. PICK k \in Bad : \A j \in Bad : k <= j
    <3>1. Bad \in SUBSET Nat
      OBVIOUS
    <3> HIDE DEF Bad
    <3> QED BY <1>2, <3>1, LeastElement
  <2>2. k \in Nat
    OBVIOUS
  <2>3. CASE k = 0
    <3>1. Iterate(0, A, F, [n \in 0 .. 0 |-> A])
      BY DEF Iterate
    <3> QED BY <2>3, <3>1
  <2>4. CASE k # 0
    <3>1. k - 1 \in Nat /\ ~(k <= k - 1)
      BY <2>2, <2>4
    <3>2. k - 1 \notin Bad
      BY <2>1, <3>1
    <3>3. PICK w : Iterate(k - 1, A, F, w)
      BY <3>1, <3>2
    <3>4. w = [n \in 0 .. (k - 1) |-> IF n = 0 THEN A ELSE F[w[n - 1]]]
      BY <3>3 DEF Iterate
    <3> DEFINE x == [n \in 0 .. k |-> IF n = k THEN F[w[k - 1]] ELSE w[n]]
    <3>5. ASSUME NEW n \in 0 .. k
          PROVE  x[n] = IF n = 0 THEN A ELSE F[x[n - 1]]
      <4>1. CASE n = k
        <5>1. x[n] = F[w[k - 1]] /\ n # 0
          BY <2>4, <4>1
        <5>2. n - 1 \in 0 .. k /\ n - 1 # k
          BY <2>2, <2>4, <4>1
        <5>3. x[n - 1] = w[k - 1]
          BY <4>1, <5>2
        <5> QED BY <5>1, <5>3
      <4>2. CASE n # k
        <5>1. n \in 0 .. (k - 1) /\ x[n] = w[n]
          BY <2>2, <4>2
        <5>2. w[n] = IF n = 0 THEN A ELSE F[w[n - 1]]
          BY <3>4, <5>1
        <5>3. CASE n = 0
          BY <5>1, <5>2, <5>3
        <5>4. CASE n # 0
          <6>1. n - 1 \in 0 .. k /\ n - 1 # k
            BY <2>2, <5>1, <5>4
          <6>2. x[n - 1] = w[n - 1]
            BY <6>1
          <6> QED BY <5>1, <5>2, <5>4, <6>2
        <5> QED BY <5>3, <5>4
      <4> QED BY <4>1, <4>2
    <3>6. x = [n \in 0 .. k |-> IF n = 0 THEN A ELSE F[x[n - 1]]]
      <4>1. x = [n \in 0 .. k |-> x[n]]
        OBVIOUS
      <4> HIDE DEF x
      <4> QED BY <3>5, <4>1
    <3>7. Iterate(k, A, F, x)
      BY <3>6 DEF Iterate
    <3> QED BY <2>1, <3>7
  <2> QED BY <2>3, <2>4
<1> QED BY <1>1, <1>2

(* What an iteration keeps holds after every round.                        *)
LEMMA RoundsKeep ==
  ASSUME NEW K \in Nat, NEW A, NEW F, NEW w, Iterate(K, A, F, w), NEW P,
         A \in P, \A S \in P : F[S] \in P
  PROVE  \A n \in 0 .. K : w[n] \in P
<1> DEFINE Bad == {n \in 0 .. K : w[n] \notin P}
<1>1. CASE Bad = {}
  BY <1>1
<1>2. CASE Bad # {}
  <2>1. PICK n \in Bad : \A m \in Bad : n <= m
    <3>1. Bad \in SUBSET Nat
      OBVIOUS
    <3> HIDE DEF Bad
    <3> QED BY <1>2, <3>1, LeastElement
  <2>2. n \in 0 .. K /\ w[n] \notin P
    OBVIOUS
  <2>3. w[n] = IF n = 0 THEN A ELSE F[w[n - 1]]
    <3>1. w = [m \in 0 .. K |-> IF m = 0 THEN A ELSE F[w[m - 1]]]
      BY DEF Iterate
    <3> QED BY <2>2, <3>1
  <2>4. n # 0
    BY <2>2, <2>3
  <2>5. n - 1 \in 0 .. K /\ ~(n <= n - 1)
    BY <2>2, <2>4
  <2>6. n - 1 \notin Bad
    BY <2>1, <2>5
  <2>7. w[n - 1] \in P
    BY <2>5, <2>6
  <2> QED BY <2>2, <2>3, <2>4, <2>7
<1> QED BY <1>1, <1>2

(* The same where the step depends on the round.                           *)
Stepwise(K, P, A, F, w) ==
  w \in [0 .. K -> P] /\ w[0] = A /\ \A n \in 1 .. K : w[n] = F[<<n, w[n - 1]>>]

LEMMA StepsExist ==
  ASSUME NEW K \in Nat, NEW P, NEW A \in P, NEW F,
         \A n \in 1 .. K : \A S \in P : F[<<n, S>>] \in P
  PROVE  \E w : Stepwise(K, P, A, F, w)
<1> DEFINE Q == Nat \X P
<1> DEFINE H == [z \in Q |-> <<z[1] + 1, IF z[1] + 1 <= K THEN F[<<z[1] + 1, z[2]>>] ELSE A>>]
<1>1. \A z \in Q : H[z] \in Q
  <2> TAKE z \in Q
  <2>1. PICK i \in Nat, S \in P : z = <<i, S>>
    OBVIOUS
  <2>2. i + 1 <= K => F[<<i + 1, S>>] \in P
    OBVIOUS
  <2> QED BY <2>1, <2>2
<1>2. PICK x : Iterate(K, <<0, A>>, H, x)
  <2> HIDE DEF H
  <2> QED BY Iterates
<1>3. \A n \in 0 .. K : x[n] \in Q
  <2>1. <<0, A>> \in Q
    OBVIOUS
  <2> HIDE DEF H, Q
  <2> QED BY <1>1, <1>2, <2>1, RoundsKeep
<1>4. \A n \in 0 .. K : x[n] = IF n = 0 THEN <<0, A>> ELSE H[x[n - 1]]
  <2> HIDE DEF H
  <2>1. x = [n \in 0 .. K |-> IF n = 0 THEN <<0, A>> ELSE H[x[n - 1]]]
    BY <1>2 DEF Iterate
  <2> QED BY <2>1
<1>5. \A n \in 0 .. K : x[n][1] = n
  <2> DEFINE Bad == {n \in 0 .. K : x[n][1] # n}
  <2> SUFFICES ASSUME Bad # {} PROVE FALSE
    OBVIOUS
  <2>1. PICK n \in Bad : \A m \in Bad : n <= m
    <3>1. Bad \in SUBSET Nat
      OBVIOUS
    <3> HIDE DEF Bad
    <3> QED BY <3>1, LeastElement
  <2>2. n # 0
    <3> HIDE DEF H, Q
    <3> QED BY <1>4
  <2>3. n - 1 \in 0 .. K /\ ~(n <= n - 1)
    BY <2>2
  <2>4. x[n - 1][1] = n - 1 /\ x[n - 1] \in Q
    <3> HIDE DEF H, Q
    <3> QED BY <1>3, <2>1, <2>3
  <2>5. H[x[n - 1]][1] = x[n - 1][1] + 1
    BY <2>4
  <2>6. x[n] = H[x[n - 1]]
    <3> HIDE DEF H, Q
    <3> QED BY <1>4, <2>2
  <2> HIDE DEF H, Q
  <2>7. x[n][1] = n
    BY <2>4, <2>5, <2>6
  <2> QED BY <2>7
<1> DEFINE w == [n \in 0 .. K |-> x[n][2]]
<1>6. w \in [0 .. K -> P]
  <2>1. \A n \in 0 .. K : x[n][2] \in P
    BY <1>3
  <2> HIDE DEF H, Q
  <2> QED BY <2>1
<1>7. w[0] = A
  <2>1. x[0] = <<0, A>>
    <3> HIDE DEF H, Q
    <3> QED BY <1>4
  <2> HIDE DEF H, Q
  <2> QED BY <2>1
<1>8. ASSUME NEW n \in 1 .. K PROVE w[n] = F[<<n, w[n - 1]>>]
  <2>1. n - 1 \in 0 .. K /\ n \in 0 .. K /\ n # 0
    OBVIOUS
  <2>2. x[n] = H[x[n - 1]]
    <3> HIDE DEF H, Q
    <3> QED BY <1>4, <2>1
  <2>3. PICK S \in P : x[n - 1] = <<n - 1, S>>
    <3>1. x[n - 1] \in Q /\ x[n - 1][1] = n - 1
      <4> HIDE DEF H, Q
      <4> QED BY <1>3, <1>5, <2>1
    <3> QED BY <3>1
  <2>4. <<n - 1, S>> \in Q
    BY <2>1
  <2>5. H[<<n - 1, S>>] = <<(n - 1) + 1, F[<<(n - 1) + 1, S>>]>>
    BY <2>4
  <2> HIDE DEF H, Q
  <2>6. (n - 1) + 1 = n
    OBVIOUS
  <2>7. x[n][2] = F[<<n, S>>] /\ x[n - 1][2] = S
    BY <2>2, <2>3, <2>5, <2>6
  <2> QED BY <2>1, <2>7
<1> HIDE DEF w, H, Q
<1> QED BY <1>6, <1>7, <1>8 DEF Stepwise

(* A fold over a finite set takes an element after another, in the order   *)
(* in which CHOOSE gives them.                                             *)
AnyOf(s) == CHOOSE x \in s : TRUE
AllBut(s) == s \ {AnyOf(s)}
Folding(S, b, G, r) ==
  r = [s \in SUBSET S |-> IF s = {} THEN b ELSE G[<<AnyOf(s), r[AllBut(s)]>>]]

LEMMA OneLess ==
  ASSUME NEW s, IsFiniteSet(s), s # {}
  PROVE  /\ AnyOf(s) \in s
         /\ Cardinality(s) \in Nat /\ Cardinality(AllBut(s)) \in Nat
         /\ Cardinality(AllBut(s)) = Cardinality(s) - 1
<1>1. AnyOf(s) \in s
  BY DEF AnyOf
<1>2. Cardinality(AllBut(s)) = Cardinality(s) - 1 /\ IsFiniteSet(AllBut(s))
  BY <1>1, FS_RemoveElement DEF AllBut
<1> QED BY <1>1, <1>2, FS_CardinalityType

LEMMA FoldingExists ==
  ASSUME NEW S, IsFiniteSet(S), NEW b, NEW G
  PROVE  \E r : Folding(S, b, G, r)
<1> DEFINE Small(k) == {s \in SUBSET S : Cardinality(s) <= k}
<1> DEFINE Upto(k, r) ==
       r = [s \in Small(k) |-> IF s = {} THEN b ELSE G[<<AnyOf(s), r[AllBut(s)]>>]]
<1> DEFINE Bad == {k \in Nat : ~\E r : Upto(k, r)}
<1>1. \A s \in SUBSET S : IsFiniteSet(s) /\ Cardinality(s) \in Nat /\ AllBut(s) \in SUBSET S
  BY FS_Subset, FS_CardinalityType DEF AllBut
<1>2. Bad = {}
  <2> SUFFICES ASSUME Bad # {} PROVE FALSE
    OBVIOUS
  <2>1. PICK k \in Bad : \A j \in Bad : k <= j
    <3>1. Bad \in SUBSET Nat
      OBVIOUS
    <3> HIDE DEF Bad
    <3> QED BY <3>1, LeastElement
  <2>2. k \in Nat /\ ~\E r : Upto(k, r)
    OBVIOUS
  <2>3. \E w : k = 0 \/ Upto(k - 1, w)
    <3>1. CASE k = 0
      BY <3>1
    <3>2. CASE k # 0
      <4>1. k - 1 \in Nat /\ ~(k <= k - 1)
        BY <2>2, <3>2
      <4>2. k - 1 \notin Bad
        BY <2>1, <4>1
      <4> QED BY <4>1, <4>2
    <3> QED BY <3>1, <3>2
  <2>4. PICK w : k = 0 \/ Upto(k - 1, w)
    BY <2>3
  <2> DEFINE x == [s \in Small(k) |-> IF s = {} THEN b ELSE G[<<AnyOf(s), w[AllBut(s)]>>]]
  <2>5. ASSUME NEW s \in Small(k), s # {}
        PROVE  x[AllBut(s)] = w[AllBut(s)]
    <3>1. /\ Cardinality(s) \in Nat /\ Cardinality(s) <= k
          /\ Cardinality(AllBut(s)) \in Nat /\ Cardinality(AllBut(s)) = Cardinality(s) - 1
      BY <1>1, <2>5, OneLess
    <3>2. Cardinality(AllBut(s)) <= k - 1 /\ k # 0 /\ Cardinality(AllBut(s)) <= k
      BY <2>2, <3>1
    <3>3. AllBut(s) \in Small(k - 1) /\ AllBut(s) \in Small(k)
      BY <1>1, <3>2
    <3> HIDE DEF Small
    <3>4. w = [t \in Small(k - 1) |-> IF t = {} THEN b ELSE G[<<AnyOf(t), w[AllBut(t)]>>]]
      BY <2>4, <3>2
    <3> DEFINE t == AllBut(s)
    <3> HIDE DEF t
    <3>5. t \in Small(k - 1) /\ t \in Small(k)
      BY <3>3 DEF t
    <3>6. w[t] = IF t = {} THEN b ELSE G[<<AnyOf(t), w[AllBut(t)]>>]
      BY <3>4, <3>5
    <3>7. x[t] = IF t = {} THEN b ELSE G[<<AnyOf(t), w[AllBut(t)]>>]
      BY <3>5
    <3> QED BY <3>6, <3>7 DEF t
  <2>6. Upto(k, x)
    <3> HIDE DEF Small
    <3>1. \A s \in Small(k) :
            (IF s = {} THEN b ELSE G[<<AnyOf(s), w[AllBut(s)]>>])
              = (IF s = {} THEN b ELSE G[<<AnyOf(s), x[AllBut(s)]>>])
      <4> HIDE DEF x
      <4> QED BY <2>5
    <3>2. x = [s \in Small(k) |-> IF s = {} THEN b ELSE G[<<AnyOf(s), w[AllBut(s)]>>]]
      OBVIOUS
    <3> HIDE DEF x
    <3> QED BY <3>1, <3>2
  <2> HIDE DEF x, Upto
  <2> QED BY <2>2, <2>6
<1> DEFINE n == Cardinality(S)
<1>3. n \in Nat
  BY FS_CardinalityType
<1>4. PICK r : Upto(n, r)
  BY <1>2, <1>3
<1>5. Small(n) = SUBSET S
  BY FS_Subset
<1>6. r = [s \in SUBSET S |-> IF s = {} THEN b ELSE G[<<AnyOf(s), r[AllBut(s)]>>]]
  <2> HIDE DEF Small, n
  <2> QED BY <1>4, <1>5
<1> QED BY <1>6 DEF Folding

LEMMA FoldingKeeps ==
  ASSUME NEW S, IsFiniteSet(S), NEW b, NEW G, NEW r, Folding(S, b, G, r), NEW P,
         b \in P, \A x \in S, y \in P : G[<<x, y>>] \in P
  PROVE  \A s \in SUBSET S : r[s] \in P
<1> DEFINE Bad == {k \in Nat : \E s \in SUBSET S : Cardinality(s) = k /\ r[s] \notin P}
<1>1. \A s \in SUBSET S : IsFiniteSet(s) /\ Cardinality(s) \in Nat /\ AllBut(s) \in SUBSET S
  BY FS_Subset, FS_CardinalityType DEF AllBut
<1>2. CASE Bad # {}
  <2>1. PICK k \in Bad : \A j \in Bad : k <= j
    <3>1. Bad \in SUBSET Nat
      OBVIOUS
    <3> HIDE DEF Bad
    <3> QED BY <1>2, <3>1, LeastElement
  <2>2. PICK s \in SUBSET S : Cardinality(s) = k /\ r[s] \notin P
    OBVIOUS
  <2>3. r[s] = IF s = {} THEN b ELSE G[<<AnyOf(s), r[AllBut(s)]>>]
    BY DEF Folding
  <2>4. s # {}
    BY <2>2, <2>3
  <2>5. /\ AnyOf(s) \in S /\ Cardinality(AllBut(s)) \in Nat
        /\ ~(k <= Cardinality(AllBut(s))) /\ AllBut(s) \in SUBSET S
    BY <1>1, <2>2, <2>4, OneLess
  <2>6. Cardinality(AllBut(s)) \notin Bad
    BY <2>1, <2>5
  <2>7. r[AllBut(s)] \in P
    BY <2>5, <2>6
  <2> QED BY <2>2, <2>3, <2>4, <2>5, <2>7
<1>3. CASE Bad = {}
  BY <1>1, <1>3
<1> QED BY <1>2, <1>3

-----------------------------------------------------------------------------
(* Induction up to a bound.                                                *)
LEMMA Upward ==
  ASSUME NEW K \in Nat, NEW T, 0 \in T, \A n \in 1 .. K : n - 1 \in T => n \in T
  PROVE  \A n \in 0 .. K : n \in T
<1> DEFINE Bad == {n \in 0 .. K : n \notin T}
<1> SUFFICES ASSUME Bad # {} PROVE FALSE
  OBVIOUS
<1>1. PICK n \in Bad : \A m \in Bad : n <= m
  <2>1. Bad \in SUBSET Nat
    OBVIOUS
  <2> HIDE DEF Bad
  <2> QED BY <2>1, LeastElement
<1>2. n \in 0 .. K /\ n \notin T /\ n # 0
  OBVIOUS
<1>3. n \in 1 .. K /\ n - 1 \in 0 .. K /\ ~(n <= n - 1)
  BY <1>2
<1>4. n - 1 \notin Bad
  BY <1>1, <1>3
<1> QED BY <1>2, <1>3, <1>4

(* Steps exist that are defined only where an invariant holds: the set of  *)
(* pairs of a round and a state.                                           *)
StepsIn(K, J, A, F, w) ==
  /\ w = [n \in 0 .. K |-> IF n = 0 THEN A ELSE F[<<n, w[n - 1]>>]]
  /\ \A n \in 0 .. K : <<n, w[n]>> \in J

LEMMA StepsWithin ==
  ASSUME NEW K \in Nat, NEW J, NEW A, <<0, A>> \in J, NEW F,
         \A n \in 1 .. K : \A S : <<n - 1, S>> \in J => <<n, F[<<n, S>>]>> \in J
  PROVE  \E w : StepsIn(K, J, A, F, w)
<1> DEFINE P == {z[2] : z \in J}
           G == [z \in (1 .. K) \X P |-> IF <<z[1] - 1, z[2]>> \in J THEN F[z] ELSE A]
<1>1. A \in P
  OBVIOUS
<1>2. ASSUME NEW n \in 1 .. K, NEW S \in P
      PROVE  /\ G[<<n, S>>] \in P
             /\ <<n - 1, S>> \in J => G[<<n, S>>] = F[<<n, S>>]
  <2>1. G[<<n, S>>] = IF <<n - 1, S>> \in J THEN F[<<n, S>>] ELSE A
    OBVIOUS
  <2>2. CASE <<n - 1, S>> \in J
    <3>1. <<n, F[<<n, S>>]>> \in J
      BY <2>2
    <3>2. F[<<n, S>>] \in P
      BY <3>1
    <3> QED BY <2>1, <2>2, <3>2
  <2>3. CASE ~(<<n - 1, S>> \in J)
    BY <1>1, <2>1, <2>3
  <2> QED BY <2>2, <2>3
<1>3. PICK w : Stepwise(K, P, A, G, w)
  <2> HIDE DEF G, P
  <2> QED BY <1>1, <1>2, StepsExist
<1>4. w \in [0 .. K -> P] /\ w[0] = A /\ \A n \in 1 .. K : w[n] = G[<<n, w[n - 1]>>]
  BY <1>3 DEF Stepwise
<1> HIDE DEF G, P
<1>5. ASSUME NEW n \in 1 .. K, <<n - 1, w[n - 1]>> \in J
      PROVE  <<n, w[n]>> \in J /\ w[n] = F[<<n, w[n - 1]>>]
  <2>1. n - 1 \in 0 .. K
    OBVIOUS
  <2>2. w[n - 1] \in P
    BY <1>4, <2>1
  <2>3. w[n] = F[<<n, w[n - 1]>>]
    BY <1>2, <1>4, <1>5, <2>2
  <2> QED BY <1>5, <2>3
<1>6. \A n \in 0 .. K : <<n, w[n]>> \in J
  <2> DEFINE T == {n \in 0 .. K : <<n, w[n]>> \in J}
  <2>1. 0 \in T
    BY <1>4
  <2>2. ASSUME NEW n \in 1 .. K, n - 1 \in T PROVE n \in T
    <3>1. <<n - 1, w[n - 1]>> \in J
      BY <2>2
    <3>2. <<n, w[n]>> \in J
      BY <1>5, <3>1
    <3> QED BY <3>2
  <2>3. \A n \in 0 .. K : n \in T
    <3> HIDE DEF T
    <3> QED BY <2>1, <2>2, Upward
  <2> QED BY <2>3
<1>7. ASSUME NEW n \in 0 .. K
      PROVE  w[n] = IF n = 0 THEN A ELSE F[<<n, w[n - 1]>>]
  <2>1. CASE n = 0
    BY <1>4, <2>1
  <2>2. CASE n # 0
    <3>1. n \in 1 .. K /\ n - 1 \in 0 .. K
      BY <2>2
    <3> QED BY <1>5, <1>6, <2>2, <3>1
  <2> QED BY <2>1, <2>2
<1> QED BY <1>4, <1>6, <1>7 DEF StepsIn

-----------------------------------------------------------------------------
(* As many values as elements, when no value is taken twice.               *)
LEMMA ImageSize ==
  ASSUME NEW S, IsFiniteSet(S), NEW f,
         \A x, y \in S : f[x] = f[y] => x = y
  PROVE  IsFiniteSet({f[x] : x \in S}) /\ Cardinality({f[x] : x \in S}) = Cardinality(S)
<1> DEFINE T == {f[x] : x \in S}
           g == [x \in S |-> f[x]]
<1>1. g \in Bijection(S, T)
  <2>1. g \in Injection(S, T)
    BY DEF Injection, IsInjective
  <2>2. g \in Surjection(S, T)
    BY DEF Surjection
  <2> QED BY <2>1, <2>2 DEF Bijection
<1>2. ExistsBijection(S, T)
  BY <1>1 DEF ExistsBijection
<1> QED BY <1>2, FS_Bijection, FiniteImage

LEMMA DisjointSize ==
  ASSUME NEW S, IsFiniteSet(S), NEW T, IsFiniteSet(T), S \cap T = {}
  PROVE  Cardinality(S \cup T) = Cardinality(S) + Cardinality(T) /\ IsFiniteSet(S \cup T)
<1>1. IsFiniteSet(S \cup T)
      /\ Cardinality(S \cup T) = Cardinality(S) + Cardinality(T) - Cardinality(S \cap T)
  BY FS_Union
<1>2. Cardinality(S \cap T) = 0
  BY FS_EmptySet
<1>3. Cardinality(S) \in Nat /\ Cardinality(T) \in Nat
  BY FS_CardinalityType
<1> QED BY <1>1, <1>2, <1>3
=============================================================================
