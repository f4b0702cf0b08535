------------------------------ MODULE Listing ------------------------------
(***************************************************************************)
(* A finite set of integers in increasing order, as std::set iterates; a   *)
(* sequence, sorted; and the state a loop leaves after its iterations.     *)
(***************************************************************************)
EXTENDS Integers, SequencesExt

InOrder(S) ==
  [n \in 1 .. Cardinality(S) |-> CHOOSE x \in S : Cardinality({y \in S : y < x}) = n - 1]

(* A sequence of integers, as std::sort leaves it.                         *)
Ordered(s) ==
  LET Before(i) == {j \in DOMAIN s : s[j] < s[i] \/ (s[j] = s[i] /\ j < i)}
  IN  [n \in DOMAIN s |-> s[CHOOSE i \in DOMAIN s : Cardinality(Before(i)) = n - 1]]

(* A loop that has nothing left to do keeps its state.                     *)
Rounds(K, first, Step(_, _)) ==
  LET s[n \in 0 .. K] == IF n = 0 THEN first ELSE Step(n, s[n - 1])
  IN  s[K]
=============================================================================
