---------------------------- MODULE TrussDecomp ----------------------------
(***************************************************************************)
(* The parallel truss decomposition of decomposition.h                     *)
(* (truss_decomposition::Parallel_K_Truss_Decomp): every edge e carries an *)
(* estimate h[e], first its support, and OpenMP threads replace h[e] by    *)
(* the h-index of the values its triangles contribute until a whole round  *)
(* changes nothing.  h and scheduled are read without synchronisation; the *)
(* critical sections cover only the writes, so each unsynchronised access  *)
(* is a step of its own here.                                              *)
(***************************************************************************)
EXTENDS Integers, FiniteSets

CONSTANTS
  Node,      \* vertex ids (CNODEID)
  NumEdges,  \* edge_num
  Ends,      \* edge_2_endpt: the two endpoints of each edge id
  Thread     \* the threads of the omp parallel for

EdgeId == 0 .. NumEdges - 1

ASSUME GraphAssumption ==
  /\ Node \subseteq Nat /\ IsFiniteSet(Node)
  /\ NumEdges \in Nat
  /\ Ends \in [EdgeId -> SUBSET Node]
  /\ \A e \in EdgeId : \E u, v \in Node : u # v /\ Ends[e] = {u, v}
  /\ \A e, f \in EdgeId : Ends[e] = Ends[f] => e = f   \* edge_map is a map

ASSUME ThreadAssumption == Thread # {}

(* The intersection of the endpoints' adjacency lists: the apex of each    *)
(* triangle on e.                                                          *)
Common == [e \in EdgeId |->
  {w \in Node \ Ends[e] : \A u \in Ends[e] : \E f \in EdgeId : Ends[f] = {u, w}}]

(* edge1 and edge2 of the triangle on e with apex w (Find_Edge).           *)
Sides(e, w) == {f \in EdgeId : \E u \in Ends[e] : Ends[f] = {u, w}}

(* The list N of the edges that share a triangle with e.                   *)
Near == [e \in EdgeId |-> UNION {Sides(e, w) : w \in Common[e]}]

(* The order in which N lists them: by apex, the side of ep1 before ep2's. *)
Apex(e, f) == CHOOSE w \in Ends[f] : w \notin Ends[e]
Hinge(e, f) == CHOOSE u \in Ends[f] : u \in Ends[e]
Precedes(e, f, g) ==
  \/ Apex(e, f) < Apex(e, g)
  \/ Apex(e, f) = Apex(e, g) /\ Hinge(e, f) <= Hinge(e, g)

AtLeastStrict(L, i) == {x \in DOMAIN L : L[x] > i}  \* mutant: wrong bucket
(* The largest i such that at least i entries of L are at least i.         *)
AtLeast(L, i) == {x \in DOMAIN L : L[x] >= i}
H_Index(L) ==
  CHOOSE i \in 0 .. Cardinality(DOMAIN L) :
    /\ Cardinality(AtLeast(L, i)) >= i
    /\ \A j \in 0 .. Cardinality(DOMAIN L) :
         Cardinality(AtLeast(L, j)) >= j => j <= i

(* The list L of e under the values g: the lower side of each triangle.    *)
Wings == [e \in EdgeId |-> [w \in Common[e] |-> Sides(e, w)]]
Lower(e, w, g) ==
  CHOOSE r \in {g[f] : f \in Wings[e][w]} : \A f \in Wings[e][w] : r <= g[f]
Contributions(e, g) == [w \in Common[e] |-> Lower(e, w, g)]

(* What one iteration of the loop body computes for e from the values g.   *)
Update(e, g) == H_Index(Contributions(e, g))

VARIABLES
  h,          \* the estimates; trussness is h + 2 at the end
  scheduled,  \* must e be recomputed in this round (or the next)?
  updated,    \* did some estimate change in this round?
  next,       \* first iteration of the round not yet handed to a thread
  done,       \* the while loop has ended
  pc,         \* per thread: where it is in the loop body
  edge,       \* per thread: its loop index e
  val,        \* per thread: the values of h it has read for e
  todo,       \* per thread: edges of N it has still to read or to notify
  hi          \* per thread: the h-index H it has computed

vars == <<h, scheduled, updated, next, done, pc, edge, val, todo, hi>>

NoValues == [f \in EdgeId |-> 0]

Init ==
  /\ h = [e \in EdgeId |-> Cardinality(Common[e])]
  /\ scheduled = [e \in EdgeId |-> TRUE]
  /\ updated = FALSE
  /\ next = 0
  /\ done = FALSE
  /\ pc = [t \in Thread |-> "idle"]
  /\ edge = [t \in Thread |-> 0]
  /\ val = [t \in Thread |-> NoValues]
  /\ todo = [t \in Thread |-> {}]
  /\ hi = [t \in Thread |-> 0]

-----------------------------------------------------------------------------
(* Definitions marked "mutant" break the definition that follows them; the *)
(* properties have to notice.                                              *)
Remaining == next < NumEdges

(* schedule(dynamic): an idle thread takes the next iteration.             *)
Claim(t) ==
  /\ pc[t] = "idle" /\ ~done /\ Remaining
  /\ edge' = [edge EXCEPT ![t] = next]
  /\ next' = next + 1
  /\ pc' = [pc EXCEPT ![t] = "test"]
  /\ UNCHANGED <<h, scheduled, updated, done, val, todo, hi>>

Skip(t) ==
  /\ pc[t] = "test" /\ ~scheduled[edge[t]]
  /\ pc' = [pc EXCEPT ![t] = "idle"]
  /\ edge' = [edge EXCEPT ![t] = 0]
  /\ UNCHANGED <<h, scheduled, updated, next, done, val, todo, hi>>

Start(t) ==
  /\ pc[t] = "test" /\ scheduled[edge[t]]
  /\ pc' = [pc EXCEPT ![t] = "read"]
  /\ todo' = [todo EXCEPT ![t] = Near[edge[t]]]
  /\ UNCHANGED <<h, scheduled, updated, next, done, edge, val, hi>>

(* Loads of std::min(h[edge1], h[edge2]), triangle by triangle; the two    *)
(* loads of one triangle come in either order.  std::min returns a         *)
(* reference, and the smaller one is loaded again: estimates only fall, so *)
(* this is the same as loading it last.                                    *)
Read(t, f) ==
  /\ pc[t] = "read" /\ f \in todo[t]
  /\ \A g \in todo[t] : Apex(edge[t], f) <= Apex(edge[t], g)
  /\ val' = [val EXCEPT ![t][f] = h[f]]
  /\ todo' = [todo EXCEPT ![t] = @ \ {f}]
  /\ UNCHANGED <<h, scheduled, updated, next, done, pc, edge, hi>>

(* H = H_Index(L) and the test h[e] != H: the lowered edge sets updated    *)
(* and goes on to notify N.                                                *)
NewValue(t) == Update(edge[t], val[t])

FindLower(t) ==
  /\ pc[t] = "read" /\ todo[t] = {} /\ NewValue(t) # h[edge[t]]
  /\ updated' = TRUE
  /\ hi' = [hi EXCEPT ![t] = NewValue(t)]
  /\ todo' = [todo EXCEPT ![t] = Near[edge[t]]]
  /\ val' = [val EXCEPT ![t] = NoValues]
  /\ pc' = [pc EXCEPT ![t] = "notify"]
  /\ UNCHANGED <<h, scheduled, next, done, edge>>

FindSame(t) ==
  /\ pc[t] = "read" /\ todo[t] = {} /\ NewValue(t) = h[edge[t]]
  /\ hi' = [hi EXCEPT ![t] = NewValue(t)]
  /\ val' = [val EXCEPT ![t] = NoValues]
  /\ pc' = [pc EXCEPT ![t] = "notify"]
  /\ UNCHANGED <<h, scheduled, updated, next, done, edge, todo>>

(* H < h[en] && h[en] <= h[e], two loads of h[en] outside the critical     *)
(* section: another thread may lower it between them ...                   *)
Pass(t, f) ==
  /\ pc[t] = "notify" /\ f \in todo[t]
  /\ \A g \in todo[t] : Precedes(edge[t], f, g)
  /\ hi[t] >= h[f]
  /\ todo' = [todo EXCEPT ![t] = @ \ {f}]
  /\ UNCHANGED <<h, scheduled, updated, next, done, pc, edge, val, hi>>

Higher(t, f) ==
  /\ pc[t] = "notify" /\ f \in todo[t]
  /\ \A g \in todo[t] : Precedes(edge[t], f, g)
  /\ hi[t] < h[f]
  /\ pc' = [pc EXCEPT ![t] = "compare"]
  /\ UNCHANGED <<h, scheduled, updated, next, done, edge, val, todo, hi>>

AffectedStrict(t, f) == h[f] < h[edge[t]]  \* mutant: not if the estimate is the same
Affected(t, f) == h[f] <= h[edge[t]]

Compare(t, f) ==
  /\ pc[t] = "compare" /\ f \in todo[t]
  /\ \A g \in todo[t] : Precedes(edge[t], f, g)
  /\ \/ /\ Affected(t, f)
        /\ pc' = [pc EXCEPT ![t] = "mark"] /\ todo' = todo
     \/ /\ ~Affected(t, f)
        /\ pc' = [pc EXCEPT ![t] = "notify"] /\ todo' = [todo EXCEPT ![t] = @ \ {f}]
  /\ UNCHANGED <<h, scheduled, updated, next, done, edge, val, hi>>

(* ... and scheduled[en] = true inside it.                                 *)
Mark(t, f) ==
  /\ pc[t] = "mark" /\ f \in todo[t]
  /\ \A g \in todo[t] : Precedes(edge[t], f, g)
  /\ scheduled' = [scheduled EXCEPT ![f] = TRUE]
  /\ todo' = [todo EXCEPT ![t] = @ \ {f}]
  /\ pc' = [pc EXCEPT ![t] = "notify"]
  /\ UNCHANGED <<h, updated, next, done, edge, val, hi>>

(* The last critical section: h[e] = H, scheduled[e] = false.              *)
Commit(t) ==
  /\ pc[t] = "notify" /\ todo[t] = {}
  /\ h' = [h EXCEPT ![edge[t]] = hi[t]]
  /\ scheduled' = [scheduled EXCEPT ![edge[t]] = FALSE]
  /\ pc' = [pc EXCEPT ![t] = "idle"]
  /\ edge' = [edge EXCEPT ![t] = 0]
  /\ hi' = [hi EXCEPT ![t] = 0]
  /\ UNCHANGED <<updated, next, done, val, todo>>

-----------------------------------------------------------------------------
(* The barrier at the end of the parallel for, then while (updated).       *)
RoundOver == next = NumEdges /\ ~done /\ \A t \in Thread : pc[t] = "idle"

ConvergedAtOnce == TRUE  \* mutant: one round only
Converged == ~updated

NextRoundNoReset ==  \* mutant: updated is not cleared
  /\ RoundOver /\ ~Converged
  /\ next' = 0
  /\ UNCHANGED <<h, scheduled, updated, done, pc, edge, val, todo, hi>>

NextRound ==
  /\ RoundOver /\ ~Converged
  /\ updated' = FALSE
  /\ next' = 0
  /\ UNCHANGED <<h, scheduled, done, pc, edge, val, todo, hi>>

Finish ==
  /\ RoundOver /\ Converged
  /\ done' = TRUE
  /\ UNCHANGED <<h, scheduled, updated, next, pc, edge, val, todo, hi>>

(* After the loop: trussness and node_trussness, filled sequentially.      *)
trussness == [e \in EdgeId |-> h[e] + 2]
Incident(v) == {e \in EdgeId : v \in Ends[e]}
node_trussness == [v \in Node |->
  CHOOSE m \in {2} \cup {trussness[e] : e \in Incident(v)} :
    \A e \in Incident(v) : trussness[e] <= m]

Terminated == done /\ UNCHANGED vars

Body(t) ==
  \/ Claim(t) \/ Skip(t) \/ Start(t)
  \/ \E f \in EdgeId : Read(t, f) \/ Pass(t, f) \/ Higher(t, f) \/ Compare(t, f) \/ Mark(t, f)
  \/ FindLower(t) \/ FindSame(t) \/ Commit(t)

Next == (\E t \in Thread : Body(t)) \/ NextRound \/ Finish \/ Terminated

Spec == Init /\ [][Next]_vars

(* OpenMP runs every thread of the team to the barrier and past it.        *)
FairSpec ==
  /\ Spec
  /\ \A t \in Thread : WF_vars(Body(t))
  /\ WF_vars(NextRound \/ Finish)
-----------------------------------------------------------------------------
(* A set S of edges is a (k+2)-truss when each of its edges lies on at     *)
(* least k triangles of S; Kappa[e] is the largest k whose truss has e.    *)
IsTruss(S, k) ==
  \A e \in S : Cardinality({w \in Common[e] : Sides(e, w) \subseteq S}) >= k
InTruss(e, k) == \E S \in SUBSET EdgeId : e \in S /\ IsTruss(S, k)
Kappa == [e \in EdgeId |->
  CHOOSE k \in 0 .. Cardinality(Node) :
    /\ InTruss(e, k)
    /\ \A j \in 0 .. Cardinality(Node) : InTruss(e, j) => j <= k]

(* Each variable has its type, and a thread inside the body holds an edge  *)
(* that was handed out.                                                    *)
TypeOK ==
  /\ h \in [EdgeId -> Nat]
  /\ scheduled \in [EdgeId -> BOOLEAN]
  /\ updated \in BOOLEAN
  /\ next \in 0 .. NumEdges
  /\ done \in BOOLEAN
  /\ pc \in [Thread -> {"idle", "test", "read", "notify", "compare", "mark"}]
  /\ edge \in [Thread -> 0 .. NumEdges]
  /\ \A t \in Thread : pc[t] # "idle" => edge[t] \in 0 .. next - 1
  /\ val \in [Thread -> [EdgeId -> Nat]]
  /\ todo \in [Thread -> SUBSET EdgeId]
  /\ hi \in [Thread -> Nat]

(* However the threads interleave, no estimate falls below the true value: *)
(* peeling on stale reads can only be too cautious.                        *)
NeverBelow == \A e \in EdgeId : h[e] >= Kappa[e]

(* What the threads hold while they work: no two of them the same edge;    *)
(* loads that are out of date only upwards; and a pending value between a  *)
(* fresh recomputation and the estimate it is about to replace.            *)
Mixed(t) == [f \in EdgeId |-> IF f \in todo[t] THEN h[f] ELSE val[t][f]]
InFlight ==
  /\ \A t, u \in Thread :
       t # u /\ pc[t] # "idle" /\ pc[u] # "idle" => edge[t] # edge[u]
  /\ \A e \in EdgeId : Update(e, h) <= h[e]
  /\ \A t \in Thread : pc[t] = "read" =>
       /\ \A f \in Near[edge[t]] \ todo[t] : h[f] <= val[t][f]
       /\ Update(edge[t], Mixed(t)) <= h[edge[t]]
  /\ \A t \in Thread : pc[t] \in {"notify", "compare", "mark"} =>
       /\ Update(edge[t], h) <= hi[t]
       /\ Kappa[edge[t]] <= hi[t]
       /\ hi[t] <= h[edge[t]]

(* No step of any thread ever raises an estimate, although the value it    *)
(* writes was computed from loads made at different moments.               *)
NeverRaised == [][\A e \in EdgeId : h'[e] <= h[e]]_vars

(* The loop ends only when no edge is waiting to be recomputed.            *)
QuietAtEnd == done => \A e \in EdgeId : ~scheduled[e]

(* The result: trussness[e] is the largest k such that a k-truss has e,    *)
(* and a vertex has the largest trussness of its edges (2 without edges).  *)
Exact ==
  done =>
    /\ \A e \in EdgeId : trussness[e] = Kappa[e] + 2
    /\ \A v \in Node : \A k \in 3 .. Cardinality(Node) + 2 :
         k <= node_trussness[v] <=> \E e \in Incident(v) : Kappa[e] >= k - 2

(* A thread that nobody disturbs, numThreads = 1 or the others never given *)
(* an edge, computes that result: no change of an edge goes unnoticed.     *)
ExactAlone ==
  \A t \in Thread :
    [](\A u \in Thread \ {t} : pc[u] = "idle") => []Exact

(* The while loop ends, although an edge may be rescheduled many times.    *)
Termination == <>done
=============================================================================
