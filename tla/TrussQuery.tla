----------------------------- MODULE TrussQuery -----------------------------
(***************************************************************************)
(* The truss query of the VAC baseline (VAC.h), on what the index returned *)
(* or, without it, on the component of the query.  Truss_Test_Prune        *)
(* (decomposition.h, Judge_K_Truss) removes edges of low support first;    *)
(* then the vertices are deleted, farthest first, each with a cascade of   *)
(* edges that lose their support, until the query has lost its truss.      *)
(* A query has its data to itself.  An edge is the pair of its ends, the   *)
(* smaller one first: the order of pairs is that of edge ids.              *)
(***************************************************************************)
EXTENDS Integers, Sequences, FiniteSets

CONSTANTS
  Vertex,  \* the vertices (cnns ids)
  Inputs   \* the queries considered: the graph, the trussness asked for, the
           \* vertices to start from, and whether these are CNNS_res

ASSUME QueryAssumption ==
  /\ IsFiniteSet(Vertex) /\ Vertex \subseteq Nat
  /\ Inputs \subseteq [adj : [Vertex -> SUBSET Vertex], queryID : Vertex,
                       req_trussness : Nat, start : SUBSET Vertex,
                       withIndex : BOOLEAN, dist : [Vertex -> Nat]]
  /\ \A g \in Inputs :
       /\ g.req_trussness >= 2 /\ g.queryID \in g.start
       /\ \A u, v \in Vertex :
            v \in g.adj[u] => u # v /\ u \in g.adj[v]

Edge == {e \in Vertex \X Vertex : e[1] < e[2]}
Side(u, w) == IF u < w THEN <<u, w>> ELSE <<w, u>>
Ends(e) == {e[1], e[2]}

(* The third vertices of the triangles on e whose edges are all in E.      *)
Apexes(e, E) == {w \in Vertex \ Ends(e) : Side(e[1], w) \in E /\ Side(e[2], w) \in E}
Triangles(e, E) == Cardinality(Apexes(e, E))

VARIABLES
  input,    \* the query
  pc,
  sup,      \* the support of the edges, first of trussDecomp, then of
            \* cur_truss (support); deleted there is -1
  queue,    \* need_del of Judge_K_Truss
  left,     \* the triangles of its first edge that are still to be visited
  pending,  \* need_del_edge: its edges are taken in any order here
  ind_Vert,
  need_del, \* the vertex that is being deleted
  answer

vars == <<input, pc, sup, queue, left, pending, ind_Vert, need_del, answer>>

adj == input.adj
queryID == input.queryID
min_sup == input.req_trussness - 2

NoVertex == -1
Deleted == -1
Live == {e \in DOMAIN sup : sup[e] # Deleted}

(* The edges of the graph that S induces, and their supports.              *)
Induced(S) == {e \in Edge : Ends(e) \subseteq S /\ e[2] \in adj[e[1]]}
support_init(E) == [e \in E |-> Triangles(e, E)]

Init ==
  /\ input \in Inputs
  /\ pc = "begin"
  /\ sup = support_init({}) /\ queue = << >> /\ left = {} /\ pending = {}
  /\ ind_Vert = {} /\ need_del = NoVertex /\ answer = {}

-----------------------------------------------------------------------------
(* Truss_Test_Prune_Speedup: vertices with few neighbours are left out     *)
(* once; Judge_K_Truss starts with the edges of low support, by their ids. *)
Survivors ==
  {v \in input.start : Cardinality(adj[v] \cap input.start) >= input.req_trussness - 1}

Before(e, f) == e[1] < f[1] \/ (e[1] = f[1] /\ e[2] < f[2])
InOrder(S) ==
  {s \in [1 .. Cardinality(S) -> S] :
     \A i, j \in DOMAIN s : i < j => Before(s[i], s[j])}

Judges ==
  /\ Cardinality(Survivors) >= input.req_trussness - 1
  /\ queryID \in Survivors

Judge ==
  /\ pc = "begin" /\ input.withIndex /\ Judges
  /\ sup' = support_init(Induced(Survivors))
  /\ \E s \in InOrder({e \in DOMAIN sup' : sup'[e] < min_sup}) : queue' = s
  /\ pc' = "judge"
  /\ UNCHANGED <<input, left, pending, ind_Vert, need_del, answer>>

Refuse ==
  /\ pc = "begin" /\ input.withIndex /\ ~Judges
  /\ pc' = "done"
  /\ UNCHANGED <<input, sup, queue, left, pending, ind_Vert, need_del, answer>>

(* Del_Edge.  cur_adj holds the larger neighbours only, so that only the   *)
(* triangles of which the edge is the smallest are found.                  *)
Above(e) == {w \in Apexes(e, DOMAIN sup) : w > e[2]}

DelEdge ==
  /\ pc = "judge" /\ queue # << >>
  /\ sup' = [sup EXCEPT ![Head(queue)] = 0]
  /\ left' = Above(Head(queue))
  /\ pc' = "triangles"
  /\ UNCHANGED <<input, queue, pending, ind_Vert, need_del, answer>>

Lowered(n) == IF n = min_sup THEN 0 ELSE n - 1

(* Where edge2 falls below min_sup, it is edge1 that is queued.            *)
Triangle ==
  /\ pc = "triangles"
  /\ \E w \in left :
       /\ \A x \in left : w <= x
       /\ LET edge1 == Side(Head(queue)[1], w)
              edge2 == Side(Head(queue)[2], w)
          IN  /\ sup' = [sup EXCEPT ![edge1] = Lowered(@), ![edge2] = Lowered(@)]
              /\ queue' = queue \o (IF sup[edge1] = min_sup THEN <<edge1>> ELSE << >>)
                                \o (IF sup[edge2] = min_sup THEN <<edge1>> ELSE << >>)
       /\ left' = left \ {w}
  /\ UNCHANGED <<input, pc, pending, ind_Vert, need_del, answer>>

Pop ==
  /\ pc = "triangles" /\ left = {}
  /\ queue' = Tail(queue)
  /\ pc' = "judge"
  /\ UNCHANGED <<input, sup, left, pending, ind_Vert, need_del, answer>>

nodes_in_truss == UNION {Ends(e) : e \in {f \in DOMAIN sup : sup[f] >= min_sup}}

JudgedOut ==
  /\ pc = "judge" /\ queue = << >> /\ queryID \notin nodes_in_truss
  /\ pc' = "done"
  /\ UNCHANGED <<input, sup, queue, left, pending, ind_Vert, need_del, answer>>

-----------------------------------------------------------------------------
(* VAC_Query_Truss_General on the graph that the vertices induce.          *)
Induce(S) ==
  /\ ind_Vert' = S
  /\ sup' = support_init(Induced(S))
  /\ pc' = "round"
  /\ UNCHANGED <<input, queue, left, pending, need_del, answer>>

JudgedIn ==
  /\ pc = "judge" /\ queue = << >> /\ queryID \in nodes_in_truss
  /\ Induce(nodes_in_truss)

WithoutIndex == pc = "begin" /\ ~input.withIndex /\ Induce(input.start)

(* The top of dist_heap that is still in ind_Vert.                         *)
Farthest ==
  CHOOSE v \in ind_Vert : \A u \in ind_Vert :
    input.dist[u] < input.dist[v] \/ (input.dist[u] = input.dist[v] /\ u <= v)

Incident(v) == {e \in DOMAIN sup : v \in Ends(e)}

\* Mutant: the oriented lists of cur_truss are taken for ind_adj.
AboveOnly(v) == {e \in DOMAIN sup : v = e[1]}
EdgesOf(v) == Incident(v)

Del_Node ==
  /\ pc = "round" /\ ind_Vert # {}
  /\ need_del' = Farthest
  /\ pending' = EdgesOf(Farthest)
  /\ pc' = "cascade"
  /\ UNCHANGED <<input, sup, queue, left, ind_Vert, answer>>

(* Del_Edge_Truss, one edge of the queue.  A triangle that has lost an     *)
(* edge before is not counted again.                                       *)
\* Mutant: every triangle of the graph is counted.
WholeAnyway(e) == Apexes(e, DOMAIN sup)
Whole(e) == Apexes(e, Live)
Others(e) == UNION {{Side(e[1], w), Side(e[2], w)} : w \in Whole(e)}

\* Mutant: >= for > .
SparesLast(f) == sup[f] >= min_sup
\* Mutant: trussness - 1 for trussness - 2.
SparesFew(f) == sup[f] > min_sup + 1
Spares(f) == sup[f] > min_sup
Falls(f) == ~Spares(f) /\ sup[f] > 0

Skip(e) ==
  /\ pc = "cascade" /\ e \in pending \ Live
  /\ pending' = pending \ {e}
  /\ UNCHANGED <<input, pc, sup, queue, left, ind_Vert, need_del, answer>>

Del_Edge_Truss(e) ==
  /\ pc = "cascade" /\ e \in pending \cap Live
  /\ sup' = [f \in DOMAIN sup |->
               IF f = e THEN Deleted
               ELSE IF f \in Others(e) /\ Spares(f) THEN sup[f] - 1 ELSE sup[f]]
  /\ pending' = (pending \ {e}) \cup {f \in Others(e) : Falls(f)}
  /\ UNCHANGED <<input, pc, queue, left, ind_Vert, need_del, answer>>

(* query_trussness >= req_trussness.                                       *)
\* Mutant: > for >= .
HoldsMore == \E e \in Incident(queryID) : sup[e] > min_sup
Holds == \E e \in Incident(queryID) : sup[e] >= min_sup

Remaining == ind_Vert \ {need_del}

Erase ==
  /\ pc = "cascade" /\ pending = {} /\ Holds
  /\ ind_Vert' = Remaining
  /\ pc' = "round"
  /\ UNCHANGED <<input, sup, queue, left, pending, need_del, answer>>

Stop ==
  /\ pc = "cascade" /\ pending = {} /\ ~Holds
  /\ answer' = ind_Vert
  /\ pc' = "done"
  /\ UNCHANGED <<input, sup, queue, left, pending, ind_Vert, need_del>>

Terminated == pc = "done" /\ UNCHANGED vars

Next ==
  \/ Judge \/ Refuse \/ DelEdge \/ Triangle \/ Pop \/ JudgedOut \/ JudgedIn
  \/ WithoutIndex \/ Del_Node \/ Erase \/ Stop \/ Terminated
  \/ \E e \in DOMAIN sup : Skip(e) \/ Del_Edge_Truss(e)

Spec == Init /\ [][Next]_vars /\ WF_vars(Next)
-----------------------------------------------------------------------------
TypeOK ==
  /\ input \in Inputs
  /\ pc \in {"begin", "judge", "triangles", "round", "cascade", "done"}
  /\ DOMAIN sup \subseteq Edge /\ sup \in [DOMAIN sup -> Int]
  /\ queue \in Seq(Edge)
  /\ left \in SUBSET Vertex /\ pending \in SUBSET DOMAIN sup
  /\ ind_Vert \in SUBSET Vertex /\ need_del \in Vertex \cup {NoVertex}
  /\ answer \in SUBSET Vertex

Querying == pc \in {"round", "cascade"}

(* A cascade keeps the books: the support of an edge that is not waiting   *)
(* for its deletion is the number of its triangles that are left, however  *)
(* the deletions of the edges of one triangle follow each other.           *)
SupportCounts ==
  Querying => \A e \in Live \ pending : sup[e] = Triangles(e, Live)

(* Every edge of a set has the support that the trussness asks for.        *)
IsTruss(E) == \A e \in E : Triangles(e, E) >= min_sup
Largest(E) ==
  LET n == Cardinality(E)
      rest[k \in 0 .. n] ==
        IF k = 0 THEN E
        ELSE LET F == rest[k - 1] IN {e \in F : Triangles(e, F) >= min_sup}
  IN  rest[n]
Without(V) == {e \in DOMAIN sup : Ends(e) \cap V = {}}
Erased == {v \in UNION {Ends(e) : e \in DOMAIN sup} : v \notin ind_Vert}

(* The cascade takes no edge of the truss that remains without the deleted *)
(* vertices ...                                                            *)
TrussKept ==
  /\ pc = "cascade" => Largest(Without(Erased \cup {need_del})) \subseteq Live
  /\ pc = "round" => Largest(Without(Erased)) \subseteq Live

(* ... and leaves no edge that had support enough and lost it.             *)
EnoughLeft ==
  (pc = "round" \/ (pc = "cascade" /\ pending = {})) =>
    \A e \in Live :
      Triangles(e, DOMAIN sup) >= min_sup => Triangles(e, Live) >= min_sup

(* Of a truss, vertices are deleted as long as the query has a truss       *)
(* without them, and no longer: the query has one among the vertices that  *)
(* are returned, and none without the farthest of these.                   *)
StopsInTime ==
  (pc = "done" /\ answer # {} /\ IsTruss(DOMAIN sup) /\ Incident(queryID) # {}) =>
    /\ \E e \in Largest(Without(Erased)) : queryID \in Ends(e)
    /\ \A e \in Largest(Without(Erased \cup {need_del})) : queryID \notin Ends(e)

(* assert(ind_Vert.count(queryID)): the query itself is never erased,      *)
(* although it is deleted like any other vertex when its turn comes.  So   *)
(* ind_Vert is never empty, and the loop ends with the query's truss only. *)
QueryKept == Querying \/ answer # {} => queryID \in ind_Vert
=============================================================================
