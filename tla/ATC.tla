--------------------------------- MODULE ATC ---------------------------------
(***************************************************************************)
(* The truss query of the ATC baseline (ATC.h) beside that of VAC.  It     *)
(* prunes as VAC does, from other vertices: what the index returned within *)
(* some hops, or those a greedy walk takes.  Then it deletes the vertices  *)
(* that share least with the query, several at a time, until the score of  *)
(* the rest falls; the last ones are then taken back.  Vertex is the layer *)
(* of the trussness asked for: others are passed over wherever one looks.  *)
(***************************************************************************)
EXTENDS TrussQuery, FiniteSetsExt, SequencesExt

CONSTANTS
  Queries,   \* the queries of ATC
  Epsilon    \* epsilon, <<n, m>> for n / m

(* The id before a query's is kept free for its second copy (Copy).  With  *)
(* a query without attributes, or a max_size below 2, the walk would take  *)
(* a candidate at place -1.                                                *)
ASSUME ATCAssumption ==
  /\ Epsilon[1] \in Nat /\ Epsilon[2] \in Nat \ {0}
  /\ \A q \in Queries :
       /\ q.adj \in [Vertex -> SUBSET Vertex] /\ q.queryID \in Vertex
       /\ q.req_trussness \in Nat /\ q.req_trussness >= 3 /\ q.max_size >= 2
       /\ IsFiniteSet(q.attr[q.queryID]) /\ q.attr[q.queryID] # {}
       /\ q.queryID - 1 \in Vertex /\ q.adj[q.queryID - 1] = {}
       /\ \A u, v \in Vertex : v \in q.adj[u] => u # v /\ u \in q.adj[v]

VARIABLES
  attr_cnt,   \* how many of ind_Vert have an attribute of the query
  max_score,  \* the score, a fraction as Epsilon
  need_del_l

atcVars == <<attr_cnt, max_score, need_del_l>>

-----------------------------------------------------------------------------
(* Get_Loc_Temp_Graph.  At hop d nothing is queued, but what the queue     *)
(* holds is expanded: it reaches d + 1 hops, and the query itself again.   *)
Get_Loc_Temp_Graph(q) ==
  LET hop[n \in 0 .. q.d + 1] ==
        IF n = 0 THEN {q.queryID} ELSE UNION {q.adj[v] : v \in hop[n - 1]}
  IN  UNION {hop[n] : n \in 1 .. q.d + 1}

(* Get_Loc_Temp_Graph_Size_Bounded.  Of the candidates of a hop, the first *)
(* of the greatest contribution joins, if this is not below the score of   *)
(* those that have joined; its neighbours are candidates of the next hop.  *)
(* The bound ends the hop, not the walk, and before the counting.          *)
Squares(cnt) == MapThenSumSet(LAMBDA a : cnt[a] * cnt[a], DOMAIN cnt)
Cal_Contri(q, v, cnt) == 2 * MapThenSumSet(LAMBDA a : cnt[a], q.attr[v] \cap DOMAIN cnt)
Listed(S) == SetToSortSeq(S, <)
NextHop(g) == [g EXCEPT !.hop = @ + 1, !.candi = g.next, !.next = << >>]

Walk(q, g) ==
  LET contri == [n \in DOMAIN g.candi |-> Cal_Contri(q, g.candi[n], g.keywords_cnt)]
      firsts == {n \in DOMAIN contri :
                   /\ contri[n] * Cardinality(g.res_graph) >= Squares(g.keywords_cnt)
                   /\ \A k \in DOMAIN contri :
                        contri[k] < contri[n] \/ (contri[k] = contri[n] /\ n <= k)}
  IN  IF g.hop > q.d THEN g
      ELSE IF firsts = {} THEN NextHop(g)
      ELSE LET max_node == g.candi[CHOOSE n \in firsts : TRUE]
               joined == g.res_graph \cup {max_node}
               fresh == q.adj[max_node] \ g.vis
           IN  IF Cardinality(joined) >= q.max_size
               THEN NextHop([g EXCEPT !.res_graph = joined])
               ELSE [g EXCEPT !.res_graph = joined, !.vis = @ \cup fresh,
                              !.candi = SelectSeq(@, LAMBDA v : v # max_node),
                              !.next = @ \o Listed(fresh),
                              !.keywords_cnt = [a \in DOMAIN @ |->
                                 @[a] + (IF a \in q.attr[max_node] THEN 1 ELSE 0)]]

\* Each of its steps is a vertex that joins or the next hop.
Get_Loc_Temp_Graph_Size_Bounded(q) ==
  LET steps == Cardinality(Vertex) + q.d + 1
      walk[n \in 0 .. steps] ==
        IF n = 0
        THEN [res_graph |-> {q.queryID}, vis |-> {q.queryID} \cup q.adj[q.queryID],
              candi |-> << >>, next |-> Listed(q.adj[q.queryID]), hop |-> 0,
              keywords_cnt |-> [a \in q.attr[q.queryID] |-> 1]]
        ELSE Walk(q, walk[n - 1])
  IN  walk[steps].res_graph

(* The vertices to start from.  With the index, the query is appended to   *)
(* what may hold it already.  Its second copy stands beside it in the      *)
(* order of the ids; it has the query's neighbours, and is nobody's.       *)
Copy(q) == q.queryID - 1
Returned(q) == q.CNNS_res \cap Get_Loc_Temp_Graph(q)
Start(q) ==
  IF ~q.withIndex THEN Get_Loc_Temp_Graph_Size_Bounded(q)
  ELSE Returned(q) \cup {q.queryID}
         \cup (IF q.queryID \in Returned(q) THEN {Copy(q)} ELSE {})

\* What TrussQuery prunes.
Given(q) ==
  [adj |-> [q.adj EXCEPT ![Copy(q)] = q.adj[q.queryID]], queryID |-> q.queryID,
   req_trussness |-> q.req_trussness, start |-> Start(q), withIndex |-> TRUE,
   attr |-> q.attr]

IsATC == "attr" \in DOMAIN input

ATCInit ==
  /\ \/ Init
     \/ /\ \E q \in Queries : input = Given(q)
        /\ pc = "begin"
        /\ sup = support_init({}) /\ queue = << >> /\ left = {} /\ pending = {}
        /\ ind_Vert = {} /\ need_del = NoVertex /\ answer = {}
  /\ attr_cnt = << >> /\ max_score = <<0, 1>> /\ need_del_l = {}

(* ATC_Query_Truss_Bulk_General.  Wq is the set of attributes that count.  *)
Wq == input.attr[queryID]
Counts(S) == [a \in Wq |-> Cardinality({v \in S : a \in input.attr[v]})]
Score(S, cnt) == <<Squares(cnt), Cardinality(S)>>
AtLeast(s, t) == s[1] * t[2] >= t[1] * s[2]

(* The vertices are those of nodes_in_truss.  Init_Ind_Graph_CNNSId gives  *)
(* the query's copy, if it is among them, a list as well: it supports the  *)
(* edges between neighbours that come after the query, and as nobody lists *)
(* it, it does so for good.  Its own edges are never looked at again.      *)
Bulk_General ==
  /\ pc = "judge" /\ queue = << >> /\ queryID \in nodes_in_truss
  /\ ind_Vert' = nodes_in_truss \ {queryID - 1}
  /\ sup' = [e \in Induced(ind_Vert') |-> Triangles(e, Induced(nodes_in_truss))]
  /\ attr_cnt' = Counts(ind_Vert')
  /\ max_score' = Score(ind_Vert', attr_cnt')
  /\ pc' = "score"
  /\ UNCHANGED <<input, queue, left, pending, need_del, answer, need_del_l>>

AtLeastOne(n) == IF n > 1 THEN n ELSE 1
need_del_num ==
  AtLeastOne((Epsilon[1] * Cardinality(ind_Vert)) \div (Epsilon[1] + Epsilon[2]))

atcNodeContri(v) ==
  MapThenSumSet(LAMBDA a : 2 * attr_cnt[a] - 1, input.attr[v] \cap Wq)

(* The first need_del_num vertices that contri_heap gives.                 *)
Least ==
  LET contri == [v \in ind_Vert |-> atcNodeContri(v)]
      Sooner(u, v) == contri[u] < contri[v] \/ (contri[u] = contri[v] /\ u > v)
  IN  {v \in ind_Vert : Cardinality({u \in ind_Vert : Sooner(u, v)}) < need_del_num}

(* Del_Nodes_Truss deletes the edges between neighbours of a vertex, not   *)
(* its own.  Lists keep the vertices that were erased.                     *)
EdgesAround(V) == {e \in DOMAIN sup : \E v \in V : Ends(e) \subseteq input.adj[v]}

Del_Nodes ==
  /\ pc = "score" /\ ind_Vert # {} /\ AtLeast(Score(ind_Vert, attr_cnt), max_score)
  /\ max_score' = Score(ind_Vert, attr_cnt)
  /\ need_del_l' = Least
  /\ pending' = EdgesAround(Least)
  /\ pc' = "bulk"
  /\ UNCHANGED <<input, sup, queue, left, ind_Vert, need_del, answer, attr_cnt>>

\* Mutant: the vertices of the round that went too far are not taken back.
NotTakenBack == ind_Vert
TakenBack == ind_Vert \cup need_del_l

Restore ==
  /\ pc = "score" /\ ind_Vert # {} /\ ~AtLeast(Score(ind_Vert, attr_cnt), max_score)
  /\ answer' = TakenBack
  /\ pc' = "answered"
  /\ UNCHANGED <<input, sup, queue, left, pending, ind_Vert, need_del, atcVars>>

(* Del_Edge_Truss is VAC's.  The copy of the query is in nobody's list, so *)
(* that it is no common neighbour.                                         *)
SkipDeleted(e) ==
  /\ pc = "bulk" /\ e \in pending \ Live
  /\ pending' = pending \ {e}
  /\ UNCHANGED <<input, pc, sup, queue, left, ind_Vert, need_del, answer, atcVars>>

Del_Edge_Bulk(e) ==
  /\ pc = "bulk" /\ e \in pending \cap Live
  /\ sup' = [f \in DOMAIN sup |->
               IF f = e THEN Deleted
               ELSE IF f \in Others(e) /\ Spares(f) THEN sup[f] - 1 ELSE sup[f]]
  /\ pending' = (pending \ {e}) \cup {f \in Others(e) : Falls(f)}
  /\ UNCHANGED <<input, pc, queue, left, ind_Vert, need_del, answer, atcVars>>

Erase_Bulk ==
  /\ pc = "bulk" /\ pending = {} /\ Holds
  /\ ind_Vert' = ind_Vert \ need_del_l
  /\ attr_cnt' = [a \in Wq |-> attr_cnt[a] - Counts(need_del_l)[a]]
  /\ pc' = "score"
  /\ UNCHANGED <<input, sup, queue, left, pending, need_del, answer, max_score, need_del_l>>

Stop_Bulk ==
  /\ pc = "bulk" /\ pending = {} /\ ~Holds
  /\ answer' = ind_Vert
  /\ pc' = "answered"
  /\ UNCHANGED <<input, sup, queue, left, pending, ind_Vert, need_del, atcVars>>

Answered == pc = "answered" /\ UNCHANGED <<vars, atcVars>>

Prune == Judge \/ Refuse \/ DelEdge \/ Triangle \/ Pop \/ JudgedOut

ATCNext ==
  \/ /\ ~IsATC /\ Next
     /\ UNCHANGED atcVars
  \/ /\ IsATC
     /\ \/ (Prune \/ Terminated) /\ UNCHANGED atcVars
        \/ Bulk_General \/ Del_Nodes \/ Restore \/ Erase_Bulk \/ Stop_Bulk \/ Answered
        \/ \E e \in DOMAIN sup : SkipDeleted(e) \/ Del_Edge_Bulk(e)

ATCSpec == ATCInit /\ [][ATCNext]_<<vars, atcVars>> /\ WF_<<vars, atcVars>>(ATCNext)
-----------------------------------------------------------------------------
(* The community distance that is reported with ATC's answer is the score  *)
(* of the vertices returned, counted anew, and the query is one of them    *)
(* (assert(ind_Vert.count(queryID))): in rounds that keep counters up to   *)
(* date by what they delete, that learn of a score one round late and then *)
(* go back, and that may delete the query as any other vertex.             *)
AnswerScored ==
  pc = "answered" =>
    /\ queryID \in answer
    /\ LET s == Score(answer, Counts(answer))
       IN  AtLeast(s, max_score) /\ AtLeast(max_score, s)
=============================================================================
