------------------------------ MODULE Retrieve ------------------------------
(***************************************************************************)
(* Queries on the index (chci.h, Retrieve with Gen_hop_dist and Filt), and *)
(* the lazy deletion before them (Batch_Del).  The threads of a parallel   *)
(* loop over the queries search one index; search_queue_length and         *)
(* communityBase are members that they share.  A step reads or writes one  *)
(* shared member.  Arithmetic on r and L_scale is exact here, and the      *)
(* order of equal distances in a heap is left open.                        *)
(***************************************************************************)
EXTENDS Integers, Sequences, FiniteSets

CONSTANTS
  Vertex,     \* the vertices (cnns ids)
  core_list, compo_l, sp_l_list,  \* as built for cur_coreness
  cur_coreness,
  Degree,     \* max_degree
  Inputs,     \* the cases considered: the lists of the index, the queries
              \* (original ids) of each thread, the deletions before them
  cur_graph_ori_adj,
  cnns_2_ori,
  Cal_Dist, gamma,
  R,          \* r, in hundredths
  L,          \* L_scale, in tenths
  Given,      \* the community model asked for
  Thread, NoQuery

Community == {"core", "truss"}
Component == {compo_l[v] : v \in Vertex}
Indexes == {g.index : g \in Inputs}
Works == {g.work : g \in Inputs}

ASSUME RetrieveAssumption ==
  /\ IsFiniteSet(Vertex) /\ Given \in Community
  /\ core_list \in [Vertex -> Nat] /\ compo_l \in [Vertex -> Nat]
  /\ sp_l_list \in [Component -> Vertex]
  /\ {cur_coreness, Degree, gamma, R, L} \subseteq Nat /\ Degree > 0
  /\ Indexes \subseteq [Vertex -> Seq([tag : Nat, id : Vertex])]
  /\ cur_graph_ori_adj \in [Vertex -> SUBSET Vertex]
  /\ cnns_2_ori \in [Vertex -> Nat]
  /\ \A u, v \in Vertex : cnns_2_ori[u] = cnns_2_ori[v] => u = v
  /\ Cal_Dist \in [Vertex -> [Vertex -> Nat]]
  /\ \A u, v \in Vertex : Cal_Dist[u][u] <= Cal_Dist[u][v]
  /\ Works \subseteq [Thread -> Seq(Nat)] /\ NoQuery \notin Vertex
  /\ \A g \in Inputs : g.deletions \in Seq(SUBSET Nat)

(* An index as HierIndex proves it: an entry that carries the layer stays  *)
(* in the component, and the entry vertex of a component is in it.         *)
ASSUME IndexAssumption ==
  /\ \E v \in Vertex : core_list[v] >= cur_coreness
  /\ \A h \in Indexes : \A v \in Vertex : \A j \in DOMAIN h[v] :
       (core_list[v] >= cur_coreness /\ h[v][j].tag >= cur_coreness)
         => /\ core_list[h[v][j].id] >= cur_coreness
            /\ compo_l[h[v][j].id] = compo_l[v]
  /\ \A v \in Vertex : core_list[v] >= cur_coreness =>
       /\ core_list[sp_l_list[compo_l[v]]] >= cur_coreness
       /\ compo_l[sp_l_list[compo_l[v]]] = compo_l[v]

InLayer == {v \in Vertex : core_list[v] >= cur_coreness}
Members(c) == {v \in InLayer : compo_l[v] = c}
node_num(c) == Cardinality(Members(c))

(* Get_Current_Component_By_Cnns_Id; a query outside the layer is sent to  *)
(* the first of the largest components.                                    *)
Largest(c) ==
  \A d \in {compo_l[v] : v \in InLayer} :
    node_num(d) < node_num(c) \/ (node_num(d) = node_num(c) /\ c <= d)
CurComponent(q) ==
  IF q \in InLayer THEN compo_l[q]
  ELSE CHOOSE c \in {compo_l[v] : v \in InLayer} : Largest(c)

QueueLength(q) == (L * node_num(CurComponent(q)) * R) \div 1000
Quota(q) == (node_num(CurComponent(q)) * R) \div 100
\* Mutant: the surplus of L_scale is not removed.
NoSurplus(q) == 0
\* Mutant: 1.2 for 1.2 - 1.
SurplusAll(q) == (12 * node_num(CurComponent(q)) * R + 999) \div 1000
Surplus(q) == (2 * node_num(CurComponent(q)) * R + 999) \div 1000

(* Gen_hop_dist: rounds of a search that starts at the query.  A vertex it *)
(* does not reach gets 0 from operator[].                                  *)
Reached(q) ==
  LET within[n \in 0 .. Cardinality(Vertex)] ==
        IF n = 0 THEN {q}
        ELSE LET S == within[n - 1]
             IN  S \cup (InLayer \cap UNION {cur_graph_ori_adj[u] : u \in S})
  IN  [n \in DOMAIN within |-> within[n]]
Hops(within, v) ==
  {n \in 1 .. Cardinality(Vertex) : v \in within[n] \ within[n - 1]}
HopDist(within, v) ==
  IF Hops(within, v) = {} THEN 0
  ELSE gamma * ((CHOOSE n \in Hops(within, v) : TRUE) - 1)

dist_to_q ==
  [q \in Vertex |->
     LET within == Reached(q)
     IN  [v \in Vertex |-> Cal_Dist[q][v] + HopDist(within, v)]]

VARIABLES
  hier_adj,             \* the lists of the index; no query changes them
  work,                 \* the queries each thread of the loop takes
  need_del,             \* the deletions still to be made
  valid_nodes,          \* empty until Batch_Del has run
  search_queue_length,  \* shared: how many results the search may hold
  communityBase,        \* shared
  pc, next,             \* where each thread is, and at which query
  query,                \* q
  vis,
  expandset,            \* vertices still to be expanded
  resultset,            \* [dist, id, own]: own marks the entry added for q
  lowerBound,
  cur, links,           \* the vertex that is being expanded, and which
                        \* entries of its list are still to be looked at
  answer                \* what Retrieve returned, and what it was made of

setup == <<hier_adj, work, need_del, valid_nodes>>
local == <<query, vis, expandset, resultset, lowerBound, cur, links>>
vars == <<setup, search_queue_length, communityBase, pc, next, local, answer>>

NoAnswer == [to |-> NoQuery, kept |-> {}, returned |-> {}]

Init ==
  /\ \E g \in Inputs :
       hier_adj = g.index /\ work = g.work /\ need_del = g.deletions
  /\ valid_nodes = {}
  /\ search_queue_length = 64
  /\ communityBase = Given
  /\ pc = [t \in Thread |-> "ready"] /\ next = [t \in Thread |-> 1]
  /\ query = [t \in Thread |-> NoQuery]
  /\ vis = [t \in Thread |-> {}] /\ expandset = [t \in Thread |-> {}]
  /\ resultset = [t \in Thread |-> {}] /\ lowerBound = [t \in Thread |-> 0]
  /\ cur = [t \in Thread |-> NoQuery] /\ links = [t \in Thread |-> {}]
  /\ answer = [t \in Thread |-> NoAnswer]

Entry(q, v) == [dist |-> dist_to_q[q][v], id |-> v, own |-> FALSE]
Own(q) == [dist |-> 0, id |-> q, own |-> TRUE]

Supported(p) == \E v \in Vertex : cnns_2_ori[v] = p
ori_2_cnns(p) == CHOOSE v \in Vertex : cnns_2_ori[v] = p

Starts(q) == {sp_l_list[CurComponent(q)]} \cup ({q} \cap InLayer)

(* The vertices named in the file are dropped from a fresh valid_nodes.    *)
Batch_Del ==
  /\ need_del # <<>>
  /\ valid_nodes' = {v \in Vertex : cnns_2_ori[v] \notin Head(need_del)}
  /\ need_del' = Tail(need_del)
  /\ UNCHANGED <<hier_adj, work, search_queue_length, communityBase, pc, next,
                 local, answer>>

Taking(t) == pc[t] = "ready" /\ need_del = <<>> /\ next[t] <= Len(work[t])

(* The id is not one of the graph: nothing is returned.                    *)
Reject(t) ==
  /\ Taking(t)
  /\ ~Supported(work[t][next[t]])
  /\ next' = [next EXCEPT ![t] = @ + 1]
  /\ UNCHANGED <<setup, search_queue_length, communityBase, pc, local, answer>>

Begin(t) ==
  /\ Taking(t)
  /\ Supported(work[t][next[t]])
  /\ LET q == ori_2_cnns(work[t][next[t]])
     IN  /\ search_queue_length' = QueueLength(q)
         /\ query' = [query EXCEPT ![t] = q]
         /\ vis' = [vis EXCEPT ![t] = Starts(q)]
         /\ expandset' = [expandset EXCEPT ![t] = Starts(q)]
         /\ resultset' = [resultset EXCEPT ![t] =
              {Entry(q, sp_l_list[CurComponent(q)]), Own(q)}]
         /\ lowerBound' = [lowerBound EXCEPT ![t] =
              CHOOSE b \in {dist_to_q[q][v] : v \in Starts(q)} :
                \A v \in Starts(q) : b <= dist_to_q[q][v]]
  /\ pc' = [pc EXCEPT ![t] = "search"]
  /\ UNCHANGED <<setup, communityBase, next, cur, links, answer>>

Dist(t) == dist_to_q[query[t]]

(* The neighbours the layer sees: the first max_degree that carry it.      *)
\* Mutant: the tags are not compared.
CarriesAny(e) == TRUE
Carries(e) == e.tag >= cur_coreness
Seen(list) ==
  {j \in DOMAIN list :
     /\ Carries(list[j])
     /\ Cardinality({m \in 1 .. j : Carries(list[m])}) <= Degree}

Closest(t) ==
  {v \in expandset[t] : \A u \in expandset[t] : Dist(t)[v] <= Dist(t)[u]}

Beyond(t, v) == Dist(t)[v] > lowerBound[t]

Expand(t) ==
  /\ pc[t] = "search" /\ links[t] = {}
  /\ \E v \in Closest(t) :
       /\ ~Beyond(t, v)
       /\ expandset' = [expandset EXCEPT ![t] = @ \ {v}]
       /\ cur' = [cur EXCEPT ![t] = v]
       /\ links' = [links EXCEPT ![t] = Seen(hier_adj[v])]
  /\ UNCHANGED <<setup, search_queue_length, communityBase, pc, next, query,
                 vis, resultset, lowerBound, answer>>

Looking(t, j) ==
  pc[t] = "search" /\ j \in links[t] /\ \A m \in links[t] : j <= m
Neighbour(t, j) == hier_adj[cur[t]][j].id

Marked(t, i) == vis[t] \cup {i}

(* The first read of search_queue_length.                                  *)
\* Mutant: a full queue admits nobody.
AdmitsIfRoom(t, i) == Cardinality(resultset[t]) < search_queue_length
Admits(t, i) ==
  \/ Cardinality(resultset[t]) < search_queue_length
  \/ Dist(t)[i] < lowerBound[t]

PassOver(t) ==
  \E j \in links[t] :
    /\ Looking(t, j)
    /\ Neighbour(t, j) \in vis[t] \/ ~Admits(t, Neighbour(t, j))
    /\ vis' = [vis EXCEPT ![t] = Marked(t, Neighbour(t, j))]
    /\ links' = [links EXCEPT ![t] = @ \ {j}]
    /\ UNCHANGED <<setup, search_queue_length, communityBase, pc, next, query,
                   expandset, resultset, lowerBound, cur, answer>>

Admit(t) ==
  \E j \in links[t] :
    /\ Looking(t, j)
    /\ Neighbour(t, j) \notin vis[t] /\ Admits(t, Neighbour(t, j))
    /\ vis' = [vis EXCEPT ![t] = Marked(t, Neighbour(t, j))]
    /\ expandset' = [expandset EXCEPT ![t] = @ \cup {Neighbour(t, j)}]
    /\ resultset' = [resultset EXCEPT ![t] = @ \cup {Entry(query[t], Neighbour(t, j))}]
    /\ pc' = [pc EXCEPT ![t] = "trim"]
    /\ links' = [links EXCEPT ![t] = @ \ {j}]
    /\ UNCHANGED <<setup, search_queue_length, communityBase, next, query,
                   lowerBound, cur, answer>>

Farthest(S) == {e \in S : \A f \in S : f.dist <= e.dist}

(* The second read of search_queue_length.                                 *)
Trims(S) == Cardinality(S) > search_queue_length

\* Mutant: lowerBound is left as it is.
BoundKept(b, S) == b
Bound(b, S) == IF S = {} THEN b ELSE (CHOOSE e \in Farthest(S) : TRUE).dist

Shortened(S) == IF Trims(S) THEN {S \ {e} : e \in Farthest(S)} ELSE {S}

Trim(t) ==
  /\ pc[t] = "trim"
  /\ \E S \in Shortened(resultset[t]) :
       /\ resultset' = [resultset EXCEPT ![t] = S]
       /\ lowerBound' = [lowerBound EXCEPT ![t] = Bound(@, S)]
  /\ pc' = [pc EXCEPT ![t] = "search"]
  /\ UNCHANGED <<setup, search_queue_length, communityBase, next, query,
                 vis, expandset, cur, links, answer>>

Stop(t) ==
  /\ pc[t] = "search" /\ links[t] = {}
  /\ \A v \in Closest(t) : Beyond(t, v)
  /\ pc' = [pc EXCEPT ![t] = "post"]
  /\ UNCHANGED <<setup, search_queue_length, communityBase, next, local, answer>>

(* The n closest entries; which of those at the same distance is open.     *)
Nearest(S, n) ==
  LET upTo(e) == Cardinality({f \in S : f.dist <= e.dist})
      sure == {e \in S : upTo(e) <= n}
      tied == {e \in S \ sure : Cardinality({f \in S : f.dist < e.dist}) < n}
  IN  {sure \cup T : T \in {X \in SUBSET tied : Cardinality(sure \cup X) = n}}

Surviving(S) == {e \in S : e.id \in valid_nodes}
Kept(S, q) ==
  IF valid_nodes = {} THEN Nearest(S, Cardinality(S) - Surplus(q))
  ELSE IF Cardinality(Surviving(S)) * 100 > node_num(CurComponent(q)) * R
       THEN Nearest(Surviving(S), Quota(q))
       ELSE {Surviving(S)}

(* Filt assigns truss to communityBase where it means to compare.          *)
FiltModel == "truss"
nei_num == IF FiltModel = "truss" THEN cur_coreness - 1 ELSE cur_coreness
Filt(res) ==
  {cnns_2_ori[v] : v \in {u \in res : Cardinality(cur_graph_ori_adj[u] \cap res) >= nei_num}}

Underflows(t) ==
  valid_nodes = {} /\ Surplus(query[t]) > Cardinality(resultset[t])

(* A filtered result is in original ids, the unfiltered one in cnns ids.   *)
Returned(p, res) == IF p \in Filt(res) THEN Filt(res) ELSE res

Post(t) ==
  /\ pc[t] = "post" /\ ~Underflows(t)
  /\ \E K \in Kept(resultset[t], query[t]) :
       answer' = [answer EXCEPT ![t] =
         [to |-> query[t], kept |-> K,
          returned |-> Returned(work[t][next[t]], {e.id : e \in K})]]
  /\ communityBase' = FiltModel
  /\ next' = [next EXCEPT ![t] = @ + 1]
  /\ pc' = [pc EXCEPT ![t] = "ready"]
  /\ UNCHANGED <<setup, search_queue_length, local>>

(* pop on an empty heap: what follows is undefined, and is not followed.   *)
PopEmpty(t) ==
  /\ pc[t] = "post" /\ Underflows(t)
  /\ pc' = [pc EXCEPT ![t] = "undefined"]
  /\ UNCHANGED <<setup, search_queue_length, communityBase, next, local, answer>>

Undefined == \E t \in Thread : pc[t] = "undefined"
Finished ==
  \/ Undefined
  \/ /\ need_del = <<>>
     /\ \A t \in Thread : pc[t] = "ready" /\ next[t] > Len(work[t])
Terminated == Finished /\ UNCHANGED vars

Step(t) ==
  ~Undefined /\ (Reject(t) \/ Begin(t) \/ Expand(t) \/ PassOver(t) \/ Admit(t)
                   \/ Trim(t) \/ Stop(t) \/ Post(t) \/ PopEmpty(t))
Next == (\E t \in Thread : Step(t)) \/ Batch_Del \/ Terminated

Spec == Init /\ [][Next]_vars
             /\ (\A t \in Thread : WF_vars(Step(t))) /\ WF_vars(Batch_Del)
-----------------------------------------------------------------------------
SetupOK ==
  /\ hier_adj \in Indexes /\ work \in Works
  /\ need_del \in Seq(SUBSET Nat) /\ valid_nodes \in SUBSET Vertex
TypeOK ==
  /\ SetupOK
  /\ search_queue_length \in Nat
  /\ communityBase \in Community
  /\ pc \in [Thread -> {"ready", "search", "trim", "post", "undefined"}]
  /\ next \in [Thread -> Nat \ {0}]
  /\ query \in [Thread -> Vertex \cup {NoQuery}]
  /\ vis \in [Thread -> SUBSET Vertex] /\ expandset \in [Thread -> SUBSET Vertex]
  /\ resultset \in [Thread -> SUBSET [dist : Nat, id : Vertex, own : BOOLEAN]]
  /\ lowerBound \in [Thread -> Nat]
  /\ cur \in [Thread -> Vertex \cup {NoQuery}]
  /\ links \in [Thread -> SUBSET Nat]

Active(t) == pc[t] \in {"search", "trim", "post"}

(* A search stays in the component it was sent to, although the lists mix  *)
(* the links of all layers: of all vertices outside it, only the query     *)
(* itself can be a result, and nothing is expanded there.                  *)
StaysInComponent ==
  \A t \in Thread : Active(t) =>
    LET M == Members(CurComponent(query[t]))
    IN  /\ expandset[t] \subseteq M
        /\ \A e \in resultset[t] : e.own \/ e.id \in M

(* Whatever the other threads do to search_queue_length, a search never    *)
(* holds more results than the longest queue asked for, plus the one that  *)
(* is about to be trimmed; and never fewer than the two it starts with.    *)
Lengths == {QueueLength(v) : v \in Vertex} \cup {2}
Longest == CHOOSE n \in Lengths : \A m \in Lengths : m <= n
ResultsBounded ==
  \A t \in Thread : Active(t) =>
    /\ Cardinality(resultset[t]) <= Longest + (IF pc[t] = "trim" THEN 1 ELSE 0)
    /\ Cardinality(resultset[t]) >= 2

(* The queries of one thread only: search_queue_length is its own.         *)
Alone(t) == \A u \in Thread \ {t} : work[u] = <<>>
Finishing(t) == Alone(t) /\ pc[t] = "post" /\ QueueLength(query[t]) > 2

(* An undisturbed search drops only what is no closer than all it keeps.   *)
Ids(S) == {e.id : e \in S}
ClosestKept ==
  \A t \in Thread : Finishing(t) =>
    \A v \in vis[t] \ Ids(resultset[t]) :
      \A e \in resultset[t] : e.dist <= Dist(t)[v]

(* An undisturbed search fills its queue or visits all it can reach.  The  *)
(* exception: nothing new is next to the query, and its entry vertex is    *)
(* never expanded, because lowerBound is still the distance of the query.  *)
Reachable(q) ==
  LET within[n \in 0 .. Cardinality(Vertex)] ==
        IF n = 0 THEN Starts(q)
        ELSE LET S == within[n - 1]
             IN  S \cup UNION {{hier_adj[v][j].id : j \in Seen(hier_adj[v])} : v \in S}
  IN  within[Cardinality(Vertex)]
Starved(t) == Cardinality(resultset[t]) <= 2
FullOrExhausted ==
  \A t \in Thread : Finishing(t) =>
    \/ Cardinality(resultset[t]) = QueueLength(query[t])
    \/ Reachable(query[t]) \subseteq vis[t]
    \/ Starved(t)

(* With L_scale at least 0.3 and r at most 1, the heap of an undisturbed   *)
(* search is popped beyond its end only after a starved search, or where   *)
(* the index does not connect the component.                               *)
PopsCovered ==
  L >= 3 /\ R <= 100 =>
    \A t \in Thread : Alone(t) /\ pc[t] = "undefined" =>
      \/ Starved(t)
      \/ \E v \in Members(CurComponent(query[t])) : v \notin Reachable(query[t])

(* With L_scale at most 1.2, at most r times the size of the component is  *)
(* returned, or the two results that every search starts with.             *)
WithinQuota ==
  L <= 12 =>
    \A t \in Thread : Alone(t) /\ answer[t].to # NoQuery =>
      Cardinality(answer[t].kept) <=
        (IF Quota(answer[t].to) < 2 THEN 2 ELSE Quota(answer[t].to))

(* README: "the following line is composed of the retrieved nodes", in a   *)
(* result whose first line is the id of the query file.                    *)
NamesRetrieved ==
  \A t \in Thread :
    answer[t].returned \subseteq {cnns_2_ori[v] : v \in Ids(answer[t].kept)}

(* README: "community_model: core or truss", an argument of the retrieval. *)
ModelKept == communityBase = Given
=============================================================================
