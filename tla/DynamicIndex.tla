---------------------------- MODULE DynamicIndex ----------------------------
(***************************************************************************)
(* Insertion of vertices into an index over a part of the graph (chci.h,   *)
(* Batch_Add, Add_Node and what they call, after Load_Graph_bin_part).     *)
(* Vertices come one by one.  Each gets an approximate coreness and a      *)
(* component per layer from its neighbours; in each of its layers it is    *)
(* searched for, linked to the closest candidates, and offered to these.   *)
(* No other vertex is looked at again: coreness, components and their      *)
(* sizes, and the entry vertices, stay what they were.  A loaded index     *)
(* keeps rp_ub_ = -1, so that pruning recycles every candidate after the   *)
(* first and what is left is a choice by distance.                         *)
(***************************************************************************)
EXTENDS IndexLists, SequencesExt

CONSTANTS
  Vertex,     \* the vertices (cnns ids, from 0)
  QueueLen,   \* build_queue_length
  Cal_Dist,   \* Cal_Dist[a][b], which is not Cal_Dist[b][a]
  Inputs,     \* the cases considered, each a graph, the index loaded for a
              \* part of it, and the vertices to add (see InputOK)
  NoVertex    \* an id to add that the graph does not have

\* No two vertices are as far from a third, whichever way one of the distances
\* is taken.
DistAssumption ==
  \A v \in Vertex : /\ Cal_Dist[v][v] = 0
                    /\ \A a, b \in Vertex :
                         a # b => Cal_Dist[v][a] \notin {Cal_Dist[v][b], Cal_Dist[b][v]}

MinOf(S) == CHOOSE m \in S : \A n \in S : m <= n
MaxOf(S) == CHOOSE m \in S : \A n \in S : m >= n

\* The highest layer in which a and b are in one component, 0 if there is none.
Highest(core, compo, a, b) ==
  MaxOf({0} \cup {k \in 0 .. MinOf({core[a], core[b]}) : compo[a][k] = compo[b][k]})

\* complete: the whole graph; valid: the vertices that are indexed; core_list,
\* compo_l and hier_adj: their coreness, components and links; sp_l_list: the
\* entry vertex of each component of each layer; add: the ids to add, all new.
\* The index is one that was built for a graph with an edge, so that it has the
\* layer every vertex with an edge is in: 1, and 2 for the truss model.
LayersOf(in) == DOMAIN in.sp_l_list
LinksOf(in) == [tag : LayersOf(in), id : in.valid]

InputOK(in) ==
  /\ in.model \in {"core", "truss"} /\ in.valid \subseteq Vertex
  /\ in.complete \in [Vertex -> SUBSET Vertex] /\ \A v \in Vertex : v \notin in.complete[v]
  /\ IsInjective(in.add) /\ in.add \in Seq((Vertex \ in.valid) \cup {NoVertex})
  /\ \E top \in Vertex : /\ top >= (IF in.model = "core" THEN 1 ELSE 2)
                         /\ LayersOf(in) = 0 .. top
  /\ \A k \in LayersOf(in) :
       /\ 0 \in DOMAIN in.sp_l_list[k]
       /\ \A c \in DOMAIN in.sp_l_list[k] :
            LET v == in.sp_l_list[k][c]
            IN v \in in.valid /\ k <= in.core_list[v] /\ in.compo_l[v][k] = c
  /\ in.core_list \in [Vertex -> LayersOf(in)] /\ DOMAIN in.compo_l = Vertex
  /\ \A v \in in.valid :
       /\ in.model = "truss" => in.core_list[v] # 1
       /\ DOMAIN in.compo_l[v] = 0 .. in.core_list[v]
       /\ \A k \in 0 .. in.core_list[v] : in.compo_l[v][k] \in DOMAIN in.sp_l_list[k]
  /\ in.hier_adj \in [Vertex -> Seq(LinksOf(in))]
  /\ \A v \in Vertex : v \notin in.valid => in.hier_adj[v] = <<>>
  /\ \A v \in in.valid : \A j \in DOMAIN in.hier_adj[v] :
       in.hier_adj[v][j].tag <= Highest(in.core_list, in.compo_l, v, in.hier_adj[v][j].id)

ASSUME DynamicAssumption ==
  /\ Vertex \subseteq Nat /\ IsFiniteSet(Vertex) /\ 0 \in Vertex /\ NoVertex \notin Vertex
  /\ Degree \in Nat \ {0} /\ QueueLen \in Nat \ {0}
  /\ Cal_Dist \in [Vertex -> [Vertex -> Nat]] /\ DistAssumption
  /\ \A in \in Inputs : InputOK(in)

VARIABLES
  input,              \* the case, one of Inputs
  valid_nodes,
  cur_graph_ori_adj,  \* adjacency, as far as the index knows it
  core_list,
  compo_l,            \* per vertex, its component in each of its layers
  next,               \* the insertion that is under way or next
  add_neighbors,      \* the neighbours it was given in the layer under way,
  index,              \* and the next of them to offer it to
  pc                  \* "register", "search", "link", "end" or "thrown"

varsAdd == <<input, valid_nodes, cur_graph_ori_adj, core_list, compo_l, hier_adj,
             next, layer, add_neighbors, index, pc>>

Layer == LayersOf(input)
cur == input.add[next]

\* The n closest of S, by the distances d.
Closest(d, S, n) == {a \in S : Cardinality({b \in S : d[b] <= d[a]}) <= n}

\* S by the distances d.
Near(d, S) ==
  LET place(a) == Cardinality({b \in S : d[b] <= d[a]})
  IN [i \in 1 .. Cardinality(S) |-> CHOOSE a \in S : place(a) = i]

\* The vertices at these places of a list, in its order.
Listed(list, places) ==
  LET nth(i) == CHOOSE j \in places : Cardinality({m \in places : m <= j}) = i
  IN [i \in 1 .. Cardinality(places) |-> list[nth(i)].id]

Return_Maximum_Common_Layer(a, b) == Highest(core_list, compo_l, a, b)

Entry(v, u) == [tag |-> Return_Maximum_Common_Layer(v, u), id |-> u]

-----------------------------------------------------------------------------
\* Coreness and components of a vertex, from those of its neighbours.

\* How many of S come before p when they are ordered by coreness.
Below(S, p) == Cardinality({o \in S : \/ core_list[o] < core_list[p]
                                      \/ core_list[o] = core_list[p] /\ o < p})

\* Mutant: the neighbour with as many below it as its coreness counts as well.
CoreFromOne(near) ==
  LET counted == {p \in near : \A o \in near :
                    Below(near, o) >= Below(near, p) => core_list[o] >= Below(near, o)}
  IN IF near = {} THEN 0 ELSE MaxOf({Cardinality(counted), 1})

\* Core model: the number of neighbours, counted from the highest coreness
\* down, whose coreness exceeds the number of those below them.  When all are
\* counted, the size_t of the loop wraps and what is read outside the array is
\* compared with SIZE_MAX: no value exceeds it, and the loop ends there.
AppCore(near) ==
  LET counted == {p \in near : \A o \in near :
                    Below(near, o) >= Below(near, p) => core_list[o] > Below(near, o)}
  IN IF near = {} THEN 0 ELSE MaxOf({Cardinality(counted), 1})

\* Truss model: the estimate for the edge to p, from the coreness of their
\* common neighbours, highest first; 0 when no count reaches a coreness.
EdgeTruss(common) ==
  LET count(w) == 1 + Cardinality(common) - Below(common, w)
      reached == {w \in common : count(w) >= core_list[w]}
  IN IF reached = {} THEN 0 ELSE MinOf({count(w) : w \in reached})

AppTruss(near) ==
  MaxOf({2} \cup {MinOf({core_list[p], EdgeTruss(near \cap cur_graph_ori_adj[p])})
                    : p \in near})

App_Coreness(near) ==
  IF input.model = "core" THEN AppCore(near) ELSE AppTruss(near)

\* Sizes of the components, as counted when the index was loaded.
node_num_per_compo(k, c) ==
  Cardinality({v \in input.valid : k \in DOMAIN input.compo_l[v] /\ input.compo_l[v][k] = c})

\* Mutant: the component of layer 0 serves for every layer.
BottomHome(near, k) ==
  LET size(p) == node_num_per_compo(0, compo_l[p][0])
      largest == {p \in near : \A o \in near : size(p) >= size(o)}
  IN IF near = {} THEN 0 ELSE compo_l[MinOf(largest)][0]

\* The component of the neighbour whose component in layer k is the largest,
\* the first such neighbour; 0 when no neighbour is in the layer.
HomeOf(near, k) ==
  LET inLayer == {p \in near : k \in DOMAIN compo_l[p]}
      size(p) == node_num_per_compo(k, compo_l[p][k])
      largest == {p \in inLayer : \A o \in inLayer : size(p) >= size(o)}
  IN IF inLayer = {} THEN 0 ELSE compo_l[MinOf(largest)][k]

\* Add_Node, up to the first search.
Register ==
  /\ pc = "register" /\ next <= Len(input.add) /\ cur \in Vertex
  /\ LET near == input.complete[cur] \cap (valid_nodes \cup {cur})
         coreness == App_Coreness(near)
     IN /\ valid_nodes' = valid_nodes \cup {cur}
        /\ cur_graph_ori_adj' = [cur_graph_ori_adj EXCEPT ![cur] = near]
        /\ core_list' = [core_list EXCEPT ![cur] = coreness]
        /\ compo_l' = [compo_l EXCEPT ![cur] =
                         [k \in 0 .. coreness |-> HomeOf(near, k)]]
  /\ layer' = 0
  /\ pc' = "search"
  /\ UNCHANGED <<input, hier_adj, next, add_neighbors, index>>

\* Add_Node of an id the graph does not have.
Unknown ==
  /\ pc = "register" /\ next <= Len(input.add) /\ cur \notin Vertex
  /\ pc' = "thrown"
  /\ UNCHANGED <<input, valid_nodes, cur_graph_ori_adj, core_list, compo_l,
                 hier_adj, next, layer, add_neighbors, index>>

-----------------------------------------------------------------------------
\* Search_Add: a best-first search for q in layer k from the entry vertex of
\* its component.  The vertices it expanded are the candidates.

Bound(q, result) == MaxOf({Cal_Dist[q][r] : r \in result})

Meet(q, S, w) ==
  IF w \in S.vis THEN S
  ELSE IF \/ Cardinality(S.result) < QueueLen
          \/ Cal_Dist[q][w] < Bound(q, S.result)
  THEN [S EXCEPT !.vis = @ \cup {w}, !.expand = @ \cup {w},
                 !.result = Closest(Cal_Dist[q], @ \cup {w}, QueueLen)]
  ELSE [S EXCEPT !.vis = @ \cup {w}]

\* The closest vertex c that is still to be expanded meets what layer k sees of
\* its list, one after the other.
Expand(q, k, S) ==
  LET c == CHOOSE a \in S.expand : \A b \in S.expand : Cal_Dist[q][a] <= Cal_Dist[q][b]
      list == Listed(hier_adj[c], Seen(hier_adj[c], k))
      met[n \in 0 .. Len(list)] ==
        IF n = 0 THEN [S EXCEPT !.expand = @ \ {c}, !.cand = @ \cup {c}]
        ELSE LET T == met[n - 1] IN Meet(q, T, list[n])
  IN IF S.expand = {} \/ Cal_Dist[q][c] > Bound(q, S.result) THEN S ELSE met[Len(list)]

\* The guard on the component compares it with the number of layers of the
\* vertex whose id is k, not with the number of components of layer k.
Refused(q, k) == compo_l[q][k] > Cardinality(DOMAIN compo_l[k])

Search_Add(q, k) ==
  LET sp == input.sp_l_list[k][compo_l[q][k]]
      start == [vis |-> {sp}, expand |-> {sp}, result |-> {sp}, cand |-> {sp}]
      after[n \in 0 .. Cardinality(Vertex)] ==
        IF n = 0 THEN start ELSE LET S == after[n - 1] IN Expand(q, k, S)
  IN IF Refused(q, k) THEN {} ELSE after[Cardinality(Vertex)].cand

\* The locked neighbours, then the closest of the pool up to Degree in all; d
\* gives the distances the candidates have in the heap.
Robust_Prune_Add(v, d, locked, pool) ==
  LET others == pool \ ({v} \cup Range(locked))
  IN locked \o Near(d, Closest(d, others, Degree - Len(locked)))

\* A layer of Add_Node: a vertex that the search does not find (in layer 0,
\* whether found or not) keeps its own links of this layer, all of them, and is
\* given new ones.
Insert ==
  /\ pc = "search"
  /\ LET cand == Search_Add(cur, layer)
         carriers == {j \in DOMAIN hier_adj[cur] : Carries(hier_adj[cur][j], layer)}
         locked == IF layer = 0 THEN <<>> ELSE Listed(hier_adj[cur], carriers)
         neighbors == Robust_Prune_Add(cur, Cal_Dist[cur], locked, cand)
         new == SubSeq(neighbors, Len(locked) + 1, Len(neighbors))
     IN /\ layer = 0 \/ cur \notin cand
        /\ add_neighbors' = neighbors
        /\ hier_adj' = [hier_adj EXCEPT ![cur] =
                          @ \o [i \in DOMAIN new |-> Entry(cur, new[i])]]
  /\ index' = 1
  /\ pc' = "link"
  /\ UNCHANGED <<input, valid_nodes, cur_graph_ori_adj, core_list, compo_l,
                 next, layer>>

\* To the next layer of the vertex, or to the next vertex.
Advance ==
  IF layer < core_list[cur]
  THEN layer' = layer + 1 /\ pc' = "search" /\ UNCHANGED next
  ELSE next' = next + 1 /\ pc' = "register" /\ UNCHANGED layer

Found ==
  /\ pc = "search" /\ layer > 0 /\ cur \in Search_Add(cur, layer)
  /\ Advance
  /\ UNCHANGED <<input, valid_nodes, cur_graph_ori_adj, core_list, compo_l,
                 hier_adj, add_neighbors, index>>

-----------------------------------------------------------------------------
\* Make_Edge_Add: the list of a neighbour u when v is offered to it in layer k.

\* Mutant: behind the entry that is number Degree.
OneTooFar(list, e, m) ==
  LET above == {i \in DOMAIN list : list[i].tag > m}
      place == {i \in above : Cardinality({j \in above : j <= i}) = Degree}
  IN IF place = {} THEN list ELSE InsertAt(list, MinOf(place) + 1, e)

\* The entry that was taken from the list goes right behind the entry that is
\* number Degree - 1 of those above layer m; it is lost when there are fewer.
Reinsert(list, e, m) ==
  LET above == {i \in DOMAIN list : list[i].tag > m}
      place == {i \in above : Cardinality({j \in above : j <= i}) = Degree - 1}
  IN IF place = {} THEN list ELSE InsertAt(list, MinOf(place) + 1, e)

\* The distances of u's neighbours, and of a vertex v that is offered to u: this
\* one is Cal_Dist(v, u).
Offered(u, v) == [Cal_Dist[u] EXCEPT ![v] = Cal_Dist[v][u]]

\* Mutant: the tag stays when the link is replaced.
TagStays(list, u, v, k) ==
  LET view == View(list, k)
      kept == Range(Robust_Prune_Add(u, Offered(u, v), <<>>, view \cup {v, 0}))
      places == {j \in DOMAIN list : list[j].id = MinOf(kept \ {0})}
  IN IF v \in view \cup {0} \/ v \notin kept \/ places = {} THEN list
     ELSE [list EXCEPT ![MinOf(places)].id = v]

\* The neighbour's view, with v and vertex 0 (the view is appended to Degree
\* zeros), is cut to the Degree closest.  If v is one of them it takes the
\* place of the lowest id that was kept, other than 0.
Offer(list, u, v, k) ==
  LET view == View(list, k)
      kept == Range(Robust_Prune_Add(u, Offered(u, v), <<>>, view \cup {v, 0}))
      diff == MinOf(kept \ {0})
      places == {j \in DOMAIN list : list[j].id = diff}
      j == MinOf(places)
      m == Return_Maximum_Common_Layer(u, v)
      replaced == [list EXCEPT ![j] = [tag |-> MinOf({@.tag, m}), id |-> v]]
  IN IF v \in view \cup {0} \/ v \notin kept \/ places = {} THEN list
     ELSE IF list[j].tag <= m THEN replaced
     ELSE Reinsert(replaced, list[j], m)

Make_Edge_Add ==
  /\ pc = "link" /\ index <= Len(add_neighbors)
  /\ LET u == add_neighbors[index]
     IN hier_adj' = [hier_adj EXCEPT ![u] = Offer(@, u, cur, layer)]
  /\ index' = index + 1
  /\ UNCHANGED <<input, valid_nodes, cur_graph_ori_adj, core_list, compo_l,
                 next, layer, add_neighbors, pc>>

LayerDone ==
  /\ pc = "link" /\ index > Len(add_neighbors)
  /\ Advance
  /\ UNCHANGED <<input, valid_nodes, cur_graph_ori_adj, core_list, compo_l,
                 hier_adj, add_neighbors, index>>

-----------------------------------------------------------------------------
\* Load_Graph_bin_part.
InitAdd ==
  /\ input \in Inputs
  /\ valid_nodes = input.valid
  /\ cur_graph_ori_adj = [v \in Vertex |->
       IF v \in input.valid THEN input.complete[v] \cap input.valid ELSE {}]
  /\ core_list = input.core_list
  /\ compo_l = input.compo_l
  /\ hier_adj = input.hier_adj
  /\ next = 1 /\ layer = 0 /\ add_neighbors = <<>> /\ index = 1
  /\ pc = "register"

\* Batch_Add is through.
Finish ==
  /\ pc = "register" /\ next > Len(input.add)
  /\ pc' = "end"
  /\ UNCHANGED <<input, valid_nodes, cur_graph_ori_adj, core_list, compo_l,
                 hier_adj, next, layer, add_neighbors, index>>

TerminatedAdd == pc \in {"end", "thrown"} /\ UNCHANGED varsAdd

NextAdd == \/ Register \/ Unknown \/ Insert \/ Found \/ Make_Edge_Add \/ LayerDone
           \/ Finish \/ TerminatedAdd

SpecAdd == InitAdd /\ [][NextAdd]_varsAdd

-----------------------------------------------------------------------------
Inserted == valid_nodes \ input.valid

\* A coreness estimated from neighbours stays within the layers the loaded
\* index has, and a component adopted from them is one it has an entry vertex
\* for (App_Coreness, Add_Node; both index sp_l_list without a check).
LayersFit ==
  /\ valid_nodes \subseteq Vertex
  /\ core_list \in [Vertex -> Layer]
  /\ \A v \in valid_nodes :
       /\ DOMAIN compo_l[v] = 0 .. core_list[v]
       /\ \A k \in DOMAIN compo_l[v] : compo_l[v][k] \in DOMAIN input.sp_l_list[k]
  /\ \A v \in Vertex : Range(hier_adj[v]) \subseteq [tag : Layer, id : valid_nodes]
  /\ next \in 1 .. Len(input.add) + 1
  /\ layer \in Layer /\ Range(add_neighbors) \subseteq valid_nodes
  /\ index \in 1 .. Len(add_neighbors) + 1

\* In each of its layers an inserted vertex is in the component of one of its
\* neighbours there, so the estimate promises no layer that none of them is in;
\* except for a vertex whose neighbours, if any, have no link themselves.
HomeIsNeighbours ==
  \A v \in Inserted : \A k \in DOMAIN compo_l[v] :
    LET near == cur_graph_ori_adj[v]
    IN (\E p \in near : core_list[p] > 0)
         => \E p \in near : k \in DOMAIN compo_l[p] /\ compo_l[p][k] = compo_l[v][k]

\* Through all replacements, no link is tagged with a layer above those its ends
\* share: a reader of a layer is never led to a vertex that is not in it
\* (Make_Edge_Add changes ids and tags in place).
TagsCommon ==
  \A v \in valid_nodes : \A j \in DOMAIN hier_adj[v] :
    LET e == hier_adj[v][j]
    IN e.tag <= Return_Maximum_Common_Layer(v, e.id)

\* Two conditions on what an insertion finds.  Vertices that are together in a
\* layer are together below it: so it is in a built index, and no longer when the
\* neighbours of a new vertex lie in different components (HomeOf).  And what is
\* offered in a layer is offered to vertices that share it.
NestedHomes ==
  \A a, b \in valid_nodes : \A k \in 0 .. MinOf({core_list[a], core_list[b]}) :
    compo_l[a][k] = compo_l[b][k] => \A i \in 0 .. k : compo_l[a][i] = compo_l[b][i]
OffersShared ==
  pc = "link" => \A u \in Range(add_neighbors) : layer <= Return_Maximum_Common_Layer(u, cur)

\* Linking a vertex in leaves what its neighbours show in higher layers alone:
\* where a neighbour's view was full and the new vertex does not belong, the view
\* has the same vertices after the replacement and the re-insertion
\* (Make_Edge_Add's purpose; a view that is not full may lose a link).
FullViewsKept ==
  [][pc = "link" => \A u \in valid_nodes \ {cur} : \A k \in Layer :
       LET before == View(hier_adj[u], k)
       IN /\ k > Return_Maximum_Common_Layer(u, cur)
          /\ Cardinality(before) = Degree
          => View(hier_adj'[u], k) = before]_varsAdd

=============================================================================
