----------------------------- MODULE Connective -----------------------------
(***************************************************************************)
(* Connected components of every layer (chci.h, Core_Connective and        *)
(* Core_Connective_part, and the loop that counts their vertices).         *)
(* Threads take the layers one by one; in a layer, the vertices are        *)
(* scanned in the order of their ids, and each one that was not visited    *)
(* starts the search of a new component.  An index over a part of the      *)
(* graph scans the part alone; all other indices have valid_nodes = Vertex.*)
(***************************************************************************)
EXTENDS Integers, FiniteSets, Functions

CONSTANTS
  N,       \* ntotal_
  Inputs,  \* the graphs considered, the part of each that is indexed, and
           \* the coreness of the vertices in it
  Thread, NoLayer

Vertex == 0 .. N - 1

ASSUME ConnectiveAssumption ==
  /\ N \in Nat \ {0} /\ NoLayer \notin Nat /\ Thread # {}
  /\ \A g \in Inputs : /\ g.adj \in [Vertex -> SUBSET Vertex]
                       /\ g.core \in [Vertex -> Nat]
                       /\ g.valid \subseteq Vertex /\ g.valid # {}
  /\ \A g \in Inputs : \A u, v \in Vertex : u \in g.adj[v] => v \in g.adj[u]

VARIABLES
  cur_graph_ori_adj, valid_nodes, core_list,
  i,           \* the next layer to be taken
  at,          \* the layer of each thread
  vis,         \* the vertices visited, per layer
  heap,        \* tmp_Heap, per layer
  j,           \* how far the scan of the vertices is, per layer
  cnt,         \* tmp_all_compo_cnt, per layer
  splist_num,
  compo_l,     \* the component of v in layer k, for k <= core_list[v]
  node_num_per_compo

graph == <<cur_graph_ori_adj, valid_nodes, core_list>>
vars == <<graph, i, at, vis, heap, j, cnt, splist_num, compo_l, node_num_per_compo>>

MaxCore == CHOOSE m \in Range(core_list) : \A n \in Range(core_list) : n <= m
layer_num == MaxCore + 1
Layer == 0 .. MaxCore

(* The part of the graph that is indexed, all other vertices alone.        *)
Induced(g) ==
  [v \in Vertex |-> IF v \in g.valid THEN g.adj[v] \cap g.valid ELSE {}]

Labels(core, part) ==
  [v \in Vertex |-> [k \in IF v \in part THEN 0 .. core[v] ELSE {} |-> 0]]

Init ==
  /\ \E g \in Inputs :
       /\ cur_graph_ori_adj = Induced(g)
       /\ valid_nodes = g.valid /\ core_list = g.core
  /\ i = 0 /\ at = [t \in Thread |-> NoLayer]
  /\ vis = [k \in Layer |-> {}] /\ heap = [k \in Layer |-> {}]
  /\ j = [k \in Layer |-> 0] /\ cnt = [k \in Layer |-> 0]
  /\ splist_num = [k \in Layer |-> 0]
  /\ compo_l = Labels(core_list, valid_nodes)
  /\ node_num_per_compo = <<>>

Claim(t) ==
  /\ at[t] = NoLayer /\ i < layer_num
  /\ at' = [at EXCEPT ![t] = i]
  /\ i' = i + 1
  /\ UNCHANGED <<graph, vis, heap, j, cnt, splist_num, compo_l, node_num_per_compo>>

InLayer(v, k) == v \in valid_nodes /\ core_list[v] >= k

\* Mutant: from the last vertex down.
ScannedFromLast(k) == N - 1 - j[k]
Scanned(k) == j[k]

Scanning(t) == at[t] # NoLayer /\ heap[at[t]] = {} /\ j[at[t]] < N

PassOver(t) ==
  /\ Scanning(t)
  /\ LET k == at[t]
     IN  /\ ~InLayer(Scanned(k), k) \/ Scanned(k) \in vis[k]
         /\ j' = [j EXCEPT ![k] = @ + 1]
  /\ UNCHANGED <<graph, i, at, vis, heap, cnt, splist_num, compo_l, node_num_per_compo>>

NextNumber(n) == n + 1

Found(t) ==
  /\ Scanning(t)
  /\ LET k == at[t]
         v == Scanned(k)
     IN  /\ InLayer(v, k) /\ v \notin vis[k]
         /\ heap' = [heap EXCEPT ![k] = {v}]
         /\ vis' = [vis EXCEPT ![k] = @ \cup {v}]
         /\ compo_l' = [compo_l EXCEPT ![v][k] = cnt[k]]
         /\ cnt' = [cnt EXCEPT ![k] = NextNumber(@)]
         /\ j' = [j EXCEPT ![k] = @ + 1]
  /\ UNCHANGED <<graph, i, at, splist_num, node_num_per_compo>>

Fresh(v, k) == {u \in cur_graph_ori_adj[v] : InLayer(u, k) /\ u \notin vis[k]}

\* Mutant: one counter for all threads, declared outside the parallel loop.
SharedNumber(k) == (CHOOSE n \in Range(cnt) : \A m \in Range(cnt) : m <= n) - 1
Number(k) == cnt[k] - 1

(* The heap gives the largest id; compo_l holds the number of the current  *)
(* component, which is one less than the counter.                          *)
Grow(t) ==
  /\ at[t] # NoLayer /\ heap[at[t]] # {}
  /\ LET k == at[t]
         v == CHOOSE w \in heap[k] : \A u \in heap[k] : u <= w
     IN  /\ compo_l' = [compo_l EXCEPT ![v][k] = Number(k)]
         /\ heap' = [heap EXCEPT ![k] = (@ \ {v}) \cup Fresh(v, k)]
         /\ vis' = [vis EXCEPT ![k] = @ \cup Fresh(v, k)]
  /\ UNCHANGED <<graph, i, at, j, cnt, splist_num, node_num_per_compo>>

\* Mutant: the number of the last component, not how many there are.
LastNumber(k) == cnt[k] - 1
Total(k) == cnt[k]

Finish(t) ==
  /\ at[t] # NoLayer /\ heap[at[t]] = {} /\ j[at[t]] = N
  /\ splist_num' = [splist_num EXCEPT ![at[t]] = Total(at[t])]
  /\ at' = [at EXCEPT ![t] = NoLayer]
  /\ UNCHANGED <<graph, i, vis, heap, j, cnt, compo_l, node_num_per_compo>>

Labelled == i = layer_num /\ \A t \in Thread : at[t] = NoLayer
Counted == node_num_per_compo # <<>>

(* The sizes of the components; the arrays have splist_num entries.        *)
Count ==
  /\ Labelled /\ ~Counted
  /\ node_num_per_compo' =
       [k \in Layer |->
          [c \in 0 .. splist_num[k] - 1 |->
             Cardinality({v \in Vertex : InLayer(v, k) /\ compo_l[v][k] = c})]]
  /\ UNCHANGED <<graph, i, at, vis, heap, j, cnt, splist_num, compo_l>>

Terminated == Counted /\ UNCHANGED vars

Step(t) == Claim(t) \/ PassOver(t) \/ Found(t) \/ Grow(t) \/ Finish(t)
Next == (\E t \in Thread : Step(t)) \/ Count \/ Terminated

Spec == Init /\ [][Next]_vars /\ (\A t \in Thread : WF_vars(Step(t))) /\ WF_vars(Count)
-----------------------------------------------------------------------------
In(k) == {v \in Vertex : InLayer(v, k)}

(* Every component has a size and a place in sp_l_list.                    *)
TypeOK ==
  /\ i \in 0 .. layer_num /\ at \in [Thread -> Layer \cup {NoLayer}]
  /\ vis \in [Layer -> SUBSET Vertex] /\ heap \in [Layer -> SUBSET Vertex]
  /\ j \in [Layer -> 0 .. N] /\ cnt \in [Layer -> 0 .. N]
  /\ splist_num \in [Layer -> 0 .. N]
  /\ \A v \in valid_nodes : compo_l[v] \in [0 .. core_list[v] -> 0 .. N - 1]
  /\ Counted => \A k \in Layer : \A v \in In(k) :
                  compo_l[v][k] \in DOMAIN node_num_per_compo[k]

(* The component of v in layer k: what no closed part of the layer that    *)
(* holds v leaves out.                                                     *)
Closed(S, k) == \A v \in S : cur_graph_ori_adj[v] \cap In(k) \subseteq S
Members(v, k) ==
  {u \in In(k) : \A S \in SUBSET In(k) : v \in S /\ Closed(S, k) => u \in S}

First(v, k) == \A u \in Members(v, k) : v <= u

(* Vertices together in one layer are together in all layers below: the    *)
(* tags of hier_adj rest on it (HierAssumption of HierIndex).              *)
Nested ==
  Labelled =>
    \A k \in Layer : \A l \in 0 .. k : \A u, v \in In(k) :
      compo_l[u][k] = compo_l[v][k] => compo_l[u][l] = compo_l[v][l]

(* Components are numbered by their smallest vertex, whatever the threads  *)
(* do: a loaded index, whose entry vertices are stored under the numbers   *)
(* of the build, finds the same numbers again.                             *)
NumberedByFirst ==
  Labelled =>
    \A k \in Layer : \A v \in In(k) :
      \E r \in Members(v, k) :
        /\ First(r, k)
        /\ compo_l[v][k] = Cardinality({u \in In(k) : u < r /\ First(u, k)})
=============================================================================
