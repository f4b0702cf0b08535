---------------------------- MODULE Persistence -----------------------------
(***************************************************************************)
(* The life of an index (chci.h): labelled (Connective), given its entry   *)
(* vertices and its links layer by layer, saved, and loaded by another     *)
(* process.  Numbers of components and tags of links are not saved: the    *)
(* loader labels the graph again and computes the tags from the result.    *)
(* Building and loading over a part of the graph (the functions named      *)
(* _part) differ in valid_nodes.                                           *)
(***************************************************************************)
EXTENDS Connective, Sequences, FiniteSetsExt

CONSTANTS
  Foreign,     \* graphs a loader may be given by mistake
  Leftover,    \* what the locals of the loader may hold when nothing was read
  Attr,        \* one numeric attribute of each vertex
  Far,         \* min_dist before the first comparison: 999 in the code
  Chosen(_, _, _),  \* the links a vertex takes of those that fit, given what it has
  Degree,      \* max_degree
  Width,       \* how many ids a saved neighbour can tell apart: 2^24
  NoFile

ASSUME PersistenceAssumption ==
  /\ Far \in Nat /\ Attr \in [Vertex -> Nat]
  /\ Degree \in Nat /\ Width \in Nat \ {0}
  /\ \A v \in Vertex : \A fit, seen \in SUBSET Vertex : Chosen(v, fit, seen) \in Seq(fit)
  /\ \A g \in Inputs : g.ori \in Seq(Nat) /\ Len(g.ori) = N
  /\ \A f \in Foreign :
       /\ f.adj \in [Vertex -> SUBSET Vertex] /\ f.ori \in Seq(Nat)
       /\ f.valid \subseteq Vertex /\ f.valid # {}
       /\ \A u, v \in Vertex : u \in f.adj[v] => v \in f.adj[u]
  /\ Leftover # {}
  /\ Leftover \subseteq [id : Int, ori : Int, size : Int, nei : 0 .. Width - 1]

VARIABLES
  stage,
  cnns_2_ori,  \* the ids of the vertices in the files of the graph
  layer,       \* the layer to be built; -1 before build_1st_layer
  sp_l_list,   \* the entry vertex of each component, per layer
  hier_adj,    \* the links of each vertex with their tags
  file,        \* the saved index
  saved        \* history: the graph and the index that are saved

index == <<layer, sp_l_list, hier_adj>>
indexVars == <<vars, stage, cnns_2_ori, index, file, saved>>

IndexInit ==
  /\ Init
  /\ stage = "label" /\ layer = -1 /\ file = NoFile
  /\ \E g \in Inputs :
       /\ cur_graph_ori_adj = Induced(g) /\ valid_nodes = g.valid
       /\ core_list = g.core /\ cnns_2_ori = g.ori /\ saved = [graph |-> g]
  /\ sp_l_list = <<>>
  /\ hier_adj = [v \in Vertex |-> <<>>]

(* Core_Connective and the counting loop, as part of the build.            *)
Label ==
  /\ stage = "label" /\ Next
  /\ UNCHANGED <<stage, cnns_2_ori, index, file, saved>>
-----------------------------------------------------------------------------
\* Mutant: the component is not compared.
AnyComponent(v, k, c) == InLayer(v, k)
InComponent(v, k, c) == InLayer(v, k) /\ compo_l[v][k] = c

(* The member closest to the centre, the first one if there are several,   *)
(* or -1 if none is near.  The sum of the members is divided by the number *)
(* of all vertices (cnt): distances are scaled by it, and the members of a *)
(* small component are far from what the code takes for their centre.      *)
Component(k, c) == {v \in valid_nodes : InComponent(v, k, c)}
SumAttr(S) == MapThenSumSet(LAMBDA v : Attr[v], S)
Away(v, S) ==
  LET here == Cardinality(valid_nodes) * Attr[v]
  IN  IF SumAttr(S) > here THEN SumAttr(S) - here ELSE here - SumAttr(S)

Near(k, c) ==
  {v \in Component(k, c) : Away(v, Component(k, c)) < Far * Cardinality(valid_nodes)}

Find_Enter_Pt(k, c) ==
  LET near == Near(k, c)
      away == [v \in near |-> Away(v, Component(k, c))]
  IN  IF near = {} THEN -1 ELSE Min({v \in near : \A u \in near : away[v] <= away[u]})

EnterPoints(k) == [c \in 0 .. splist_num[k] - 1 |-> Find_Enter_Pt(k, c)]

(* Return_Maximum_Common_Layer, and a link with its tag.                   *)
Together(u, v, k) ==
  InLayer(u, k) /\ InLayer(v, k) /\ compo_l[u][k] = compo_l[v][k]
CommonLayer(u, v) == Max({k \in 1 .. MaxCore : Together(u, v, k)} \cup {0})
Tagged(v, list) ==
  [n \in DOMAIN list |-> [tag |-> CommonLayer(list[n], v), id |-> list[n]]]

(* What layer k sees of v's list (as many links as Degree), and what it    *)
(* adds: the choice itself is the subject of LayerBuild.                   *)
Seen(v, k) ==
  LET carriers == {n \in DOMAIN hier_adj[v] : hier_adj[v][n].tag >= k}
  IN  {n \in carriers : Cardinality({m \in carriers : m <= n}) <= Degree}
View(v, k) == {hier_adj[v][n].id : n \in Seen(v, k)}
Full(v, k) == Cardinality(Seen(v, k)) = Degree
Choice(v, k, seen) ==
  Chosen(v, {u \in Vertex : u # v /\ Together(u, v, k)} \ seen, seen)

(* The vertex at each position of valid_node_vec.                          *)
Position(v) == Cardinality({u \in valid_nodes : u < v})
At(p) == CHOOSE v \in valid_nodes : Position(v) = p
Whole == valid_nodes = Vertex

(* A search from -1 reads in front of the arrays.                          *)
NoStart(k, searching) ==
  \E v \in searching : Find_Enter_Pt(k, compo_l[v][k]) = -1

Undefined == stage' = "undefined" /\ UNCHANGED <<vars, cnns_2_ori, index, file, saved>>

(* build_1st_layer_comp and build_1st_layer_part.  The list of vertex p is *)
(* saved with the tags of the vertex at position p, and the lists of the   *)
(* ids beyond the last position are not saved; the part build then builds  *)
(* layer 0 as any other layer.  Every vertex searches.                     *)
BuildFirst ==
  /\ stage = "label" /\ Counted /\ layer = -1
  /\ ~NoStart(0, valid_nodes)
  /\ sp_l_list' = [k \in Layer |-> IF k = 0 THEN EnterPoints(0) ELSE <<>>]
  /\ hier_adj' =
       [p \in Vertex |->
          IF p < Cardinality(valid_nodes)
          THEN Tagged(At(p), IF p \in valid_nodes THEN Choice(p, 0, {}) ELSE <<>>)
          ELSE <<>>]
  /\ layer' = IF Whole THEN 1 ELSE 0
  /\ UNCHANGED <<vars, stage, cnns_2_ori, file, saved>>

(* Vertices search whose lists have room.                                  *)
Searching(k) == {v \in valid_nodes : InLayer(v, k) /\ ~Full(v, k)}

BuildLayer ==
  /\ stage = "label" /\ layer \in Layer
  /\ ~NoStart(layer, Searching(layer))
  /\ sp_l_list' = [sp_l_list EXCEPT ![layer] = EnterPoints(layer)]
  /\ hier_adj' =
       [v \in Vertex |->
          IF InLayer(v, layer)
          THEN hier_adj[v] \o Tagged(v, Choice(v, layer, View(v, layer)))
          ELSE hier_adj[v]]
  /\ layer' = layer + 1
  /\ UNCHANGED <<vars, stage, cnns_2_ori, file, saved>>
BuildFails ==
  /\ stage = "label" /\ Counted
  /\ \/ layer = -1 /\ NoStart(0, valid_nodes)
     \/ layer \in Layer /\ NoStart(layer, Searching(layer))
  /\ Undefined
-----------------------------------------------------------------------------
(* Save_Graph_bin: everything up to the coreness of the vertices.  The     *)
(* process may stop here, too, and nothing tests that what is written      *)
(* reaches the file: the loader finds 0 for a coreness that is not there.  *)
Save ==
  /\ stage = "label" /\ layer = layer_num
  /\ \E n \in 0 .. N :
       /\ file' = [entries |-> sp_l_list, size |-> N, lists |-> <<>>,
                   core |-> [v \in Vertex |-> IF v < n THEN core_list[v] ELSE 0]]
       /\ stage' = IF n = N THEN "save" ELSE "cut"
  /\ saved' = [graph |-> saved.graph, entries |-> sp_l_list, core |-> core_list,
                links |-> hier_adj, compo |-> compo_l, sizes |-> node_num_per_compo]
  /\ UNCHANGED <<vars, cnns_2_ori, index>>

\* Mutant: two bytes are written, not three.
FewBytes(u) == u % (Width \div 2)
Bytes(u) == u % Width

(* The record of the next vertex, or the beginning of it.                  *)
SaveVertex ==
  /\ stage = "save" /\ Len(file.lists) < N
  /\ LET v == Len(file.lists)
         size == Len(hier_adj[v])
     IN  \E n \in 0 .. size :
           /\ file' = [file EXCEPT !.lists = Append(@,
                 [id |-> v, ori |-> cnns_2_ori[v + 1], size |-> size,
                  links |-> [m \in 1 .. n |-> Bytes(hier_adj[v][m].id)]])]
           /\ stage' = IF n = size THEN "save" ELSE "cut"
  /\ UNCHANGED <<vars, cnns_2_ori, index, saved>>

(* Another process opens the file, complete or not, with the files of this *)
(* graph or of another.  What is read up to the coreness needs no          *)
(* component.                                                              *)
Load(g) ==
  /\ stage \in {"save", "cut"}
  /\ IF Len(g.ori) # file.size
     THEN /\ stage' = "refused"
          /\ UNCHANGED <<vars, cnns_2_ori, index>>
     ELSE /\ stage' = "relabel"
          /\ cur_graph_ori_adj' = Induced(g) /\ valid_nodes' = g.valid
          /\ cnns_2_ori' = g.ori /\ core_list' = file.core
          /\ i' = 0 /\ at' = at
          /\ vis' = [k \in Layer' |-> {}] /\ heap' = [k \in Layer' |-> {}]
          /\ j' = [k \in Layer' |-> 0] /\ cnt' = [k \in Layer' |-> 0]
          /\ splist_num' = [k \in Layer' |-> 0] /\ node_num_per_compo' = <<>>
          /\ compo_l' = Labels(file.core, g.valid)
          /\ hier_adj' = [v \in Vertex |-> <<>>] /\ sp_l_list' = <<>>
          /\ layer' = 0
  /\ UNCHANGED <<file, saved>>

Relabel ==
  /\ stage = "relabel" /\ \E t \in Thread : Step(t)
  /\ UNCHANGED <<stage, cnns_2_ori, index, file, saved>>

(* The sizes of the components, in arrays as long as the stored lists of   *)
(* entry vertices: a number beyond them is counted outside the array.      *)
Recount ==
  /\ stage = "relabel" /\ Labelled
  /\ IF \A k \in Layer : splist_num[k] <= Cardinality(DOMAIN file.entries[k])
     THEN /\ node_num_per_compo' =
               [k \in Layer |->
                  [c \in DOMAIN file.entries[k] |->
                     Cardinality({v \in valid_nodes : InComponent(v, k, c)})]]
          /\ sp_l_list' = file.entries
          /\ stage' = "read"
     ELSE /\ stage' = "undefined"
          /\ UNCHANGED <<node_num_per_compo, sp_l_list>>
  /\ UNCHANGED <<graph, i, at, vis, heap, j, cnt, splist_num, compo_l,
                 cnns_2_ori, layer, hier_adj, file, saved>>

\* Mutant: the ids of the file are read and not compared.
AnyGraph(record) == TRUE
SameGraph(record) == cnns_2_ori[record.id + 1] = record.ori

(* What the locals hold after a read.  Nothing tests that it succeeded:    *)
(* behind the end of the file they keep what the last record left in them, *)
(* or what was there before.  A record that stops within its first three   *)
(* numbers counts as not begun.                                            *)
Last == IF file.lists = <<>> THEN {} ELSE {file.lists[Len(file.lists)]}
Header(r) == [id |-> r.id, ori |-> r.ori, size |-> r.size, links |-> <<>>]
Read(n) ==
  IF n <= Len(file.lists) THEN {file.lists[n]}
                          ELSE {Header(r) : r \in Last} \cup {Header(r) : r \in Leftover}
Buffer ==
  {l.nei : l \in Leftover} \cup {r.links[Len(r.links)] : r \in {r \in Last : r.links # <<>>}}
Links(r, e) == [n \in 1 .. r.size |-> IF n <= Len(r.links) THEN r.links[n] ELSE e]

(* What becomes of a record: its id must be one of the arrays before it is *)
(* compared, and so must its neighbours before their layers are.           *)
Outcome(r, e) ==
  IF r.id \notin Vertex THEN "undefined"
  ELSE IF ~SameGraph(r) THEN "refused"
  ELSE IF r.size >= 0 /\ Range(Links(r, e)) \subseteq Vertex THEN "read" ELSE "undefined"

(* The next record; layer counts them.                                     *)
LoadVertex ==
  /\ stage = "read" /\ layer < N
  /\ \E r \in Read(layer + 1), e \in Buffer :
       /\ stage' = Outcome(r, e)
       /\ IF stage' = "read"
          THEN /\ hier_adj' = [hier_adj EXCEPT ![r.id] = @ \o Tagged(r.id, Links(r, e))]
               /\ layer' = layer + 1
          ELSE UNCHANGED <<layer, hier_adj>>
  /\ UNCHANGED <<vars, cnns_2_ori, sp_l_list, file, saved>>

Loaded == stage = "read" /\ layer = N
Ended == (Loaded \/ stage \in {"refused", "undefined"}) /\ UNCHANGED indexVars

IndexNext ==
  \/ Label \/ BuildFirst \/ BuildLayer \/ BuildFails
  \/ Save \/ SaveVertex
  \/ \E g \in {saved.graph} \cup Foreign : Load(g)
  \/ Relabel \/ Recount \/ LoadVertex
  \/ Ended

IndexSpec == IndexInit /\ [][IndexNext]_indexVars
-----------------------------------------------------------------------------
(* The loader has the graph that was indexed and its coreness; the file    *)
(* was written to its end.                                                 *)
GraphGiven ==
  /\ cur_graph_ori_adj = Induced(saved.graph) /\ valid_nodes = saved.graph.valid
  /\ core_list = saved.core
Entire ==
  /\ file.core = saved.core /\ Len(file.lists) = N
  /\ \A n \in DOMAIN file.lists : Len(file.lists[n].links) = file.lists[n].size

(* A neighbour comes back, or, if its id needs more than three bytes, some *)
(* other vertex does.                                                      *)
Back(id, old) == id = old \/ (id < Width /\ Width <= old)
Straight == \A v \in valid_nodes : Position(v) = v

(* What the loader has read when it returns.  Its entry vertices are those *)
(* that were saved.  A vertex whose record reached the file has the id of  *)
(* the graph that was indexed, and its list begins with the neighbours     *)
(* that reached the file; all of its coreness did.  A file written to its  *)
(* end gives nothing else.  Over the graph that was indexed, components    *)
(* have the numbers and sizes of the build, and links their tags if the    *)
(* first layer was saved under the right vertices.  The loader returns for *)
(* other graphs with these ids, too, and for files that end anywhere: what *)
(* it takes for the rest of such a file is not restricted.                 *)
RoundTrip ==
  Loaded =>
    /\ sp_l_list = saved.entries
    /\ Entire \/ file.lists # <<>> => core_list = saved.core
    /\ \A v \in Vertex : v < Len(file.lists) =>
         /\ cnns_2_ori[v + 1] = saved.graph.ori[v + 1]
         /\ Len(hier_adj[v]) >= Len(saved.links[v])
         /\ Entire => Len(hier_adj[v]) = Len(saved.links[v])
         /\ \A n \in 1 .. Len(file.lists[v + 1].links) :
              LET old == saved.links[v][n]
              IN  /\ Back(hier_adj[v][n].id, old.id)
                  /\ GraphGiven /\ Straight /\ old.id < Width => hier_adj[v][n] = old
    /\ GraphGiven => compo_l = saved.compo /\ node_num_per_compo = saved.sizes

(* Searches start in the component they are for: the entry vertex of each  *)
(* component is one of its members when its layer is built, and again when *)
(* the index is loaded over its graph, though the numbers are computed     *)
(* anew.  There is none (-1) where no member is near its centre.           *)
EntryInComponent ==
  \A k \in Layer : (stage = "label" /\ k < layer) \/ (Loaded /\ GraphGiven) =>
    /\ DOMAIN sp_l_list[k] = 0 .. splist_num[k] - 1
    /\ \A c \in DOMAIN sp_l_list[k] :
         /\ \E v \in In(k) : compo_l[v][k] = c
         /\ LET e == sp_l_list[k][c]
            IN  IF e = -1 THEN Near(k, c) = {} ELSE e \in In(k) /\ compo_l[e][k] = c
=============================================================================
