----------------------------- MODULE BeginBuild -----------------------------
(***************************************************************************)
(* The first steps of Begin_Build_Graph, from the files of a dataset: the  *)
(* graph that Topology reads is the one CoreDecomp decomposes; its         *)
(* vertices are then renumbered by their coreness and their neighbours     *)
(* packed (Packing).                                                       *)
(***************************************************************************)
EXTENDS CoreDecomp, Topology, Packing

CONSTANT Files   \* the files considered, by the name of a dataset

Loaded == [f \in DOMAIN Files |-> Read(Files[f])]

ASSUME FilesAssumption == Graphs = {Loaded[f].adj : f \in DOMAIN Files}

VARIABLES
  dataset,
  struct_data_   \* the packed neighbours of each vertex, << >> before there are any

built == <<vars, dataset, struct_data_>>

LoadedInit ==
  /\ dataset \in DOMAIN Files /\ ori_adj = Loaded[dataset].adj /\ Init
  /\ struct_data_ = <<>>

Decompose == Next /\ UNCHANGED <<dataset, struct_data_>>

(* Each iteration of the loop over the vertices, which is parallel, writes *)
(* the entry of its own vertex only.                                       *)
Init_Nodes ==
  /\ Returned /\ struct_data_ = <<>>
  /\ LET reordered == cnns_2_reordered(ori_adj, core_list)
     IN  struct_data_' = [v \in Vertex |-> Structure_data(v, ori_adj, reordered)]
  /\ UNCHANGED <<vars, dataset>>

LoadedNext == Decompose \/ Init_Nodes
LoadedSpec == LoadedInit /\ [][LoadedNext]_built
-----------------------------------------------------------------------------
(* What the files mean, without places and numbers.                        *)
TypeOf(f, x) == f.vertices[Place(f, x)].type
Linked(f, x, hop, y) ==
  /\ TypeOf(f, y) = hop.type
  /\ \E r \in Range(f.links) :
       r.id = x /\ \E l \in r.to : l.id = y /\ l.kind \in hop.kinds

Entities(f) ==
  IF f.layout = "edges" THEN {l[1] : l \in Range(f.lines)} \cup {l[2] : l \in Range(f.lines)}
  ELSE {x \in {w.id : w \in Range(f.vertices)} : TypeOf(f, x) = f.path[Len(f.path)].type}

Joined(f, x, y) ==
  IF f.layout = "edges" THEN <<x, y>> \in Range(f.lines) \/ <<y, x>> \in Range(f.lines)
  ELSE LET ids == {w.id : w \in Range(f.vertices)}
           To(n, u) == {w \in ids : Linked(f, u, f.path[n], w)}
       IN  IF Len(f.path) = 2 THEN \E a \in To(1, x) : y \in To(2, a)
           ELSE \E a \in To(1, x) : \E b \in To(2, a) \ {x, y} :
                  \E c \in To(3, b) \ {a} : y \in To(4, c)

Network ==
  [d \in DOMAIN Files |->
     LET ids == Entities(Files[d])
     IN  [x \in ids |-> {y \in ids \ {x} : Joined(Files[d], x, y)}]]

(* The files the next property is about: of edges, without loops; typed,   *)
(* with ids given once, the n-th line of a known vertex that of the n-th   *)
(* vertex, as the code takes it, ids that are places where the code        *)
(* compares them with places, and paths that lead back.                    *)
Plain(f) ==
  IF f.layout = "edges"
  THEN f.lines \in Seq(Nat \X Nat) /\ \A l \in Range(f.lines) : l[1] # l[2]
  ELSE /\ f.vertices \in Seq([id : Nat, type : Nat])
       /\ f.links \in Seq([id : Nat, to : SUBSET [id : Nat, kind : Nat]])
       /\ \A m, n \in DOMAIN f.vertices : f.vertices[m].id = f.vertices[n].id => m = n
       /\ DOMAIN Rows(f) = DOMAIN f.vertices
       /\ \A n \in DOMAIN Rows(f) : Rows(f)[n].id = f.vertices[n].id
       /\ Len(f.path) \in {2, 4}
       /\ Len(f.path) = 4 => \A n \in DOMAIN f.vertices : f.vertices[n].id = n - 1
       /\ \A x, y \in Entities(f) : Joined(f, x, y) => Joined(f, y, x)

(* From the files to the result: the vertices of coreness c or more are    *)
(* those of the c-core of the network the files describe.  Stated for      *)
(* plain files without a line that occurs twice.  (The sets of one element *)
(* have TLC evaluate their member once.)                                   *)
CoreOfFile ==
  Returned =>
    \A near \in {Network[dataset]}, names \in {Loaded[dataset].names} :
      \A c \in DOMAIN bin \ {0} : \A core \in {{names[v + 1] : v \in Core(c)}} :
        LET Close(S) == \A x \in S : Cardinality(near[x] \cap S) >= c
        IN  /\ Close(core)
            /\ \A S \in SUBSET DOMAIN near : Close(S) => S \subseteq core

(* The words, blocks and new numbers give the distance that the graph      *)
(* gives: 6 where one has no neighbours, else 4 without a common           *)
(* neighbour, 2 with one and no edge, and the share of the first's         *)
(* neighbours that the second does not have.                               *)
NearAsInGraph ==
  struct_data_ # <<>> =>
    \A u, v \in Vertex :
      LET near == Range(ori_adj[u])
          shared == Cardinality(near \cap Range(ori_adj[v]))
      IN  neighDist(struct_data_[u], struct_data_[v]) =
            IF near = {} \/ Range(ori_adj[v]) = {} THEN [base |-> 6, num |-> 0, den |-> 1]
            ELSE [base |-> IF shared = 0 THEN 4 ELSE IF u = v \/ v \in near THEN 0 ELSE 2,
                  num |-> Cardinality(near) - shared, den |-> Cardinality(near)]
=============================================================================
