----------------------------- MODULE HierIndex -----------------------------
(***************************************************************************)
(* The hierarchy of layers (chci.h, build_all_layer).  All layers share    *)
(* one list per vertex, hier_adj: an entry carries the highest layer in    *)
(* which its two ends are in one component, and layer k sees the first     *)
(* max_degree entries that carry k or more.  A layer is built from what it *)
(* sees (Init_m_Core_Graph), and what it adds is appended                  *)
(* (build_one_layer_comp).  How a layer chooses the links it adds is the   *)
(* subject of LayerBuild; here it may add any that LayerBuild allows.      *)
(***************************************************************************)
EXTENDS IndexLists

CONSTANTS
  Node,      \* the vertices (cnns ids)
  Tracked,   \* those whose lists are followed: the lists are independent
  Core,      \* core_list
  Compo,     \* compo_l[v][k]: v's component in layer k, for k <= Core[v]
  MaxLayer,  \* max_coreness
  Strays     \* a search may start outside its component (LayerBuild)

(* Core_Connective: components are those of the subgraph that layer k      *)
(* induces, so that two vertices together in a layer are so below it.      *)
ASSUME HierAssumption ==
  /\ IsFiniteSet(Node) /\ Tracked \subseteq Node
  /\ Degree \in Nat \ {0} /\ MaxLayer \in Nat /\ Strays \in BOOLEAN
  /\ Core \in [Node -> 0 .. MaxLayer]
  /\ DOMAIN Compo = Node /\ \A v \in Node : DOMAIN Compo[v] = 0 .. Core[v]
  /\ \A u, v \in Node : \A k \in 0 .. MaxLayer : \A l \in 0 .. k :
       (k <= Core[u] /\ k <= Core[v] /\ Compo[u][k] = Compo[v][k])
         => Compo[u][l] = Compo[v][l]

InLayer(k) == {v \in Node : Core[v] >= k}
Together(u, v, k) ==
  {u, v} \subseteq InLayer(k) /\ Compo[u][k] = Compo[v][k]

Entries == [tag : 0 .. MaxLayer, id : Node]

(* Return_Maximum_Common_Layer counts down to the first layer where the    *)
(* two are together, and gives 0 if there is none.                         *)
CommonLayers(u, v) == {k \in 1 .. MaxLayer : Together(u, v, k)} \cup {0}

\* Mutant: the smaller of the two coreness values, whatever the components.
MinCore(u, v) == IF Core[u] < Core[v] THEN Core[u] ELSE Core[v]
MaxCommonLayer(u, v) ==
  CHOOSE k \in CommonLayers(u, v) : \A l \in CommonLayers(u, v) : l <= k

VARIABLES
  locked,    \* the lists the layer starts from (ind_subgraph)
  todo,      \* the vertices whose additions are still to be appended
  built      \* history: the lists each layer was built with (cur_layer_adj)

vars == <<hier_adj, layer, locked, todo, built>>

Init ==
  /\ hier_adj = [v \in Tracked |-> <<>>]
  /\ layer = 0
  /\ locked = [v \in Tracked |-> {}]
  /\ todo = Tracked \cap InLayer(0)
  /\ built = [k \in 0 .. MaxLayer |-> [v \in Tracked |-> {}]]

(* What LayerBuild promises: the locked neighbours are kept, the list is   *)
(* within max_degree and, unless threads disturb each other's enter_pt, in *)
(* v's component.                                                          *)
Eligible(v) ==
  {u \in InLayer(layer) \ {v} : Strays \/ Together(u, v, layer)}
Extensions(v) ==
  {S \in SUBSET Eligible(v) : locked[v] \subseteq S /\ Cardinality(S) <= Degree}

\* Mutant: the locked neighbours are appended again.
AddedAll(v, S) == S
Added(v, S) == S \ locked[v]

Orders(S) ==
  {s \in [1 .. Cardinality(S) -> S] : \A i, j \in DOMAIN s : s[i] = s[j] => i = j}
Tagged(v, order) ==
  [j \in DOMAIN order |-> [tag |-> MaxCommonLayer(order[j], v), id |-> order[j]]]

(* The loop that appends what follows the locked neighbours of v.          *)
Save(v) ==
  /\ v \in todo
  /\ \E S \in Extensions(v) :
       /\ built' = [built EXCEPT ![layer][v] = S]
       /\ \E order \in Orders(Added(v, S)) :
            hier_adj' = [hier_adj EXCEPT ![v] = @ \o Tagged(v, order)]
  /\ todo' = todo \ {v}
  /\ UNCHANGED <<layer, locked>>

Following == layer + 1

(* build_all_layer goes on to the next layer, which starts from what it    *)
(* sees in hier_adj.                                                       *)
NextLayer ==
  /\ todo = {} /\ layer < MaxLayer
  /\ layer' = Following
  /\ todo' = Tracked \cap InLayer(Following)
  /\ locked' = [v \in Tracked |->
                  IF v \in InLayer(Following) THEN View(hier_adj[v], Following)
                                              ELSE {}]
  /\ UNCHANGED <<hier_adj, built>>

Built == todo = {} /\ layer = MaxLayer
Terminated == Built /\ UNCHANGED vars

Next == (\E v \in Tracked : Save(v)) \/ NextLayer \/ Terminated

Spec == Init /\ [][Next]_vars /\ WF_vars(Next)

-----------------------------------------------------------------------------
TypeOK ==
  /\ hier_adj \in [Tracked -> Seq(Entries)]
  /\ layer \in 0 .. MaxLayer
  /\ locked \in [Tracked -> SUBSET Node]
  /\ todo \in SUBSET Tracked
  /\ built \in [0 .. MaxLayer -> [Tracked -> SUBSET Node]]

(* A vertex is in the view of a layer only if it is in the layer and in    *)
(* v's component there: cnns_2_cur_layer of a neighbour is never -1, and a *)
(* search that enters a component does not leave it.  A link that strays   *)
(* out of the component is hidden by its tag, in all layers but the first. *)
ViewInComponent ==
  \A v \in Tracked : \A k \in 0 .. Core[v] :
    \A u \in View(hier_adj[v], k) : Together(u, v, k) \/ (Strays /\ k = 0)

(* No vertex is appended to a list a second time: a higher layer finds the *)
(* links of the lower ones among its candidates, and would choose one      *)
(* again if it did not see it.  Where links stray this need not hold.      *)
NoDuplicates ==
  \A v \in Tracked : \A i, j \in DOMAIN hier_adj[v] :
    hier_adj[v][i].id = hier_adj[v][j].id => i = j

(* Even then the list that Init_m_Core_Graph hands to the next layer holds *)
(* no vertex twice, and the layer sees all that carries it.                *)
NoneSeenTwice ==
  \A v \in Tracked : \A i, j \in DOMAIN hier_adj[v] :
    Carries(hier_adj[v][i], layer) /\ Carries(hier_adj[v][j], layer) =>
      /\ i \in Seen(hier_adj[v], layer)
      /\ hier_adj[v][i].id = hier_adj[v][j].id => i = j

(* What the higher layers append never hides a link from a layer: it sees, *)
(* and Retrieve follows, every neighbour in its component that it was      *)
(* built with.                                                             *)
LayerKeepsLinks ==
  \A k \in 0 .. layer : \A v \in Tracked : v \in InLayer(k) =>
    {u \in built[k][v] : Together(u, v, k)} \subseteq View(hier_adj[v], k)

=============================================================================
