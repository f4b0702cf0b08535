----------------------------- MODULE IndexLists -----------------------------
(***************************************************************************)
(* The lists of the index (chci.h, hier_adj).  All layers share one list   *)
(* per vertex: an entry carries the highest layer it belongs to, and layer *)
(* k sees the first max_degree entries that carry k or more.  The layers   *)
(* are built on them (HierIndex), and vertices added to them later         *)
(* (DynamicIndex).                                                         *)
(***************************************************************************)
EXTENDS Integers, Sequences, FiniteSets

CONSTANT Degree  \* max_degree

VARIABLES
  hier_adj,  \* the shared lists, of records of a tag and an id
  layer      \* the layer that is being built, or a vertex is being added to

(* Read_m_Core_Neighs_Build, and Retrieve's loop: the entries layer k sees.*)
\* Mutant: > for >= .
CarriesMore(e, k) == e.tag > k
Carries(e, k) == e.tag >= k
UpTo(list, j) == 1 .. j

Seen(list, k) ==
  {j \in DOMAIN list :
     /\ Carries(list[j], k)
     /\ Cardinality({m \in UpTo(list, j) : Carries(list[m], k)}) <= Degree}
View(list, k) == {list[j].id : j \in Seen(list, k)}

=============================================================================
