# TLA+ models of CHC-Index

This directory is a verification development for CHC-Index: TLA+ modules translated from the C++ in
`src/SourceCode`, TLC configurations that model-check them on small instances, and proofs for
TLAPS. Line numbers refer to `include/chci.h` unless another file is named.

    tlc -workers 2 -config TrussPar.cfg MCTrussDecomp     # a run (see Runs)
    tlapm TrussDecompProofs.tla                           # the proofs of a module

## 1. The system

CHC-Index answers community queries on attributed graphs: the members of the query's k-core or
k-truss that are closest to the query. A graph is read from files and renumbered; every vertex gets
its coreness (or the largest trussness of its edges); for every level k, the vertices of coreness at
least k form *layer* k; the connected components of each layer are numbered; and in each layer a
proximity graph with at most `max_degree` neighbours per vertex is built. All layers share one
list per vertex (`hier_adj`), whose entries carry the highest layer they belong to. A query walks
the proximity graph of one layer inside one component. Indices are saved and loaded, extended by
single vertices, and lazily shrunk. Two baselines (VAC, ATC) answer truss queries on what the index
returns.

| Component | Code | State | Operations | What is hard | What makes it correct |
|---|---|---|---|---|---|
| Topology | `load_dataset_topology.h` | adjacency | read edge files and typed files | completion, ids against places, typed paths | both ends of every edge once; the graph the files describe |
| Core decomposition | `decomposition.h` 32-93 | `deg`, `vert`, `pos`, `bin` | constructor, `BZ_Decomp` | four arrays kept consistent by exchanges | implements peeling; exact |
| Truss decomposition | `decomposition.h` 97-358 | `h`, `scheduled`, `updated` | support count, h-index rounds | unsynchronised loads by OpenMP threads, lost notifications | ends; never below the trussness; nothing scheduled at the end; exact |
| Reordering, packed arrays, distance of lists | 323-505, `basic_data.h`, `metric_space.h` | permutation, blocks of words | reorder, pack, count common bits | offsets of blocks, words at the borders | a permutation; the distance of the graph |
| Components of the layers | `Core_Connective`, `Core_Connective_part` | `compo_l`, `splist_num`, `node_num_per_compo` | label, count | layers labelled in parallel, labelled again after loading | numbered by the graph alone, nested, all counted |
| Entry points | `Find_Enter_Pt` 129-157 | `sp_l_list` | find the centre | an initial bound, -1 used as an id | a vertex of the component |
| Layer construction | `build_1st_layer_comp`, `build_one_layer_comp` and callees | `cur_layer_adj`, `enter_pt`, a mutex per vertex | search, prune, link back | list read under one lock and written under a later one; nested mutexes; shared `enter_pt` | no deadlock; well-formed bounded lists; locked prefix kept; links not lost |
| Hierarchy | `build_all_layer`, `Init_m_Core_Graph`, 566-574, 626-630 | `hier_adj` | append a layer, view a layer | all layers in one list, each sees `max_degree` entries only | views in the component, no entry twice, nothing hidden later |
| Partial build, saving, loading | 1078-1611, 2153-2300 | files, `valid_nodes` | build over a part, save, load | stopped writers, files read beyond their end, other graphs, 3-byte ids, tags recomputed | what reached the file comes back, and all of it over the graph that was indexed |
| Retrieval | `Retrieve`, `Gen_hop_dist`, `Filt`, `Batch_Del` | `search_queue_length`, `communityBase` (shared), a search per thread | query, filter, lazy deletion | members overwritten by other queries; heap popped without test | closest kept, in the component, within the quota, names and model as promised |
| Dynamic insertion | `Batch_Add`, `Add_Node` and callees | lists, coreness, components, the part that is indexed | register, search, link, replace | nothing else is recomputed; links exchanged in place | fits the loaded index, tags right, higher layers left alone |
| VAC | `integrate/VAC.h`, `Judge_K_Truss` | supports, queue, remaining vertices | prune, delete farthest, cascade | edges queued several times and still counted | supports right, truss kept, stops in time, query kept |
| ATC | `integrate/ATC.h` | the same, with a score and the last round | choose a start, prune, delete in bulk, take back | a round is taken back by copying, not by undoing | the answer has the score it reports and holds the query |
| rKACS, drivers, vendored code | `integrate/`, `tests/`, `3rdPartyLib/` | | | | not modelled, see section 7 |

**Interaction.** The reader gives the decompositions their adjacency; they fill `core_list`, which
decides the renumbering. `Core_Connective` reads both and numbers the components; the entry points are
chosen per component; layer construction starts its searches there and is given the view of the
hierarchy below as locked prefix; what it adds is appended to `hier_adj` with tags computed from the
components; all of it but components and tags is saved, and a loader computes these again. Retrieval
reads `hier_adj`, `sp_l_list`, `compo_l` and `core_list`, and `valid_nodes` after a deletion;
insertion reads and extends the same; VAC and ATC start from what retrieval wrote. The calls are
direct; shared memory within OpenMP loops is the only concurrency, and files are the only
persistence.

## 2. Modules

| Module | Models | State and actions, and their counterparts |
|---|---|---|
| `Topology` | the readers of edge files and of typed (heterogeneous) files | operators: numbers in the order of first occurrence, lists, completion both ways, sorting; typed paths of two and four hops |
| `Peeling` | what a core decomposition promises | `left`, `level`, `coreness`; `Peel(v)` takes away a vertex with the fewest neighbours left |
| `CoreDecomp` | `decomposition` constructor and `BZ_Decomp` | the four arrays; one step looks at one neighbour (exchange, boundary move, `--deg`) or moves on. `Peels` maps it to `Peeling`. `DegreeRange` is the width of `CDEGREE` |
| `Packing` | `Core_Connective_4_Reorder`, `packed_neighbor`, `neighDist` | operators: breadth-first renumbering, blocks of words with an index, membership by binary search, common neighbours by merging; every loop of the code is a number of `Rounds` of one step that is also its guard |
| `BeginBuild` | the first part of `Begin_Build_Graph` | `CoreDecomp` on what `Topology` reads; `Init_Nodes` renumbers and packs (`struct_data_`) |
| `TrussDecomp` | `Parallel_K_Truss_Decomp` | `h`, `scheduled`, `updated`, and per thread the edge, loads and notifications in flight. `Claim`/`Skip`/`Start` take an iteration, `Read` loads one `h[f]`, `FindLower`/`FindSame` compute `H`, `Pass`/`Higher` and `Compare` test a neighbour outside the critical section (two loads of its estimate, which another thread may lower between them), `Mark` sets `scheduled[en]` inside, `Commit` writes `h[e]` and clears `scheduled[e]`, `NextRound`/`Finish` are the `while` |
| `Connective` | `Core_Connective`, `Core_Connective_part`, counting loop 396-400 | per layer `vis`, `heap`, counter; `Claim` takes a layer, `PassOver`/`Found` scan, `Grow` pops the heap, `Finish` records the total, `Count` fills `node_num_per_compo`. `valid_nodes` is the part that is indexed |
| `Persistence` | `Find_Enter_Pt`, the build layer by layer, `Save_Graph_bin`, `Load_Graph_bin`, and their `_part` forms | `Label` (steps of `Connective`), `BuildFirst`, `BuildLayer`, `BuildFails` (a search from an entry vertex -1), `Save`, `SaveVertex` (either may be cut short), `Load` (at any moment of the saving, for this graph or another), `Relabel` (`Connective` again), `Recount`, `LoadVertex` (the next record, or behind the end of the file what the locals hold); `saved` remembers what was saved |
| `LayerBuild` | the loops over the vertices of a layer | `adj`, `lock`, `enter_pt`, and per thread a program counter. A step is what runs under one acquisition of one mutex or one access without it: `enter_pt`, search steps, prune, own list, picking a neighbour, linking back, offering |
| `IndexLists` | the lists all layers share, and what `HierIndex` and `DynamicIndex` read of them | `hier_adj`, `layer`; the carriers of a layer, the view of a layer |
| `HierIndex` | the sequence of layers | `hier_adj`, the layer, the locked views, `todo`, and the history variable `built` (the links a layer was built with). The layer's own choice is any that `LayerBuild` allows, including strays |
| `Retrieve` | a parallel loop over queries, with `Filt` and `Batch_Del` | shared `search_queue_length`, `communityBase`, `valid_nodes`; per thread the sets of the search. `Taking`/`Begin`, `Expand`, `PassOver`/`Admit`/`Trim` (each reads the shared length once), `Stop`, `Post`, `PopEmpty` |
| `DynamicIndex` | `Batch_Add` on a loaded part | graph, coreness, components, lists; its specification is `SpecAdd`. `Register` (coreness, components), `Insert` (search, prune, append), `Make_Edge_Add` (one neighbour), `Found`, `LayerDone`, `Unknown`, `Finish` |
| `TrussQuery` | VAC's query loop, `Del_Edge_Truss`, `Judge_K_Truss`, `Del_Edge` | supports (`sup`), the queue of the first cascade, the pending edges of the second, the vertices left. `Judge`/`Refuse` and the triangle steps are the pruning; then delete, cascade, `Erase`, `Stop` |
| `ATC` | ATC's query | extends `TrussQuery` with `attr_cnt`, `max_score`, `need_del_l`. `Given` chooses the start (the index's result within some hops, or a greedy walk) and hands over to the pruning of `TrussQuery`; `Bulk_General` scores and picks a round, `Del_Edge_Bulk` and `Erase_Bulk` carry it out, `Stop_Bulk` takes the last round back |
| `Listing`, `Extrema` | finite sets and sequences in increasing order, and the state a loop leaves after its iterations (`Rounds`); lemmas on least and greatest elements, on finite sets, iteration and folds, used by the proofs | |

`MCx` modules give the constants of module `x` values; `xProofs` modules hold its theorems, those of
`CoreDecomp` and `Packing` being in `BeginBuildProofs`, which composes them.
A graph, metric or index is a constant where one instance is enough and an element of a set of
inputs, chosen by `Init`, where a run covers a family. Mutated forms of an operator, marked *Mutant*,
stand right before the operator they vary: each breaks a named property in its run, and shows that
the property depends on that line of the code.

**Composition.** Three modules compose others in one state space: `BeginBuild` (files, decomposition,
renumbering, packing), `Persistence` (labelling, entry points, tags as in `HierIndex`, save, load and
labelling again), `ATC` (the start and the rounds of ATC around the pruning it has in common with
VAC). `CoreDecomp` implements `Peeling` by a refinement mapping. The others meet in assumptions:
`HierIndex` assumes nested components, which the run `persistence` checks (`Nested`); it lets a layer
add any links that keep a promise, and `ServesHierarchy` states in the terms of an instance of
`HierIndex` that `LayerBuild` keeps it, with `Strays` for the lists it can produce when searches start
in another component;
`Retrieve` takes any lists that mix layers; `DynamicIndex` starts from lists of the shape `HierIndex`
describes, and reads them through the same operators (`IndexLists`); `TrussQuery` counts supports as `TrussDecomp`'s initial state does.

## 3. Runs

| Run | Instance | Question and answer |
|---|---|---|
| `begin_build` | 336 datasets of 10 vertices: 256 edge files, and typed files for three kinds of path (32, 32, 16) | the graph is the one the files describe (`CoreOfFile`), buckets are in place at every exchange, the decomposition is a peeling (`Peels`) and exact, and packed and renumbered lists give the distances of the graph (`NearAsInGraph`) |
| `truss_par` | octahedron minus an edge, and a pendant edge; 12 edges, 2 threads | `NeverBelow`, `QuietAtEnd`, `Termination` hold under all races; `ExactAlone`: without a disturbing thread the result is exact |
| `truss_race` | the same without the pendant, 2 threads | **violation** of `Exact`, see Findings |
| `persistence` | 8 graphs of 5 vertices, each whole and two parts of it, 2 threads (symmetric), loaders with 3 other graphs, one of them with the same ids; files that end anywhere | numbers depend on the graph only, components are nested and all counted; whatever the loader returns with begins with what reached the file, and is all that was saved if the file is whole and the graph the same (`RoundTrip`); entry vertices are in their components before and after, and missing only where no member is near the centre (`EntryInComponent`) |
| `layer_nsw` | 5 vertices with distances that are not symmetric, one of them a component by itself, 3 threads, the loop that holds its mutex | no threads wait for each other in a round (`NoCircularWait`), the loop ends, every vertex with company is linked, in its component, reciprocally unless full |
| `layer_upper` | the same vertices, locked prefixes, 2 threads, the loop that does not hold it | lists, and what is saved of them, are as `HierIndex` assumes (`ServesHierarchy`: no loop, no duplicate, within `max_degree`), locked prefix kept, no rewrite leaves fewer neighbours |
| `hier_index` | 10 vertices, 4 layers, strays allowed | views above the first layer stay in their component, no view holds a vertex twice, later layers hide nothing |
| `retrieve` | 18 vertices, lists mixing layers, 19 sets of queries, up to 2 threads | an undisturbed search keeps the closest, is full or exhausted, within its quota, pops beyond the end only when starved; any search stays in its component |
| `retrieve_ids` | the same | **violation** of `NamesRetrieved` |
| `retrieve_model` | the same | **violation** of `ModelKept` |
| `truss_query` | two 4-cliques sharing a vertex, with further edges or not, every order of the cascades; queries of VAC and of ATC | supports right, truss kept, nothing short of support left, VAC's loop stops in time, query kept; ATC's answer has the score it reports (`AnswerScored`) |
| `dynamic` | four loaded indices of 7 vertices (two core, two truss), two insertions with 64 x 4 neighbourhoods, and an unknown id | coreness and components fit the index, tags right, full views of higher layers kept |

**Bounds, and why they are enough.** Races in `TrussDecomp` need an edge whose value falls twice
while two triangles share edges: in the octahedron minus an edge every
estimate must fall and the falls depend on each other; the lost notification needs two threads. In
`LayerBuild`, `Degree` 2 with five vertices fills lists, makes them prune and makes offers fail;
four vertices in one component and three threads give a cycle of waiting its chance: it appears when the search
reads lists without their mutexes (the mutant). `HierIndex` follows one list (`Tracked`): lists do
not influence each other there; four layers give entries for a common layer above, at and below
the one that is built. `BeginBuild` needs ten vertices (the code divides by `ntotal_ / 10`); all
graphs on five of them, beside a fixed part, move every boundary; with words of 2 bits and blocks of
3 words, lists of ten ids fill words, skip words and skip blocks, as they do with 64 and 64. Typed files
contain isolated vertices, vertices without partner, several kinds of link and paths of both lengths.
`Persistence` has components that split from layer to layer (a triangle and up to three edges from and between
the two other vertices), a part of the first vertices and one
with a gap, loaders for a graph of another size, for other ids, and for the same ids with more edges.
`Width` 4 makes the highest of five ids come back as another; `Far` 4 leaves some triangles without an entry
vertex; the locals behind the end of a file hold a vertex, something that is none, or the last record. The threads
are symmetric: no definition names one.
`Retrieve`'s fourteen-vertex component is large enough
for `Surplus` to be positive and for a search to drop results; in `DynamicIndex`, `Degree` 3 with triangles and
4-cliques and a measure of its own for each vertex (distances are not symmetric) gives views that are full and views that are not, replaced links above and below the
common layer, refused searches, and re-insertions with and without a place. In `ATC`, `Epsilon` 1/2
deletes two vertices of five to seven at once, so that rounds are taken back that had dropped the
query's truss, the query itself, or nothing; walks end by their bound and by exhaustion. The ids between
those of the graph are free for the second copy of the query that ATC makes.

**Fairness.** `TrussDecomp` and `LayerBuild` assume weak fairness of every thread (an OpenMP thread
that can take a step is eventually scheduled; a mutex that is free is available, and a waiting
thread is only fair once it is) and of the steps after a barrier. `Retrieve` and `Connective` state
the same fairness; `CoreDecomp`, `HierIndex`, `TrussQuery` and `ATC`, sequential code, are fair in
their next step; `Persistence` assumes none, since a process may stop. Liveness is
checked where something could really go on for ever or block: the rounds of the truss decomposition and the
nested mutexes of the layer construction. `CHECK_DEADLOCK` is on in every run; a finished system
stutters by an action of its own.

## 4. Findings

1. **Lost notification in the truss decomposition** (`truss_race`, `decomposition.h:246`). A thread
   computes `H` for edge e from old values; another lowers a neighbour and sets `scheduled[e]`; the
   first, having tested its own neighbours (235), then writes `h[e]` and `scheduled[e] = false` (246). The notification is gone and the loop may
   end with a trussness that is too large. It cannot become too small (`NeverBelow`, proved), nor
   can an estimate rise (proved); a thread that works alone is exact (`ExactAlone`, proved).
2. **Two kinds of ids in the result** (`retrieve_ids`, 895). When the filter drops the query,
   `Retrieve` returns internal ids where it otherwise returns ids of the graph.
3. **Assignment for comparison** (`retrieve_model`, 901). `if (communityBase = truss)` turns every
   index into a truss index at its first query; for a core index the threshold is one too low.

Observations that no document contradicts, so that no run states them as violated:

*Building*

- `enter_pt` is declared outside the parallel loops (529, 599): with two threads and two components
  a search can start in another component and a list of the first layer can hold a stray vertex.
  `ListsInComponent` is proved where this cannot happen, and checked in the loop that has a start of its own (650);
  in `layer_upper` strays occur, and `ServesHierarchy` is what the layers above need of such lists; `HierIndex`
  shows that tags hide strays above the first layer.
- A vertex is offered to a neighbour with the distance from itself to the neighbour, and compared there with distances
  the other way (1029, 1063, 1922): a link may be refused, or another replaced, that the neighbour's own
  distances would have treated otherwise.
- In the loops that do not hold the vertex's mutex (`Make_Edge_comp`), `ReciprocalUnlessFull` may
  fail with two threads: the loop reads a list that another thread has just shortened.
- Deadlock freedom of `Make_Edge_uncomp` rests on its being called in one loop only, over empty lists: in a second loop of that
  kind over the same layer two threads can each hold the vertex the other one links to. No code prevents
  a second call; `OnlyFirstHolds` names what the proof needs.
- The part build writes the lists of the first layer under the position of a vertex among the indexed
  ones (1136-1143), with tags computed for another vertex than the one whose list it is. After a
  load, tags are the saved ones only if the part consists of the first vertices; `RoundTrip` says so (`Straight`).
- `Find_Enter_Pt` starts from a distance of 999 and returns -1 when no member is nearer. The sum of the members' attributes is
  divided by the number of all vertices (145-157), so that a small component can lie far from what the code takes
  for its centre. A search from -1 reads in front of the arrays (`BuildFails`); `EntryInComponent` says when
  that can happen.

*Loading*

- A file that was cut short is accepted: nothing tests that a read succeeded (2281-2299). Behind its end the loader goes on with
  what its locals hold, appends that to some vertex's list, and returns. A list whose record reached the file
  begins with what was saved of it, and that is all that can be promised (`RoundTrip`).
- The loader compares the number of vertices and their ids (2286), and not the edges: an index is accepted for
  another graph with the same ids, with the tags and component numbers of that graph.
- Ids of neighbours are written in three bytes (2185): from 2^24 on, another vertex comes back (`Back`).
- After an insertion as in the repository's `README.md` 5.7, `Save_Graph_bin` and then `Load_Graph_bin` over
  the whole graph, components are numbered anew while the stored entry vertices keep the old order.

*Reading datasets*

- A line that occurs twice in an edge file adds the neighbour twice, and a self loop stays; `Simple`
  names what the exactness of the decomposition needs.
- Lines of a typed graph file are indexed by their place among the known lines, types by the place in the
  vertex file: both must come in one order. The path of four hops compares places with ids, so that
  these must agree. `small_dblp` keeps authors without a coauthor, the other readers drop such
  vertices. The default branch of the dispatch sends DBpedia's types to `read_adj_homo`.
- `neighDist` divides by the number of neighbours of its first argument: it is not symmetric.
  `Add_Node` packs the lists of the inserted vertex and not of its new neighbours.

*Answering*

- `ClosestKept` is for a query no other thread disturbs; with two, `search_queue_length` may be
  neither query's own between the test (853) and the trim (856).
- A vertex that the hops do not reach gets hop distance 0 (805), less than one reached in two hops.
- `Judge_K_Truss` queues `edge1` where it lowers `edge2` (`decomposition.h:287`) and finds only
  the triangles of which the deleted edge is the smallest: what it leaves need not be a truss. The
  properties of the second cascade are stated for whatever it leaves. VAC returns vertices that lost
  all edges in the cascades, too.
- ATC deletes the edges between the neighbours of a deleted vertex where VAC deletes those at the
  vertex (`ATC.h:225-237`). With the index, it takes d + 1 hops for d; the bound on its size ends a hop,
  not the walk, so that up to d vertices more can join. A query without attributes, or a `max_size`
  below 2 (the default `gamma` of 0 gives one), makes it read a candidate at place -1. It appends the query to a list
  that may hold it already (`ATC.h:306`): the second copy counts in supports for good, which are then
  one too high. With trussness 2 the query could be erased, against the assertion at 431;
  the module assumes at least 3.

*Inserting*

- The cut of a neighbour's list treats vertex 0 as an additional candidate (the vector is resized
  to `max_degree` zeros first, 1905); the entry that gives way is the *kept* one of lowest id, not
  the dropped one (1940-1947); a link of a higher layer is lost where fewer than `max_degree - 1`
  of its kind are left (1967-1978); the guard 1754 compares a component number with the number of
  layers of another vertex, so that a search can be refused; the coreness estimate can be above
  or below the true one; and components of inserted vertices need not be nested.

## 5. Proofs

| Module | Theorems | Inductive invariant, and why it is needed |
|---|---|---|
| `TrussDecompProofs` | `TypeCorrect`, `NeverBelowCorrect`, `InFlightCorrect`, `NeverRaisedCorrect` | `IInv`: `TypeOK /\ InFlight /\ NeverBelow`. `NeverBelow` alone is not inductive: a pending value `hi` was computed from loads of different moments. `InFlight` bounds it: loads are out of date upwards only, so `hi` is at least a fresh `Update` and, by monotonicity of the h-index (lemmas), at least the fixpoint `Kappa`; and no two threads hold one edge |
| | `QuietAtEndCorrect` | with `Quiet`: while a round has changed nothing, whoever handled an edge found it as it was and has nobody to notify (`Unmoved`), so an edge already handed out that still waits is in some thread's hands |
| | `ExactAloneCorrect` | for a thread t while the others are idle, `Settled /\ Fresh(t)`: what is not scheduled is no larger than its recomputation, and t's loads are true when it commits; an edge that the commit unsettles is one the notification loop has scheduled (`StaysSettled`). Settled estimates at the end are a truss (`SettledBelow`), hence exact with `NeverBelow` |
| `BeginBuildProofs` | `PeelingExact` | what is taken away had no dense set around it and what is left of a dense set is still dense: after the last vertex, `coreness` is the coreness by definition |
| | `TypeCorrect`, `BucketsCorrect`, `OrderCorrect`; for simple lists `Refinement`, `ExactCorrect` | the arrays are inverse to each other, `bin` bounds the buckets, and the vertex that is peeled has lowered exactly the neighbours it has passed (a lag of one between the degree stored and the degree left, for those not yet passed). This lets every `NextVertex` be a `Peel` and all exchanges stutter; exactness comes from `PeelingExact` through the mapping |
| | `DistanceCorrect` (of `LoadedSpec`, for any lists) | `PackedOnce`: the node data is packed under one numbering that gives no number twice. Each loop has an invariant of its own, carried through its rounds by `StepsWithin` (a step need only be defined where the invariant holds): the queue of the renumbering takes no vertex twice, and every round handles a vertex or adds one, so that none is missing after 2 V rounds (`AllQueued`); the block that is being filled holds the ids so far, each word at the place the number of smaller words gives (`Filled`, `PackedCorrect`); the bounds of the binary search enclose the block (`PosFinds`, `IdInCorrect`); the iterators into two blocks stand at the places of the common word (`BetweenAdds`, `DealCounts`); merging counts what lies in blocks already passed, and what it has not counted lies ahead in both lists (`Merge`, `CommonCounts`). The three parts of an id determine it (`PartsTell`) and grow with it (`PartsGrow`), for every width of word and block |
| | `CoreOfFileCorrect` (of `LoadedSpec`, for simple graphs of plain files) | the invariants of the decomposition, and that the graph stays the one read (`FromFile`). What is read pictures the file (`Pictures`): no id has two numbers, the neighbours of a vertex stand for those of its id in the network, and an id without a number has none. For edges (`HomoPictures`) each loop has its invariant: the numbers given so far are those of the ids so far (`NamesNumber`), the lists are those of the lines so far (`ListedFacts`), and while the lists are completed they hold what was read, nothing but that and its reverse, and the reverse of what the vertices already handled hold (`MirroredFacts`: a list may grow before its own turn, by vertices that already mention it). For typed files (`MetaPictures`) a hop between places is a link between ids (`ReachedLinks`), also where the code compares a place with an id (`PartnersJoin`), and who is left out is joined to nobody (`KeptFacts`). A set closed in the network has only numbered ids, because c is positive, and as many neighbours as its numbers have in the graph (`SameDegree`, `CoreStands`) |
| `LayerBuildProofs` | `TypeCorrect`, `WellFormedCorrect`, `ListsInComponentCorrect` (under `OwnEntryPoint`), `DegreeBoundCorrect`, `LockedKeptCorrect`, `ServesHierarchyCorrect`, `NoneLosesCorrect` | `TypeOK /\ Threads /\ Lists`. `Threads` says what each thread's private data may hold at each program point (candidates in the component, a fill list that starts with the locked prefix, is short, has no repetition), because a list is written under a later acquisition than the one it was read under. `ServesHierarchyCorrect` adds counting only: a list without repetition has as many vertices as places (`ListCount`), so that what follows the locked prefix is an order of what was added. `NoneLosesCorrect` adds `Guarded`: whoever writes a list holds its mutex and writes no fewer vertices than it holds, because what is pruned is taken back from `recycleBin` while there is space (`PrunedNoShorter`) |
| | `EveryVertexLinkedCorrect` (under `FirstLayer`) | `LinkInv`: the first loop visits every vertex and keeps its mutex. A search of the first loop starts at the entry vertex of its component, expands it, and so has a candidate (`Started`). As long as that entry has nobody (`Alone`), a vertex meets only the entry in its sets and in its list (`OnlyEntry`, `Lone`), so that the first to link adds itself there; whoever has no neighbour, and a companion of an entry that has none, is still to come or on its way (`Awaited`). Pruning keeps one of the candidates where there are any (`PrunedKeeps`), and no step empties a list (`EmptyBefore`), so that the loops that follow, of whatever kind, unlink nobody |
| | `ReciprocalCorrect` (under `HeldLoops`) | `MutualInv`: a vertex that links holds its own mutex (`Holding`), so that its list stays the one it is working through (`ListStaysPut`); a neighbour without an answer is full, or still ahead in that list (`ToLink`), or the very target of the thread (`AtTarget`). Full lists stay full (`FullStays`), which is all that is promised once an offer has been refused |
| | `NoCircularWaitCorrect` (under `OnlyFirstHolds`) | `Held`: a mutex is held by who writes the list, and waits for nothing, or by the thread that links the vertex. `WaitInv`, for the first loop: a vertex is in no list before its own mutex is taken for linking (`Unseen`), and a search gets at a list only while its mutex is free (`FreeIsPassive`), so that it collects, besides the entry vertex, only vertices whose links are all made (`SeesPassive`). A thread therefore waits only for writers and for the thread of the entry vertex; and whom the entry vertex can have in its list no longer has it ahead in its own (`LinksPassive`) |
| `PersistenceProofs` | `LabelsCorrect`, `IndexTypes`, `IndexNested`, `IndexNumbered` | `LabelInv`: in the search of a layer, whoever was taken from the heap has no neighbour outside the visited, so that a component ends when the heap is empty; the counter is the number of *first* vertices among those scanned, and a label the number of first vertices before its component's own. Components are the least closed sets of the layer; nesting follows because a closed set of a layer stays closed in those above |
| | `RoundTripHolds`, `EntryHolds` | `IndexInv`: one part per stage. `FileInv`: every record that reached the file is of its vertex and has the first of its links (`Written`, `Began`); a coreness in the file is the saved one or 0, and the saved one once a record follows. `ReadInv`: a list begins with the links of its record, and keeps them whatever is read behind the end of the file and appended to it (`Kept`, `Begins`); where nothing was read behind the end it has no others. A numbering is determined by the graph (`OneKnown`), so the loader's is the saved one over the graph that was indexed (`SavedFits`); the tags of a link are a function of numbering and ids, and the same before and after where positions are ids. Every number below the count belongs to a component (`EveryNumber`); an entry is -1 exactly where `Near` is empty, and a member of its component otherwise (`EntriesRight`) |
| `IndexProofs` | `TypeCorrect`, `ViewInComponentCorrect`, `NoDuplicatesCorrect` (without strays), `NoneSeenTwiceCorrect`, `LayerKeepsLinksCorrect` | type, every tag the maximal common layer, distinct ids among the carriers of the current layer, the locked set equal to the view, carriers fit in `max_degree`, unbuilt layers empty, and `LayerKeepsLinks` |
| | `LayersFitCorrect`, `HomeIsNeighboursCorrect`, `TagsCommonCorrect` (all of `SpecAdd`) | `AddInv`: an id still to be added is indexed nowhere, so that nothing links to it and its list is empty; the ends of every edge are indexed; the vertex being inserted works on layers it has. The estimate of its coreness is at most the highest coreness around it, which gives it a neighbour in every layer to take the component from; the search starts from indexed vertices and follows links, hence stays among them (`StepsExist` for its rounds); an exchanged or re-inserted link keeps its tag at most the common layer, and one that is cut to it stays there, because components of vertices that are there are never changed |
| | `FullViewsKeptCorrect` (for `max_degree` > 1, under `[]OffersShared`), `OffersSharedCorrect` (under `[]NestedHomes`) | The entry that gives way is one the layer of the offer sees, hence among the first `max_degree` that carry a higher layer; it is put back behind at most `max_degree - 1` of these, and the others keep their order (`ViewExchanged`, by counting carriers up to each place). This needs that the ends of the offered link share the layer of the offer. They do as long as components are nested, because links of a layer or of higher ones then do not leave the component the search starts in; the components of inserted vertices need not be nested (`HomeOf`), so that this is a condition and no invariant |
| `RetrieveProofs` | `TypeCorrect`, `StaysInComponentCorrect`, `ResultsBoundedCorrect` | `TypeOK` and, per thread, what the search sets contain at each program point; nothing is assumed of `search_queue_length` but that some query wrote it |
| | `ClosestKeptCorrect`, `FullOrExhaustedCorrect`, `PopsCoveredCorrect`, `WithinQuotaCorrect` | `SteadySearches`, for a thread t whose fellows have no queries: the length is the one t asked for; what was visited and is no result is no closer than any result *nor than lowerBound*, so that an admission below lowerBound is closer than everything dropped; while there is room every visited vertex is a result and every expanded one has its links visited; lowerBound covers the queue once a result was admitted, and no vertex is closer to the query than itself, so that a search with room ends only when nothing is left to expand. The sets of `Gen_hop_dist` and of `Reachable` are functions by recursion, which exist (`Iterates`) |
| `TrussQueryProofs` | `TypeCorrect`, `SupportCountsCorrect`, `EnoughLeftCorrect`, `TrussesKeptCorrect`, `QueryKeptCorrect` | support equals triangles among the edges not yet taken, pending edges have lost theirs, the floor of every live edge, and: every truss that avoids the deleted vertices is live |
| | `TrussKeptCorrect`, `StopsInTimeCorrect` | `Largest` is a function by recursion: it exists, contains every truss of the set (`LargestContains`) and is one (`LargestIsTruss`), because a round that drops something leaves fewer edges than rounds. `InTimeInv`: as long as the loop goes on the query has a truss without the erased vertices; when it erases one, the edges left are that truss, each above the floor and, being apart from the erased vertices (`Apart`), none of theirs |
| | `AnswerScoredCorrect`, `VACKept` (both of `ATCSpec`) | `ATCInv`: for a query of VAC, the invariant above; for one of ATC, the counters are those of the vertices left, and the score is theirs or, when a round has just ended, that of those before the round. The query stays although it is deleted like others: what its edges have left are triangles whose third edge lies around the query (`QuerysEdges`; only edges of others count the copy), and those edges wait or are gone (`Around`), so that with the query deleted `Holds` is false. `Squared`: the sum is a fold, which exists (`FoldingExists`) and is a whole number |
| `Extrema` | least and greatest elements of finite sets; a function of sets can be iterated (`Iterates`), also with steps that depend on the round (`StepsExist`) or are defined only where an invariant holds (`StepsWithin`), a fold over a finite set exists (`FoldingExists`), and what rounds and folds keep | |

All theorems hold for every value of the constants that satisfies the module's named assumption:
any graph, number of threads, degree and queue length. The assumptions are those TLC evaluates in
the runs: graphs are finite, simple and symmetric; `max_degree` is positive; components are nested
(`HierIndex`); ids to be inserted are new and distinct, and the index they go into was built for a graph with an edge,
with entry points in every component of every layer (`DynamicIndex`); no two vertices are equally far from a third, whichever way the distances are taken (`LayerBuild`,
`DynamicIndex`). A graph given to a loader by mistake need only have symmetric lists and a vertex that is indexed, its ids may be those
of the graph that was indexed, and the loader's locals may hold anything (`Persistence`). The conditions `OwnEntryPoint`, `FirstLayer`, `HeldLoops` and
`OnlyFirstHolds` of `LayerBuild` are named in the theorems that need them. All four hold of the loop of `layer_nsw`;
`FirstLayer` holds of the first layer with all its loops, and `OnlyFirstHolds` of every layer the program builds; the
later loops satisfy `OwnEntryPoint` with one thread or one component, and `HeldLoops` never. `CoreDecomp` itself takes
any lists; `Refinement`, `ExactCorrect` and `CoreOfFileCorrect` name the further condition `Simple` in their statements, and
`CoreOfFileCorrect` the condition `Plain` on every file, which TLC evaluates for the files of `begin_build`: without it
the readers do take other lines for those of a vertex, or compare a place with an id that is not one.

Each proof has the shape `Init => IInv`, `IInv /\ [Next]_vars => IInv'` with one lemma or step per
action, and `IInv => Property`; the lemmas on operators (h-index, views, common layers, triangles,
exchanges) are stated once and cited. `ExactAlone` is conditional: its proof assumes `Alone(t)` of every
state and takes it on both sides of a step. So is `FullViewsKeptCorrect`; `OffersShared` holds in every state of
the run `dynamic`, `NestedHomes` in most. The type invariants of `LayerBuild`, `HierIndex`, `TrussDecomp`,
`CoreDecomp`, `Retrieve` and `TrussQuery` are proved, and so no run repeats them.

**Model-checked only.** Liveness (`Termination`), which this prover does not reach. Every invariant and
every action property that a run checks is proved; two of them under conditions that the loops of the later layers
do not satisfy, see above: `ListsInComponent` and `ReciprocalUnlessFull` do fail there with two threads.

## 6. Limits of the models

- Reads of freed memory (a list reallocated under a reader, `Make_Edge_comp`) are not followed, nor is
  what happens after a heap is popped beyond its end (`PopEmpty` leads to "undefined"). `Persistence` follows what is read
  beyond the end of a file, and ends in "undefined" only where an array is left: an id that is no vertex's, a size
  below 0, a component number beyond the stored entry vertices, a search from -1. The read of `neighbor_coreness[SIZE_MAX]` (2003) has no effect
  on the state: its value is compared with `SIZE_MAX`, which no value exceeds, and the loop ends.
- Distances are tables of naturals. Ties are excluded in `LayerBuild` and `DynamicIndex`, and left open in
  `Retrieve`. `r`, `L_scale`, `epsilon` and the score are exact fractions, not floats; `Find_Enter_Pt`
  works on one attribute, and the centre is scaled by the number of vertices instead of divided.
- The links of a layer in `Persistence` are given by a constant function of what fits and what is
  there (`Chosen`); which links are possible is the subject of `LayerBuild`. The parameters at the head of an index file are not followed,
  nor a file that ends before its number of vertices; a record that stops within its three leading numbers counts as not begun.
- The support count before the truss rounds is taken by its result: its increments are atomic and
  commute.
- The order of the second cascade follows a hash set in the code; every order is allowed here.
- `Packing` tests membership in a list with words only, as its callers do: `id_in` reads `pos` of an
  empty list otherwise.
- Inserted ids are new and distinct; an id that is inserted twice is not considered.
- `LayerBuild` takes the outcome of the distance-ratio tests (alpha, beta) as a constant relation
  `blocks` of each pass between a vertex, a neighbour, and a candidate with the distance it is offered at, the same whenever it is asked.

## 7. Not modelled, and the plan

What is left, in the order of what it protects:

1. A run on the lost link of `DynamicIndex`; `Del_Node`,
   which nothing calls.
2. An atomic insertion that the holding loop of `LayerBuild` implements.
3. The files between the index and the baselines (queries, results), and the attribute sets of ATC;
   the community distance VAC prints.

Left out for good: the metrics of attributes (float arithmetic), drivers and scripts (argument parsing and
timing), basic types and utilities (no state), rKACS (a comparator from another project with its own build, which nothing in
`include/` calls), vendored libraries (snap, parallel_hashmap: third-party code, and by far most of
the repository's lines).
