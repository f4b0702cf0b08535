------------------------------ MODULE Topology ------------------------------
(***************************************************************************)
(* The graph a dataset gives (load_dataset_topology.h).  A file of edges   *)
(* is read twice, for the numbers of its ids and for the lists, which are  *)
(* then completed both ways.  In a heterogeneous network, vertices of one  *)
(* type are adjacent when a path of given types leads from one to the      *)
(* other.  A file is [layout |-> "edges", lines] with pairs of ids, or     *)
(* [layout |-> "typed", vertices, links, path, keep] with the lines of the *)
(* vertex file and of the graph file.                                      *)
(***************************************************************************)
EXTENDS Listing

(* Ids are numbered in the order in which they first occur.                *)
Noted(names, x) == IF x \in Range(names) THEN names ELSE Append(names, x)
Names(lines) ==
  LET Step(n, names) == Noted(Noted(names, lines[n][1]), lines[n][2])
  IN  Rounds(Len(lines), <<>>, Step)

Number(names, x) == SelectInSeq(names, LAMBDA y : y = x) - 1

Listed(lines) ==
  LET names == Names(lines)
      none == [v \in 0 .. Len(names) - 1 |-> <<>>]
      Step(n, adj) ==
        [adj EXCEPT ![Number(names, lines[n][1])] = Append(@, Number(names, lines[n][2]))]
  IN  Rounds(Len(lines), none, Step)

\* Mutant: added without looking.
AddedBack(adj, v, u) == [adj EXCEPT ![u] = Append(@, v)]
WithBack(adj, v, u) ==
  IF v \in Range(adj[u]) THEN adj ELSE [adj EXCEPT ![u] = Append(@, v)]

(* Both ends of every edge, vertex by vertex.                              *)
BackFrom(adj, v) ==
  LET Step(n, a) == WithBack(a, v, adj[v][n]) IN Rounds(Len(adj[v]), adj, Step)

Mirrored(adj) ==
  LET Step(n, a) == BackFrom(a, n - 1) IN Rounds(Cardinality(DOMAIN adj), adj, Step)

Sorted(adj) == [v \in DOMAIN adj |-> Ordered(adj[v])]

Homo(file) == [names |-> Names(file.lines), adj |-> Sorted(Mirrored(Listed(file.lines)))]

-----------------------------------------------------------------------------
(* The place of a vertex in the vertex file, 0 when it is not there.       *)
Place(file, x) == SelectInSeq(file.vertices, LAMBDA w : w.id = x)

(* The lines of known vertices.  The code takes the n-th of them to be     *)
(* that of the n-th vertex.                                                *)
Rows(file) ==
  LET known == InOrder({n \in DOMAIN file.links : Place(file, file.links[n].id) # 0})
  IN  [n \in DOMAIN known |-> file.links[known[n]]]

(* One hop from the vertex at place n, by a link of the kinds given to a   *)
(* vertex of the type given.                                               *)
Reached(file, n, hop) ==
  LET known == {l \in Rows(file)[n].to : l.kind \in hop.kinds /\ Place(file, l.id) # 0}
  IN  {m \in {Place(file, l.id) : l \in known} : file.vertices[m].type = hop.type}

(* Two hops; or four, which do not come back to the first vertex and       *)
(* otherwise compare a place with an id.                                   *)
Partners(file, n) ==
  LET Hop(h, m) == Reached(file, m, file.path[h])
  IN  IF Len(file.path) = 2
      THEN (UNION {Hop(2, a) : a \in Hop(1, n)}) \ {n}
      ELSE {d \in DOMAIN file.vertices \ {n} :
              \E a \in Hop(1, n) : \E b \in Hop(2, a) \ {n} : \E c \in Hop(3, b) :
                /\ c - 1 # file.vertices[a].id
                /\ d \in Hop(4, c) /\ d - 1 # file.vertices[b].id}

(* The vertices of the path's type; read_adj_heter leaves out those        *)
(* without a partner, read_adj_loose_DBLP keeps them.                      *)
Kept(file) ==
  {n \in DOMAIN Rows(file) :
     /\ file.vertices[n].type = file.path[Len(file.path)].type
     /\ file.keep \/ Partners(file, n) # {}}

Meta(file) ==
  LET kept == InOrder(Kept(file))
      names == [m \in DOMAIN kept |-> file.vertices[kept[m]].id]
      Ids(n) == {file.vertices[p].id : p \in Partners(file, n)} \cap Range(names)
  IN  [names |-> names,
       adj |-> [v \in 0 .. Len(names) - 1 |->
                  InOrder({Number(names, x) : x \in Ids(kept[v + 1])})]]

Read(file) == IF file.layout = "edges" THEN Homo(file) ELSE Meta(file)
=============================================================================
