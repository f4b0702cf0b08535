---------------------------- MODULE MCBeginBuild ----------------------------
(* Ten vertices, the fewest the code can handle: edge files with every     *)
(* graph on five of them next to a fixed part, and typed files for each of *)
(* the three kinds of path.                                                *)
EXTENDS BeginBuild

(* An edge file: ids that are not numbers of vertices, ends in either      *)
(* order, some edges once in each direction.                               *)
Active == {21, 23, 24, 26, 28}
Fixed == {{20, 22}, {22, 25}, {20, 25}, {25, 23}, {27, 26}, {27, 28}, {29, 20}, {21, 29}, {24, 27}}
Pairs == {e \in {{u, v} : u, v \in Active} : Cardinality(e) = 2} \ {{21, 28}, {23, 26}}
Lines(edges) ==
  {l \in Vertex \X Vertex :
     /\ {l[1] + 20, l[2] + 20} \in edges /\ l[1] # l[2]
     /\ (l[1] < l[2] <=> (l[1] + l[2]) % 2 = 0) \/ (l[1] + l[2]) % 3 = 0}
EdgeFile(edges) ==
  LET keys == InOrder({10 * ((l[2] * 7) % 10) + l[1] : l \in Lines(edges)})
  IN  [layout |-> "edges",
       lines |-> [n \in DOMAIN keys |-> <<20 + (keys[n] % 10), 20 + (((keys[n] \div 10) * 3) % 10)>>]]

(* A typed file: links there and back, the line of a vertex at its place.  *)
TypedFile(vertices, links, path, keep) ==
  [layout |-> "typed", vertices |-> vertices, path |-> path, keep |-> keep,
   links |-> [n \in DOMAIN vertices |->
     [id |-> vertices[n].id,
      to |-> {[id |-> l[3], kind |-> l[2]] : l \in {m \in links : m[1] = vertices[n].id}}]]]
Both(pairs, there, back) ==
  {<<p[1], there, p[2]>> : p \in pairs} \cup {<<p[2], back, p[1]>> : p \in pairs}
OfType(ids, type) ==
  LET s == Reverse(InOrder(ids)) IN [n \in DOMAIN s |-> [id |-> s[n], type |-> type]]

(* Authors 1 to 10 and papers 11 to 14, for small_dblp.                    *)
Wrote == {<<1, 11>>, <<2, 11>>, <<3, 11>>, <<4, 11>>, <<4, 12>>, <<5, 12>>, <<6, 12>>,
          <<7, 13>>, <<8, 13>>, <<9, 14>>, <<1, 14>>}
Maybe == {<<1, 12>>, <<4, 13>>, <<9, 13>>, <<5, 14>>, <<10, 14>>}
DblpFile(more) ==
  TypedFile(OfType(11 .. 14, 1) \o OfType(1 .. 10, 0), Both(Wrote \cup more, 0, 1),
            <<[kinds |-> {0, 1}, type |-> 1], [kinds |-> {0, 1}, type |-> 0]>>, TRUE)

(* IMDB_Person: persons who meet in a film; one, 19, meets nobody.         *)
PersonFile(more) ==
  TypedFile(OfType((1 .. 10) \cup {19}, 1) \o OfType(11 .. 15, 0),
            Both(Wrote \cup more \cup {<<10, 12>>, <<19, 15>>}, 21, 9) \cup {<<19, 3, 11>>},
            <<[kinds |-> {21}, type |-> 0], [kinds |-> {9}, type |-> 1]>>, FALSE)

(* IMDB_Movie: films 0 to 9, from one to another by a person of the first  *)
(* role, a film and a person of the second; ids are places.                *)
First == {<<0, 10>>, <<1, 10>>, <<2, 10>>, <<3, 11>>, <<4, 11>>, <<5, 12>>, <<6, 12>>, <<7, 13>>,
          <<8, 13>>, <<9, 13>>}
Second == {<<0, 11>>, <<0, 12>>, <<7, 10>>, <<7, 11>>, <<2, 12>>, <<2, 13>>}
MaybeSecond == {<<5, 10>>, <<5, 13>>, <<0, 13>>, <<7, 13>>}
Ascending(ids, type) ==
  LET s == InOrder(ids) IN [n \in DOMAIN s |-> [id |-> s[n], type |-> type]]
MovieFile(more) ==
  TypedFile(Ascending(0 .. 9, 0) \o Ascending(10 .. 13, 1),
            Both(First, 3, 15) \cup Both(Second \cup more, 0, 12),
            <<[kinds |-> {3}, type |-> 1], [kinds |-> {12}, type |-> 0],
              [kinds |-> {0}, type |-> 1], [kinds |-> {15}, type |-> 0]>>, FALSE)

FileNames ==
  ({"edges"} \X SUBSET Pairs) \cup ({"dblp", "person"} \X SUBSET Maybe)
    \cup ({"movie"} \X SUBSET MaybeSecond)
AllFiles ==
  [f \in FileNames |-> CASE f[1] = "edges" -> EdgeFile(Fixed \cup f[2])
                         [] f[1] = "dblp" -> DblpFile(f[2])
                         [] f[1] = "person" -> PersonFile(f[2])
                         [] f[1] = "movie" -> MovieFile(f[2])]
AllGraphs == {Read(AllFiles[f]).adj : f \in FileNames}

(* Named twice, so that TLC evaluates them once.                           *)
MCFiles == AllFiles
MCGraphs == AllGraphs

(* What the theorem about CoreOfFile assumes of the files holds of these.  *)
ASSUME PlainAssumption == \A d \in DOMAIN Files : Plain(Files[d])
=============================================================================
