------------------------------ MODULE Packing ------------------------------
(***************************************************************************)
(* What the distance of two vertices takes from the graph.  Vertices are   *)
(* renumbered (Core_Connective_4_Reorder), so that neighbours are close;   *)
(* the neighbours of each are packed into words of bits, and words into    *)
(* blocks (basic_data.h); and the neighbours two vertices share are        *)
(* counted word by word (metric_space.h, neighDist).  A word is the set of *)
(* its bits.                                                               *)
(***************************************************************************)
EXTENDS Listing

CONSTANTS
  MACHINE_WORDSZ,  \* the bits of a word, 64 in the code
  PACKSZ           \* the words of a block, 64 in the code

ASSUME WidthAssumption == {MACHINE_WORDSZ, PACKSZ} \subseteq Nat \ {0}

(* Breadth first, the searches starting from the highest cores.  The       *)
(* vertices after the first s.done of s.order are those in the queue.      *)
Queued(order, k) == IF k \in Range(order) THEN order ELSE Append(order, k)
Expanded(adj, s) ==
  LET near == adj[s.order[s.done + 1]]
      Visit(n, order) == Queued(order, near[n])
  IN  [order |-> Rounds(Len(near), s.order, Visit), done |-> s.done + 1]

Seeded(core_list, s) ==
  LET rest == DOMAIN core_list \ Range(s.order)
      Starts(j) == \A k \in rest :
        \/ core_list[k] < core_list[j]
        \/ core_list[k] = core_list[j] /\ j <= k
  IN  IF rest = {} THEN s ELSE [s EXCEPT !.order = Append(@, CHOOSE j \in rest : Starts(j))]

reordered_2_cnns(adj, core_list) ==
  LET Step(n, s) == IF s.done < Len(s.order) THEN Expanded(adj, s) ELSE Seeded(core_list, s)
  IN  Rounds(2 * Cardinality(DOMAIN adj), [order |-> <<>>, done |-> 0], Step).order

cnns_2_reordered(adj, core_list) ==
  LET order == reordered_2_cnns(adj, core_list)
  IN  [v \in DOMAIN adj |-> SelectInSeq(order, LAMBDA u : u = v) - 1]

-----------------------------------------------------------------------------
Cal_idx1(id) == id \div (PACKSZ * MACHINE_WORDSZ)
Cal_idx2(id) == (id % (PACKSZ * MACHINE_WORDSZ)) \div MACHINE_WORDSZ
Cal_idx3(id) == id % MACHINE_WORDSZ

(* packed_neighbor::init, over the ids in increasing order: the block that *)
(* is being filled, its words but the last, which of them there are, and   *)
(* the last word.                                                          *)
Stored(s) ==
  IF s.word = {} THEN s.vec
  ELSE Append(s.vec, [idx1 |-> s.idx1, idx2 |-> s.idx2, val |-> Append(s.val, s.word)])

Added(s, id) ==
  IF Cal_idx1(id) # s.idx1
  THEN [idx1 |-> Cal_idx1(id), idx2 |-> {Cal_idx2(id)}, val |-> <<>>,
        word |-> {Cal_idx3(id)}, vec |-> Stored(s)]
  ELSE IF Cal_idx2(id) \in s.idx2 THEN [s EXCEPT !.word = @ \cup {Cal_idx3(id)}]
  ELSE [s EXCEPT !.idx2 = @ \cup {Cal_idx2(id)}, !.val = Append(@, s.word),
                 !.word = {Cal_idx3(id)}]

Packed(ids) ==
  LET order == InOrder(ids)
      Add(n, s) == Added(s, order[n])
  IN  Stored(Rounds(Cardinality(ids),
                    [idx1 |-> -1, idx2 |-> {}, val |-> <<>>, word |-> {}, vec |-> <<>>], Add))

Structure_data(v, adj, reordered) ==
  LET ids == {reordered[u] : u \in Range(adj[v])}
  IN  [reordered_id |-> reordered[v], neigh_num |-> Cardinality(ids), neigh_vec |-> Packed(ids)]

-----------------------------------------------------------------------------
(* The binary search for a block, over a list that is not empty.           *)
Halved(vec, idx1, s) ==
  LET mid == (s.less + s.greater) \div 2
  IN  IF s.at # -1 \/ s.less > s.greater THEN s
      ELSE CASE idx1 = vec[mid + 1].idx1 -> [s EXCEPT !.at = mid]
             [] idx1 < vec[mid + 1].idx1 -> [s EXCEPT !.greater = mid - 1]
             [] idx1 > vec[mid + 1].idx1 -> [s EXCEPT !.less = mid + 1]

Pos(vec, idx1) ==
  LET Step(n, s) == Halved(vec, idx1, s)
  IN  Rounds(Len(vec), [less |-> 0, greater |-> Len(vec) - 1, at |-> -1], Step).at

Between(idx2, first, next) == Cardinality({w \in idx2 : first <= w /\ w < next})

Id_in(vec, id) ==
  LET p == Pos(vec, Cal_idx1(id))
  IN  /\ p # -1
      /\ Cal_idx2(id) \in vec[p + 1].idx2
      /\ Cal_idx3(id) \in vec[p + 1].val[1 + Between(vec[p + 1].idx2, 0, Cal_idx2(id))]

\* Mutant: the mask leaves out the word last looked at.
MovedOff(s, a, b, word) ==
  [at |-> word, a |-> s.a + Between(a.idx2, s.at + 1, word),
   b |-> s.b + Between(b.idx2, s.at + 1, word)]
(* The iterators move on by the words there are from the one last looked   *)
(* at to the next that both have.                                          *)
Moved(s, a, b, word) ==
  [at |-> word, a |-> s.a + Between(a.idx2, s.at, word), b |-> s.b + Between(b.idx2, s.at, word)]

Deal_2_pressed_o_64(a, b) ==
  LET both == a.idx2 \cap b.idx2
      order == InOrder(both)
      Step(n, s) ==
        LET to == Moved(s.its, a, b, order[n])
        IN  [its |-> to, res |-> s.res + Cardinality(a.val[to.a] \cap b.val[to.b])]
  IN  Rounds(Cardinality(both), [its |-> [at |-> -1, a |-> 1, b |-> 1], res |-> 0], Step).res

(* The blocks of both, merged by their number.                             *)
Merged(p, q, s) ==
  IF s.i > Len(p) \/ s.j > Len(q) THEN s
  ELSE CASE p[s.i].idx1 < q[s.j].idx1 -> [s EXCEPT !.i = @ + 1]
         [] p[s.i].idx1 > q[s.j].idx1 -> [s EXCEPT !.j = @ + 1]
         [] p[s.i].idx1 = q[s.j].idx1 ->
              [i |-> s.i + 1, j |-> s.j + 1,
               cnt |-> s.cnt + Deal_2_pressed_o_64(p[s.i], q[s.j])]

Common(p, q) ==
  LET Step(n, s) == Merged(p, q, s)
  IN  Rounds(Len(p) + Len(q), [i |-> 1, j |-> 1, cnt |-> 0], Step).cnt

(* base + num / den.                                                       *)
neighDist(p, q) ==
  IF p.neigh_num = 0 \/ q.neigh_num = 0 THEN [base |-> 6, num |-> 0, den |-> 1]
  ELSE LET cnt == Common(p.neigh_vec, q.neigh_vec)
           linked == Id_in(p.neigh_vec, q.reordered_id) \/ p.reordered_id = q.reordered_id
       IN  [base |-> CASE cnt = 0 -> 4 [] cnt > 0 /\ ~linked -> 2 [] OTHER -> 0,
            num |-> p.neigh_num - cnt, den |-> p.neigh_num]
=============================================================================
