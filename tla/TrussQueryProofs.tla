-------------------------- MODULE TrussQueryProofs --------------------------
(***************************************************************************)
(* Proofs about TrussQuery and ATC for every finite graph, every query and *)
(* every order in which the edges of a cascade are taken.                  *)
(***************************************************************************)
EXTENDS ATC, FiniteSetTheorems, Extrema, TLAPS

-----------------------------------------------------------------------------
(* Triangles, and what a set of edges loses with one of them.              *)
LEMMA Finite ==
  /\ IsFiniteSet(Edge)
  /\ \A e, E : IsFiniteSet(Apexes(e, E)) /\ Triangles(e, E) \in Nat
<1>1. IsFiniteSet(Vertex \X Vertex)
  BY FS_Product, QueryAssumption
<1>2. IsFiniteSet(Edge)
  BY <1>1, FS_Subset DEF Edge
<1>3. ASSUME NEW e, NEW E
      PROVE  IsFiniteSet(Apexes(e, E))
  <2>1. Apexes(e, E) \in SUBSET Vertex
    BY DEF Apexes
  <2> QED BY <2>1, FS_Subset, QueryAssumption
<1> QED BY <1>2, <1>3, FS_CardinalityType DEF Triangles

LEMMA EdgeForm ==
  ASSUME NEW e \in Edge
  PROVE  /\ e[1] \in Vertex /\ e[2] \in Vertex
         /\ e[1] \in Nat /\ e[2] \in Nat /\ e[1] < e[2]
         /\ e = <<e[1], e[2]>>
<1>1. e \in Vertex \X Vertex /\ e[1] < e[2]
  BY DEF Edge
<1>2. e[1] \in Vertex /\ e[2] \in Vertex /\ e = <<e[1], e[2]>>
  BY <1>1
<1>3. Vertex \subseteq Nat
  BY QueryAssumption
<1> QED BY <1>1, <1>2, <1>3

LEMMA SideForm ==
  ASSUME NEW u \in Vertex, NEW w \in Vertex, u # w
  PROVE  /\ Side(u, w) \in Edge /\ Side(u, w) = Side(w, u)
         /\ Ends(Side(u, w)) = {u, w}
<1>1. u \in Nat /\ w \in Nat
  BY QueryAssumption
<1> QED BY <1>1 DEF Side, Edge, Ends

(* An edge is known by its ends.                                           *)
LEMMA SideOfEnds ==
  ASSUME NEW e \in Edge, NEW u, NEW w, Ends(e) = {u, w}
  PROVE  e = Side(u, w)
<1>1. (u = e[1] /\ w = e[2]) \/ (u = e[2] /\ w = e[1])
  BY EdgeForm DEF Ends
<1> QED BY <1>1, EdgeForm DEF Side

LEMMA TrianglesGrow ==
  ASSUME NEW e, NEW E, NEW F, E \subseteq F
  PROVE  Triangles(e, E) <= Triangles(e, F)
<1>1. Apexes(e, E) \in SUBSET Apexes(e, F)
  BY DEF Apexes
<1> QED BY <1>1, Finite, FS_Subset DEF Triangles

(* In a triangle, the third vertex of one edge is an end of the others.    *)
Opposes(e, f, w) == f = Side(e[1], w) \/ f = Side(e[2], w)

LEMMA Opposite ==
  ASSUME NEW E \in SUBSET Edge, NEW e \in E, NEW f \in E,
         NEW w \in Apexes(e, E), Opposes(e, f, w)
  PROVE  \E x \in Apexes(f, E) : Opposes(f, e, x)
<1>1. w \in Vertex /\ w # e[1] /\ w # e[2]
  BY DEF Apexes, Ends
<1>2. Side(e[1], w) \in E /\ Side(e[2], w) \in E
  BY DEF Apexes
<1>3. e[1] \in Vertex /\ e[2] \in Vertex /\ e[1] # e[2] /\ e = Side(e[1], e[2])
  BY EdgeForm DEF Side
<1>4. f \in Edge
  OBVIOUS
<1>5. ASSUME NEW u \in Vertex, NEW x \in Vertex, u # x, w # u, w # x,
             f = Side(u, w), e = Side(u, x), Side(x, w) \in E
      PROVE  x \in Apexes(f, E) /\ Opposes(f, e, x)
  <2>1. Ends(f) = {u, w}
    BY <1>1, <1>5, SideForm
  <2>2. (f[1] = u /\ f[2] = w) \/ (f[1] = w /\ f[2] = u)
    BY <2>1, <1>4, EdgeForm DEF Ends
  <2>3. Side(w, x) \in E
    BY <1>1, <1>5, SideForm
  <2>4. Side(f[1], x) \in E /\ Side(f[2], x) \in E
    BY <1>5, <2>2, <2>3
  <2> QED BY <1>5, <2>1, <2>2, <2>4 DEF Apexes, Opposes
<1>6. CASE f = Side(e[1], w)
  BY <1>1, <1>2, <1>3, <1>5, <1>6
<1>7. CASE f = Side(e[2], w)
  <2>1. e = Side(e[2], e[1])
    BY <1>3, SideForm
  <2> QED BY <1>1, <1>2, <1>3, <1>5, <1>7, <2>1
<1> QED BY <1>6, <1>7 DEF Opposes

LEMMA OppositeIsOne ==
  ASSUME NEW f \in Edge, NEW e, NEW x \in Vertex \ Ends(f), NEW y \in Vertex \ Ends(f),
         Opposes(f, e, x), Opposes(f, e, y)
  PROVE  x = y
<1>1. f[1] \in Vertex /\ f[2] \in Vertex /\ f[1] # f[2]
  BY EdgeForm
<1>2. /\ Ends(Side(f[1], x)) = {f[1], x} /\ Ends(Side(f[2], x)) = {f[2], x}
      /\ Ends(Side(f[1], y)) = {f[1], y} /\ Ends(Side(f[2], y)) = {f[2], y}
  BY <1>1, SideForm DEF Ends
<1>3. Ends(e) = {f[1], x} \/ Ends(e) = {f[2], x}
  BY <1>2 DEF Opposes
<1>4. Ends(e) = {f[1], y} \/ Ends(e) = {f[2], y}
  BY <1>2 DEF Opposes
<1>5. x # f[1] /\ x # f[2] /\ y # f[1] /\ y # f[2]
  BY DEF Ends
<1> QED BY <1>1, <1>3, <1>4, <1>5

(* The deletion of e takes one triangle from the edges it has a triangle   *)
(* with, and none from the others.                                         *)
Meets(e, f, E) == \E w \in Apexes(e, E) : Opposes(e, f, w)

LEMMA OneTriangleLess ==
  ASSUME NEW E \in SUBSET Edge, NEW e \in E, NEW f \in E, f # e
  PROVE  Triangles(f, E \ {e}) =
           IF Meets(e, f, E) THEN Triangles(f, E) - 1 ELSE Triangles(f, E)
<1>1. Apexes(f, E \ {e}) = {x \in Apexes(f, E) : ~Opposes(f, e, x)}
  BY DEF Apexes, Opposes
<1>2. CASE Meets(e, f, E)
  <2>1. PICK x \in Apexes(f, E) : Opposes(f, e, x)
    BY <1>2, Opposite DEF Meets
  <2>2. \A y \in Apexes(f, E) : Opposes(f, e, y) => y = x
    <3>1. Apexes(f, E) \subseteq Vertex \ Ends(f) /\ f \in Edge
      BY DEF Apexes
    <3> QED BY <2>1, <3>1, OppositeIsOne
  <2>3. Apexes(f, E \ {e}) = Apexes(f, E) \ {x}
    BY <1>1, <2>1, <2>2
  <2>4. Cardinality(Apexes(f, E) \ {x}) = Cardinality(Apexes(f, E)) - 1
    BY <2>1, Finite, FS_RemoveElement
  <2> QED BY <1>2, <2>3, <2>4 DEF Triangles
<1>3. CASE ~Meets(e, f, E)
  <2>1. \A x \in Apexes(f, E) : ~Opposes(f, e, x)
    BY <1>3, Opposite DEF Meets
  <2>2. Apexes(f, E \ {e}) = Apexes(f, E)
    BY <1>1, <2>1
  <2> QED BY <1>3, <2>2 DEF Triangles
<1> QED BY <1>2, <1>3

-----------------------------------------------------------------------------
(* The inductive invariant.  Nothing waits outside a cascade, and only a   *)
(* query that is done has an answer.                                       *)
Phases ==
  /\ pc # "cascade" => pending = {}
  /\ pc # "done" => answer = {}
  /\ pc = "triangles" => queue # << >> /\ left \cap Ends(Head(queue)) = {}

(* No step lowers the support of an edge below min_sup: the edge is        *)
(* deleted instead, in its turn.                                           *)
Floor ==
  Querying => \A e \in Live : Triangles(e, DOMAIN sup) >= min_sup => sup[e] >= min_sup

(* The edges of the deleted vertex wait or are gone.                       *)
Spent == pc = "cascade" => \A e \in Incident(need_del) : e \in pending \/ e \notin Live

Gone == IF pc = "cascade" THEN Erased \cup {need_del} ELSE Erased

(* Every truss among the vertices that are left is untouched, and none of  *)
(* its edges waits: the largest one is what TrussKept looks at.            *)
TrussesKept ==
  Querying => \A E \in SUBSET Without(Gone) : IsTruss(E) => E \subseteq Live \ pending

IInv ==
  /\ TypeOK /\ Phases /\ SupportCounts /\ Floor /\ Spent /\ QueryKept /\ TrussesKept

LEMMA MinSup ==
  ASSUME input \in Inputs
  PROVE  min_sup \in Nat
<1>1. input.req_trussness \in Nat /\ input.req_trussness >= 2
  BY QueryAssumption
<1> QED BY <1>1 DEF min_sup

LEMMA QueryStarts ==
  ASSUME input \in Inputs
  PROVE  /\ queryID \in Vertex /\ queryID \in input.start
         /\ input.start \in SUBSET Vertex
         /\ input.dist \in [Vertex -> Nat]
BY QueryAssumption DEF queryID

LEMMA EndsAreVertices ==
  ASSUME NEW E \in SUBSET Edge
  PROVE  UNION {Ends(e) : e \in E} \in SUBSET Vertex
BY EdgeForm DEF Ends

LEMMA FarthestExists ==
  ASSUME TypeOK, ind_Vert # {}
  PROVE  Farthest \in ind_Vert
<1> DEFINE Far == {input.dist[v] : v \in ind_Vert}
<1>1. input.dist \in [Vertex -> Nat] /\ ind_Vert \in SUBSET Vertex
  BY QueryStarts DEF TypeOK
<1>2. IsFiniteSet(ind_Vert) /\ ind_Vert \in SUBSET Nat
  BY <1>1, FS_Subset, QueryAssumption
<1>3. IsFiniteSet(Far)
  BY <1>2, FiniteImage
<1>4. Far \in SUBSET Nat /\ Far # {}
  BY <1>1
<1>5. PICK d \in Far : \A c \in Far : c <= d
  <2> HIDE DEF Far
  <2> QED BY <1>3, <1>4, FiniteHasGreatest
<1> DEFINE AtTheEnd == {v \in ind_Vert : input.dist[v] = d}
<1>6. AtTheEnd \in SUBSET Nat /\ AtTheEnd # {} /\ IsFiniteSet(AtTheEnd)
  BY <1>2, <1>5, FS_Subset
<1>7. PICK v \in AtTheEnd : \A u \in AtTheEnd : u <= v
  <2> HIDE DEF AtTheEnd
  <2> QED BY <1>6, FiniteHasGreatest
<1>8. ASSUME NEW u \in ind_Vert
      PROVE  input.dist[u] < input.dist[v] \/ (input.dist[u] = input.dist[v] /\ u <= v)
  <2>1. input.dist[u] <= d /\ input.dist[u] \in Nat /\ d \in Nat
    BY <1>1, <1>4, <1>5
  <2>2. CASE input.dist[u] = d
    BY <1>7, <2>2
  <2>3. CASE input.dist[u] # d
    BY <1>7, <2>1, <2>3
  <2> QED BY <2>2, <2>3
<1>9. v \in ind_Vert
  OBVIOUS
<1> HIDE DEF AtTheEnd
<1> QED BY <1>8, <1>9 DEF Farthest

LEMMA InitIInv == Init => IInv
<1> SUFFICES ASSUME Init PROVE IInv
  OBVIOUS
<1>1. DOMAIN sup = {} /\ pc = "begin" /\ input \in Inputs
  BY DEF Init, support_init
<1>2. TypeOK
  BY <1>1 DEF Init, TypeOK, support_init
<1>3. Phases /\ SupportCounts /\ Floor /\ Spent /\ QueryKept /\ TrussesKept
  BY <1>1 DEF Init, Phases, SupportCounts, Floor, Spent, QueryKept, TrussesKept, Querying
<1> QED BY <1>2, <1>3 DEF IInv

-----------------------------------------------------------------------------
(* The steps of Truss_Test_Prune.                                          *)
LEMMA InducedEdges ==
  ASSUME NEW S
  PROVE  /\ Induced(S) \in SUBSET Edge
         /\ DOMAIN support_init(Induced(S)) = Induced(S)
         /\ support_init(Induced(S)) \in [Induced(S) -> Nat]
BY Finite DEF Induced, support_init

LEMMA NotQuerying ==
  ASSUME TypeOK', Phases', ~Querying', answer' = {}
  PROVE  IInv'
BY DEF IInv, Phases, SupportCounts, Floor, Spent, QueryKept, TrussesKept, Querying

LEMMA Overwritten ==
  ASSUME NEW S, NEW f \in [S -> Int], NEW a, NEW n \in Int
  PROVE  DOMAIN [f EXCEPT ![a] = n] = S /\ [f EXCEPT ![a] = n] \in [S -> Int]
OBVIOUS

(* One triangle of Del_Edge.                                               *)
Visit(w) ==
  LET edge1 == Side(Head(queue)[1], w)
      edge2 == Side(Head(queue)[2], w)
  IN  /\ sup' = [sup EXCEPT ![edge1] = Lowered(@), ![edge2] = Lowered(@)]
      /\ queue' = queue \o (IF sup[edge1] = min_sup THEN <<edge1>> ELSE << >>)
                        \o (IF sup[edge2] = min_sup THEN <<edge1>> ELSE << >>)

LEMMA VisitTypes ==
  ASSUME TypeOK, queue # << >>, NEW w \in Vertex, w # Head(queue)[1], Visit(w)
  PROVE  /\ DOMAIN sup' = DOMAIN sup /\ sup' \in [DOMAIN sup -> Int]
         /\ queue' \in Seq(Edge) /\ queue' # << >> /\ Head(queue') = Head(queue)
<1> DEFINE edge1 == Side(Head(queue)[1], w)
<1> DEFINE edge2 == Side(Head(queue)[2], w)
<1> DEFINE one == IF sup[edge1] = min_sup THEN <<edge1>> ELSE << >>
<1> DEFINE two == IF sup[edge2] = min_sup THEN <<edge1>> ELSE << >>
<1>1. /\ sup' = [sup EXCEPT ![edge1] = Lowered(@), ![edge2] = Lowered(@)]
      /\ queue' = queue \o one \o two
  BY DEF Visit
<1>2. queue \in Seq(Edge) /\ Head(queue) \in Edge
  BY DEF TypeOK
<1>3. edge1 \in Edge
  BY <1>2, EdgeForm, SideForm
<1> HIDE DEF edge1, edge2
<1>4. one \in Seq(Edge) /\ two \in Seq(Edge)
  BY <1>3
<1> HIDE DEF one, two
<1>5. queue' \in Seq(Edge) /\ queue' # << >> /\ Head(queue') = Head(queue)
  BY <1>1, <1>2, <1>4
<1>6. DOMAIN sup' = DOMAIN sup /\ sup' \in [DOMAIN sup -> Int]
  <2>1. sup \in [DOMAIN sup -> Int]
    BY DEF TypeOK
  <2>2. \A n \in Int : Lowered(n) \in Int
    BY DEF Lowered
  <2>3. \A e \in DOMAIN sup : Lowered(sup[e]) \in Int
    BY <2>1, <2>2
  <2> QED BY <1>1, <2>1, <2>3
<1> QED BY <1>5, <1>6

LEMMA JudgeSteps ==
  ASSUME IInv, Judge \/ Refuse \/ DelEdge \/ Triangle \/ Pop \/ JudgedOut
  PROVE  IInv'
<1>1. TypeOK /\ Phases /\ answer = {} /\ pending = {}
  BY DEF IInv, Phases, Judge, Refuse, DelEdge, Triangle, Pop, JudgedOut
<1>2. /\ input' = input /\ pending' = {} /\ ind_Vert' = ind_Vert
      /\ need_del' = need_del /\ answer' = {}
  BY <1>1 DEF Judge, Refuse, DelEdge, Triangle, Pop, JudgedOut
<1>3. ~Querying' /\ pc' \in {"judge", "triangles", "done"}
  BY <1>1 DEF Judge, Refuse, DelEdge, Triangle, Pop, JudgedOut, Querying, TypeOK
<1>4. SUFFICES /\ DOMAIN sup' \subseteq Edge /\ sup' \in [DOMAIN sup' -> Int]
               /\ queue' \in Seq(Edge) /\ left' \in SUBSET Vertex
               /\ pc' = "triangles" =>
                    queue' # << >> /\ left' \cap Ends(Head(queue')) = {}
  <2>1. TypeOK'
    BY <1>1, <1>2, <1>3, <1>4 DEF TypeOK
  <2>2. Phases'
    BY <1>2, <1>3, <1>4 DEF Phases
  <2> QED BY <1>2, <1>3, <2>1, <2>2, NotQuerying
<1>5. CASE Judge
  <2> DEFINE low == {e \in DOMAIN sup' : sup'[e] < min_sup}
  <2>1. DOMAIN sup' \subseteq Edge /\ sup' \in [DOMAIN sup' -> Int]
    BY <1>5, InducedEdges DEF Judge
  <2>2. queue' \in InOrder(low)
    BY <1>5 DEF Judge
  <2>3. low \in SUBSET Edge
    BY <2>1
  <2>4. Cardinality(low) \in Nat
    BY <2>3, Finite, FS_Subset, FS_CardinalityType
  <2>5. queue' \in Seq(Edge)
    <3> HIDE DEF low
    <3>1. queue' \in [1 .. Cardinality(low) -> low]
      BY <2>2 DEF InOrder
    <3>2. queue' \in [1 .. Cardinality(low) -> Edge]
      BY <2>3, <3>1
    <3> QED BY <2>4, <3>2
  <2> QED BY <1>1, <1>5, <2>1, <2>5 DEF Judge, TypeOK
<1>6. CASE Refuse \/ JudgedOut
  BY <1>1, <1>6 DEF Refuse, JudgedOut, TypeOK
<1>7. CASE DelEdge
  <2>1. DOMAIN sup' = DOMAIN sup /\ sup' \in [DOMAIN sup -> Int]
    BY <1>1, <1>7, Overwritten DEF DelEdge, TypeOK
  <2>2. left' \in SUBSET Vertex /\ left' \cap Ends(Head(queue)) = {}
    BY <1>7 DEF DelEdge, Above, Apexes
  <2> QED BY <1>1, <1>7, <2>1, <2>2 DEF DelEdge, TypeOK
<1>8. CASE Triangle
  <2>1. \E w \in left : Visit(w) /\ left' = left \ {w}
    BY <1>8 DEF Triangle, Visit
  <2>2. PICK w \in left : Visit(w) /\ left' = left \ {w}
    BY <2>1
  <2>3. queue # << >> /\ w \in Vertex /\ w # Head(queue)[1]
    BY <1>1, <1>8 DEF Triangle, Phases, TypeOK, Ends
  <2> QED BY <1>1, <1>8, <2>2, <2>3, VisitTypes DEF Triangle, Phases, TypeOK
<1>9. CASE Pop
  <2>1. queue' \in Seq(Edge)
    BY <1>1, <1>9 DEF Pop, Phases, TypeOK
  <2> QED BY <1>1, <1>9, <2>1 DEF Pop, TypeOK
<1> QED BY <1>5, <1>6, <1>7, <1>8, <1>9

-----------------------------------------------------------------------------
(* The steps of VAC_Query_Truss_General.                                   *)
LEMMA InduceStep ==
  ASSUME IInv, NEW S \in SUBSET Vertex, queryID \in S, Induce(S),
         pc \in {"begin", "judge"}
  PROVE  IInv'
<1>1. /\ TypeOK /\ pending' = {} /\ answer' = {} /\ pc' = "round"
      /\ input' = input /\ queue' = queue /\ left' = left /\ need_del' = need_del
      /\ ind_Vert' = S
  BY DEF IInv, Phases, Induce
<1>2. /\ DOMAIN sup' \in SUBSET Edge /\ sup' \in [DOMAIN sup' -> Nat]
      /\ \A e \in DOMAIN sup' : sup'[e] = Triangles(e, DOMAIN sup')
  BY InducedEdges DEF Induce, support_init
<1>3. Live' = DOMAIN sup'
  BY <1>2 DEF Live, Deleted
<1>4. TypeOK'
  BY <1>1, <1>2 DEF TypeOK
<1>5. Phases' /\ Spent'
  BY <1>1 DEF Phases, Spent
<1>6. min_sup' = min_sup /\ queryID' = queryID
  BY <1>1 DEF min_sup, queryID
<1>7. SupportCounts' /\ Floor'
  BY <1>2, <1>3 DEF SupportCounts, Floor
<1>8. QueryKept'
  BY <1>1, <1>6 DEF QueryKept
<1>9. TrussesKept'
  <2>1. Live' \ pending' = DOMAIN sup'
    BY <1>1, <1>3
  <2> QED BY <2>1 DEF TrussesKept, Without
<1> QED BY <1>4, <1>5, <1>7, <1>8, <1>9 DEF IInv

LEMMA DelNodeStep ==
  ASSUME IInv, Del_Node
  PROVE  IInv'
<1>1. /\ TypeOK /\ pc = "round" /\ pending = {} /\ answer = {} /\ Querying
      /\ pc' = "cascade" /\ Querying'
  BY DEF IInv, Phases, Del_Node, Querying
<1>2. /\ need_del' \in ind_Vert /\ pending' = Incident(need_del')
      /\ input' = input /\ sup' = sup /\ queue' = queue /\ left' = left
      /\ ind_Vert' = ind_Vert /\ answer' = answer
  BY <1>1, FarthestExists DEF Del_Node, EdgesOf, Incident
<1>3. Live' = Live /\ Erased' = Erased /\ DOMAIN sup' = DOMAIN sup
  BY <1>2 DEF Live, Erased
<1>4. min_sup' = min_sup /\ queryID' = queryID
  BY <1>2 DEF min_sup, queryID
<1>5. TypeOK'
  BY <1>1, <1>2 DEF TypeOK, Incident
<1>6. Phases' /\ Spent'
  BY <1>1, <1>2 DEF Phases, Spent, Incident
<1>7. SupportCounts' /\ Floor'
  BY <1>1, <1>2, <1>3, <1>4 DEF IInv, SupportCounts, Floor
<1>8. QueryKept'
  BY <1>1, <1>2, <1>4 DEF IInv, QueryKept
<1>9. TrussesKept'
  <2> SUFFICES ASSUME NEW E \in SUBSET Without(Gone)', IsTruss(E)'
               PROVE  E \subseteq Live' \ pending'
    BY DEF TrussesKept
  <2>1. Gone' = Erased \cup {need_del'}
    BY <1>1, <1>3 DEF Gone
  <2>2. E \in SUBSET Without(Gone)
    BY <1>1, <1>2, <2>1 DEF Gone, Without
  <2>3. IsTruss(E)
    BY <1>4 DEF IsTruss
  <2>4. E \subseteq Live
    BY <1>1, <2>2, <2>3 DEF IInv, TrussesKept
  <2>5. E \cap Incident(need_del') = {}
    BY <2>1 DEF Without, Incident
  <2> QED BY <1>2, <1>3, <2>4, <2>5
<1> QED BY <1>5, <1>6, <1>7, <1>8, <1>9 DEF IInv

LEMMA SkipStep ==
  ASSUME IInv, NEW e \in DOMAIN sup, Skip(e)
  PROVE  IInv'
<1>1. /\ TypeOK /\ pc = "cascade" /\ pc' = pc /\ Querying
      /\ e \notin Live /\ pending' = pending \ {e}
      /\ input' = input /\ sup' = sup /\ queue' = queue /\ left' = left
      /\ ind_Vert' = ind_Vert /\ need_del' = need_del /\ answer' = answer
  BY DEF IInv, Skip, Querying
<1>2. /\ Live' = Live /\ Gone' = Gone /\ min_sup' = min_sup /\ queryID' = queryID
      /\ Live' \ pending' = Live \ pending
  BY <1>1 DEF Live, Gone, Erased, min_sup, queryID
<1>3. TypeOK'
  BY <1>1 DEF TypeOK
<1>4. Phases' /\ Spent'
  BY <1>1, <1>2 DEF IInv, Phases, Spent, Incident
<1>5. SupportCounts' /\ Floor' /\ QueryKept'
  BY <1>1, <1>2 DEF IInv, SupportCounts, Floor, QueryKept, Querying
<1>6. TrussesKept'
  BY <1>1, <1>2 DEF IInv, TrussesKept, IsTruss, Without
<1> QED BY <1>3, <1>4, <1>5, <1>6 DEF IInv

(* One edge of the cascade.                                                *)
LEMMA OthersMeet ==
  ASSUME NEW e, NEW f
  PROVE  f \in Others(e) <=> Meets(e, f, Live)
BY DEF Others, Meets, Opposes, Whole

LEMMA CascadeStep ==
  ASSUME IInv, NEW e \in DOMAIN sup, Del_Edge_Truss(e)
  PROVE  IInv'
<1>1. /\ TypeOK /\ pc = "cascade" /\ pc' = pc /\ Querying /\ Querying'
      /\ e \in pending /\ e \in Live
      /\ sup' = [f \in DOMAIN sup |->
                   IF f = e THEN Deleted
                   ELSE IF f \in Others(e) /\ Spares(f) THEN sup[f] - 1 ELSE sup[f]]
      /\ pending' = (pending \ {e}) \cup {f \in Others(e) : Falls(f)}
      /\ input' = input /\ queue' = queue /\ left' = left
      /\ ind_Vert' = ind_Vert /\ need_del' = need_del /\ answer' = answer
  BY DEF IInv, Del_Edge_Truss, Querying
<1>2. /\ DOMAIN sup' = DOMAIN sup /\ DOMAIN sup \subseteq Edge
      /\ sup \in [DOMAIN sup -> Int] /\ min_sup \in Nat /\ Deleted = -1
  BY <1>1, MinSup DEF TypeOK, Deleted
<1>3. min_sup' = min_sup /\ queryID' = queryID /\ Gone' = Gone
  BY <1>1, <1>2 DEF min_sup, queryID, Gone, Erased
<1>4. ASSUME NEW f \in DOMAIN sup, f # e
      PROVE  /\ sup'[f] = IF f \in Others(e) /\ Spares(f) THEN sup[f] - 1 ELSE sup[f]
             /\ sup'[f] = Deleted <=> sup[f] = Deleted
             /\ sup[f] >= min_sup => sup'[f] >= min_sup
  BY <1>1, <1>2, <1>4 DEF Spares
<1>5. Live' = Live \ {e} /\ Live \in SUBSET Edge
  BY <1>1, <1>2, <1>4 DEF Live
<1>6. \A f \in Live \ {e} :
        Triangles(f, Live') = IF f \in Others(e) THEN Triangles(f, Live) - 1
                                                 ELSE Triangles(f, Live)
  BY <1>1, <1>5, OneTriangleLess, OthersMeet
<1>7. \A f \in Live \ pending : sup[f] = Triangles(f, Live) /\ sup[f] \in Nat
  BY <1>1, Finite DEF IInv, SupportCounts
<1>8. TypeOK'
  <2>1. sup' \in [DOMAIN sup -> Int]
    BY <1>1, <1>2
  <2>2. \A w \in Whole(e) : Side(e[1], w) \in Live /\ Side(e[2], w) \in Live
    BY DEF Whole, Apexes
  <2>3. Others(e) \subseteq DOMAIN sup
    BY <2>2 DEF Others, Live
  <2> QED BY <1>1, <1>2, <2>1, <2>3 DEF TypeOK
<1>9. Phases'
  BY <1>1 DEF IInv, Phases
<1>10. SupportCounts'
  <2> SUFFICES ASSUME NEW f \in Live' \ pending'
               PROVE  sup'[f] = Triangles(f, Live')
    BY DEF SupportCounts
  <2>1. f \in Live /\ f # e /\ f \notin pending /\ f \in DOMAIN sup
    BY <1>1, <1>5 DEF Live
  <2>2. CASE f \in Others(e)
    <3>1. ~Falls(f)
      BY <1>1, <2>2
    <3>2. Triangles(f, Live') = sup[f] - 1 /\ Triangles(f, Live') \in Nat /\ sup[f] \in Nat
      BY <1>6, <1>7, <2>1, <2>2, Finite
    <3>3. Spares(f)
      BY <3>1, <3>2 DEF Falls
    <3> QED BY <1>4, <2>1, <2>2, <3>2, <3>3
  <2>3. CASE f \notin Others(e)
    BY <1>4, <1>6, <1>7, <2>1, <2>3
  <2> QED BY <2>2, <2>3
<1>11. Floor'
  <2> SUFFICES ASSUME NEW f \in Live', Triangles(f, DOMAIN sup') >= min_sup'
               PROVE  sup'[f] >= min_sup'
    BY DEF Floor
  <2>1. f \in Live /\ f # e /\ f \in DOMAIN sup
    BY <1>5 DEF Live
  <2>2. sup[f] >= min_sup
    BY <1>1, <1>2, <1>3, <2>1 DEF IInv, Floor
  <2> QED BY <1>3, <1>4, <2>1, <2>2
<1>12. Spent'
  BY <1>1, <1>2, <1>5 DEF IInv, Spent, Incident
<1>13. QueryKept'
  BY <1>1, <1>3 DEF IInv, QueryKept
<1>14. TrussesKept'
  <2> SUFFICES ASSUME NEW E \in SUBSET Without(Gone), IsTruss(E)
               PROVE  E \subseteq Live' \ pending'
    BY <1>2, <1>3 DEF TrussesKept, IsTruss, Without
  <2>1. E \subseteq Live \ pending
    BY <1>1 DEF IInv, TrussesKept
  <2>2. E \subseteq Live'
    BY <1>1, <1>5, <2>1
  <2>3. ASSUME NEW f \in E, f \in Others(e), Falls(f)
        PROVE  FALSE
    <3>1. Triangles(f, E) >= min_sup
      BY DEF IsTruss
    <3>2. Triangles(f, Live') >= Triangles(f, E)
      BY <2>2, TrianglesGrow
    <3>3. sup[f] = Triangles(f, Live') + 1
      BY <1>1, <1>6, <1>7, <2>1, <2>3, Finite
    <3>4. sup[f] > min_sup
      BY <1>2, <3>1, <3>2, <3>3, Finite
    <3> QED BY <2>3, <3>4 DEF Falls, Spares
  <2> QED BY <1>1, <2>1, <2>2, <2>3
<1> QED BY <1>8, <1>9, <1>10, <1>11, <1>12, <1>13, <1>14 DEF IInv

(* A vertex is erased when the query still has support, so that it is not  *)
(* the query: of its edges, none would be left.                            *)
LEMMA EraseStep ==
  ASSUME IInv, Erase
  PROVE  IInv'
<1>1. /\ TypeOK /\ pc = "cascade" /\ pc' = "round" /\ Querying /\ Querying'
      /\ pending = {} /\ pending' = {} /\ Holds /\ ind_Vert' = ind_Vert \ {need_del}
      /\ input' = input /\ sup' = sup /\ queue' = queue /\ left' = left
      /\ need_del' = need_del /\ answer' = answer
  BY DEF IInv, Erase, Remaining, Querying
<1>2. Live' = Live /\ min_sup' = min_sup /\ queryID' = queryID
  BY <1>1 DEF Live, min_sup, queryID
<1>3. TypeOK'
  BY <1>1 DEF TypeOK
<1>4. Phases' /\ Spent'
  BY <1>1 DEF IInv, Phases, Spent
<1>5. SupportCounts' /\ Floor'
  BY <1>1, <1>2 DEF IInv, SupportCounts, Floor
<1>6. QueryKept'
  <2>1. PICK e \in Incident(queryID) : sup[e] >= min_sup
    BY <1>1 DEF Holds
  <2>2. e \in Live
    <3>1. e \in DOMAIN sup /\ sup[e] \in Int /\ min_sup \in Nat
      BY <1>1, MinSup DEF Incident, TypeOK
    <3> QED BY <2>1, <3>1 DEF Live, Deleted
  <2>3. need_del # queryID
    BY <1>1, <2>1, <2>2 DEF IInv, Spent
  <2> QED BY <1>1, <1>2, <2>3 DEF IInv, QueryKept
<1>7. TrussesKept'
  <2>1. \A v \in UNION {Ends(e) : e \in DOMAIN sup} : v \in Gone => v \in Gone'
    BY <1>1 DEF Gone, Erased
  <2>2. Without(Gone)' \subseteq Without(Gone)
    BY <1>1, <2>1 DEF Without
  <2>3. Live' \ pending' = Live \ pending
    BY <1>1, <1>2
  <2> QED BY <1>1, <1>2, <2>2, <2>3 DEF IInv, TrussesKept, IsTruss
<1> QED BY <1>3, <1>4, <1>5, <1>6, <1>7 DEF IInv

LEMMA StopStep ==
  ASSUME IInv, Stop
  PROVE  IInv'
<1>1. /\ TypeOK /\ pc = "cascade" /\ pc' = "done" /\ Querying
      /\ pending = {} /\ answer' = ind_Vert
      /\ UNCHANGED <<input, sup, queue, left, pending, ind_Vert, need_del>>
  BY DEF IInv, Stop, Querying
<1>2. TypeOK'
  BY <1>1 DEF TypeOK
<1>3. QueryKept'
  BY <1>1 DEF IInv, QueryKept, queryID
<1>4. ~Querying'
  BY <1>1 DEF Querying
<1> QED BY <1>1, <1>2, <1>3, <1>4
        DEF IInv, Phases, SupportCounts, Floor, Spent, TrussesKept

LEMMA NextIInv == IInv /\ [Next]_vars => IInv'
<1> SUFFICES ASSUME IInv, [Next]_vars PROVE IInv'
  OBVIOUS
<1>1. CASE Judge \/ Refuse \/ DelEdge \/ Triangle \/ Pop \/ JudgedOut
  BY <1>1, JudgeSteps
<1>2. CASE JudgedIn
  <2>1. nodes_in_truss \in SUBSET Vertex
    BY EdgeForm DEF nodes_in_truss, Ends, IInv, TypeOK
  <2> QED BY <1>2, <2>1, InduceStep DEF JudgedIn
<1>3. CASE WithoutIndex
  BY <1>3, QueryStarts, InduceStep DEF WithoutIndex, IInv, TypeOK
<1>4. CASE Del_Node
  BY <1>4, DelNodeStep
<1>5. CASE Erase
  BY <1>5, EraseStep
<1>6. CASE Stop
  BY <1>6, StopStep
<1>7. CASE \E e \in DOMAIN sup : Skip(e) \/ Del_Edge_Truss(e)
  BY <1>7, SkipStep, CascadeStep
<1>8. CASE Terminated \/ UNCHANGED vars
  <2>1. UNCHANGED vars
    BY <1>8 DEF Terminated
  <2> QED BY <2>1 DEF vars, IInv, TypeOK, Phases, SupportCounts, Floor, Spent, QueryKept,
               TrussesKept, Querying, Live, min_sup, queryID, Gone, Erased, Incident,
               Without, IsTruss
<1> QED BY <1>1, <1>2, <1>3, <1>4, <1>5, <1>6, <1>7, <1>8 DEF Next

-----------------------------------------------------------------------------
(* The largest truss of a set of edges: what is left when edges of low     *)
(* support are dropped as often as there are edges.                        *)
Thinned(E) == {e \in E : Triangles(e, E) >= min_sup}
Thinnings(E, r) ==
  r = [k \in 0 .. Cardinality(E) |-> IF k = 0 THEN E ELSE Thinned(r[k - 1])]

LEMMA ThinningsExist ==
  ASSUME NEW E, IsFiniteSet(E)
  PROVE  \E r : Thinnings(E, r) /\ Largest(E) = r[Cardinality(E)]
<1> DEFINE n == Cardinality(E)
<1> DEFINE F == [S \in SUBSET E |-> Thinned(S)]
<1>1. n \in Nat
  BY FS_CardinalityType
<1>2. \A S \in SUBSET E : F[S] \in SUBSET E /\ F[S] = Thinned(S)
  BY DEF Thinned
<1>3. PICK w : Iterate(n, E, F, w)
  <2> HIDE DEF n, F
  <2> QED BY <1>1, Iterates
<1>4. \A k \in 0 .. n : w[k] \in SUBSET E
  <2> DEFINE P == SUBSET E
  <2>1. E \in P /\ \A S \in P : F[S] \in P
    BY <1>2
  <2> HIDE DEF n, F, P
  <2>2. \A k \in 0 .. n : w[k] \in P
    BY <1>1, <1>3, <2>1, RoundsKeep
  <2> QED BY <2>2 DEF P
<1>5. Thinnings(E, w)
  <2>1. w = [k \in 0 .. n |-> IF k = 0 THEN E ELSE F[w[k - 1]]]
    BY <1>3 DEF Iterate
  <2>2. \A k \in 0 .. n : k # 0 => F[w[k - 1]] = Thinned(w[k - 1])
    <3> TAKE k \in 0 .. n
    <3> HAVE k # 0
    <3>1. k - 1 \in 0 .. n
      BY <1>1
    <3> QED BY <1>2, <1>4, <3>1
  <2>3. \A k \in 0 .. n : (IF k = 0 THEN E ELSE F[w[k - 1]])
                            = (IF k = 0 THEN E ELSE Thinned(w[k - 1]))
    BY <2>2
  <2> HIDE DEF F
  <2> QED BY <2>1, <2>3 DEF Thinnings
<1> DEFINE Rest(x) == x = [k \in 0 .. n |-> IF k = 0 THEN E
                             ELSE LET G == x[k - 1] IN {e \in G : Triangles(e, G) >= min_sup}]
<1>6. \A x : Thinnings(E, x) <=> Rest(x)
  BY DEF Thinnings, Thinned
<1> DEFINE r == CHOOSE x : Rest(x)
<1>7. Rest(r)
  <2>1. Rest(w)
    BY <1>5, <1>6
  <2> HIDE DEF Rest
  <2> QED BY <2>1
<1>8. Largest(E) = r[n]
  BY DEF Largest
<1> HIDE DEF Rest, r
<1> QED BY <1>6, <1>7, <1>8

(* Every truss of the set is part of it, ...                               *)
LEMMA LargestContains ==
  ASSUME min_sup \in Nat, NEW E, IsFiniteSet(E), NEW T \in SUBSET E, IsTruss(T)
  PROVE  T \subseteq Largest(E)
<1> DEFINE n == Cardinality(E)
<1>1. PICK r : Thinnings(E, r) /\ Largest(E) = r[n]
  BY ThinningsExist
<1>2. n \in Nat
  BY FS_CardinalityType
<1> DEFINE Bad == {k \in 0 .. n : ~(T \subseteq r[k])}
<1>3. CASE Bad # {}
  <2>1. PICK k \in Bad : \A m \in Bad : k <= m
    <3>1. Bad \in SUBSET Nat
      BY <1>2
    <3> HIDE DEF Bad
    <3> QED BY <1>3, <3>1, LeastElement
  <2>2. r[k] = IF k = 0 THEN E ELSE Thinned(r[k - 1])
    BY <1>1 DEF Thinnings
  <2>3. k # 0
    BY <2>2
  <2>4. k - 1 \in 0 .. n /\ ~(k <= k - 1)
    BY <1>2, <2>3
  <2>5. T \subseteq r[k - 1]
    BY <2>1, <2>4
  <2>6. ASSUME NEW e \in T PROVE e \in Thinned(r[k - 1])
    <3>1. Triangles(e, T) >= min_sup
      BY DEF IsTruss
    <3>2. Triangles(e, T) <= Triangles(e, r[k - 1])
      BY <2>5, TrianglesGrow
    <3>3. Triangles(e, T) \in Nat /\ Triangles(e, r[k - 1]) \in Nat
      BY Finite
    <3>4. Triangles(e, r[k - 1]) >= min_sup
      BY <3>1, <3>2, <3>3
    <3> QED BY <2>5, <3>4 DEF Thinned
  <2> QED BY <2>2, <2>3, <2>6
<1>4. CASE Bad = {}
  BY <1>1, <1>2, <1>4
<1> QED BY <1>3, <1>4

(* ... and it is a truss itself: a round that drops nothing is the last to *)
(* change anything, and one that drops something leaves fewer.             *)
LEMMA LargestIsTruss ==
  ASSUME min_sup \in Nat, NEW E, IsFiniteSet(E)
  PROVE  Largest(E) \subseteq E /\ IsTruss(Largest(E))
<1> DEFINE n == Cardinality(E)
<1>1. PICK r : Thinnings(E, r) /\ Largest(E) = r[n]
  BY ThinningsExist
<1>2. n \in Nat
  BY FS_CardinalityType
<1> DEFINE Good(k) == /\ r[k] \subseteq E
                      /\ Thinned(r[k]) = r[k] \/ Cardinality(r[k]) <= n - k
<1> DEFINE Bad == {k \in 0 .. n : ~Good(k)}
<1>3. CASE Bad # {}
  <2>1. PICK k \in Bad : \A m \in Bad : k <= m
    <3>1. Bad \in SUBSET Nat
      BY <1>2
    <3> HIDE DEF Bad
    <3> QED BY <1>3, <3>1, LeastElement
  <2>2. r[k] = IF k = 0 THEN E ELSE Thinned(r[k - 1])
    BY <1>1 DEF Thinnings
  <2>3. k # 0
    <3> SUFFICES ASSUME k = 0 PROVE FALSE
      OBVIOUS
    <3>1. r[k] = E /\ Cardinality(r[k]) <= n - k
      BY <1>2, <2>2
    <3> QED BY <3>1
  <2>4. k - 1 \in 0 .. n /\ ~(k <= k - 1)
    BY <1>2, <2>3
  <2>5. Good(k - 1)
    BY <2>1, <2>4
  <2> DEFINE S == r[k - 1]
  <2>6. r[k] = Thinned(S) /\ Thinned(S) \subseteq S
    BY <2>2, <2>3 DEF Thinned
  <2>7. CASE Thinned(S) = S
    BY <2>5, <2>6, <2>7
  <2>8. CASE Thinned(S) # S
    <3>1. IsFiniteSet(S) /\ IsFiniteSet(r[k])
      BY <2>5, <2>6, FS_Subset
    <3>2. Cardinality(r[k]) < Cardinality(S)
      <4>1. /\ Cardinality(r[k]) <= Cardinality(S)
            /\ Cardinality(S) = Cardinality(r[k]) => S = r[k]
        BY <2>6, <3>1, FS_Subset
      <4>2. Cardinality(S) \in Nat /\ Cardinality(r[k]) \in Nat
        BY <3>1, FS_CardinalityType
      <4> QED BY <2>6, <2>8, <4>1, <4>2
    <3>3. Cardinality(S) \in Nat /\ Cardinality(r[k]) \in Nat
      BY <3>1, FS_CardinalityType
    <3>4. Cardinality(S) <= n - (k - 1)
      BY <2>5, <2>8
    <3> HIDE DEF n
    <3>5. Cardinality(r[k]) <= n - k
      BY <1>2, <2>4, <3>2, <3>3, <3>4
    <3> QED BY <2>5, <2>6, <3>5
  <2> QED BY <2>7, <2>8
<1>4. CASE Bad = {}
  <2>1. n \in 0 .. n
    BY <1>2
  <2>2. Good(n)
    BY <1>4, <2>1
  <2>3. Thinned(r[n]) = r[n]
    <3>1. CASE Cardinality(r[n]) <= n - n
      <4>1. IsFiniteSet(r[n])
        BY <2>2, FS_Subset
      <4>2. Cardinality(r[n]) \in Nat
        BY <4>1, FS_CardinalityType
      <4>3. Cardinality(r[n]) = 0
        BY <1>2, <3>1, <4>2
      <4>4. r[n] = {}
        BY <4>1, <4>3, FS_EmptySet
      <4> QED BY <4>4 DEF Thinned
    <3> QED BY <2>2, <3>1
  <2> QED BY <1>1, <2>2, <2>3 DEF Thinned, IsTruss
<1> QED BY <1>3, <1>4

LEMMA LargestOfWithout ==
  ASSUME TypeOK, NEW V
  PROVE  /\ Largest(Without(V)) \in SUBSET Without(V)
         /\ IsTruss(Largest(Without(V)))
         /\ \A T \in SUBSET Without(V) : IsTruss(T) => T \subseteq Largest(Without(V))
<1>1. Without(V) \in SUBSET Edge
  BY DEF Without, TypeOK
<1>2. IsFiniteSet(Without(V))
  BY <1>1, Finite, FS_Subset
<1>3. min_sup \in Nat
  BY MinSup DEF TypeOK
<1> QED BY <1>2, <1>3, LargestIsTruss, LargestContains

-----------------------------------------------------------------------------
(* Of a graph that is a truss with the query, the query has a truss as     *)
(* long as the loop goes on, and when the loop stops, the vertex that was  *)
(* deleted last was needed.  Every edge that is left is apart from the     *)
(* erased vertices, so that it is the truss of those that remain.          *)
QueryHas(V) ==
  \E E \in SUBSET Without(V) : IsTruss(E) /\ \E e \in E : queryID \in Ends(e)

TrussGiven == IsTruss(DOMAIN sup) /\ Incident(queryID) # {}

InTime ==
  TrussGiven =>
    /\ Querying => QueryHas(Erased)
    /\ answer # {} => QueryHas(Erased) /\ ~QueryHas(Erased \cup {need_del})

Apart == Querying => \A e \in Live : Ends(e) \cap Erased = {}

InTimeInv == IInv /\ InTime /\ Apart

LEMMA InitInTimeInv == Init => InTimeInv
<1> SUFFICES ASSUME Init PROVE InTimeInv
  OBVIOUS
<1>1. IInv
  BY InitIInv
<1>2. ~Querying /\ answer = {}
  BY DEF Init, Querying
<1> QED BY <1>1, <1>2 DEF InTimeInv, InTime, Apart

(* The graph is given once.                                                *)
LEMMA SameGraph ==
  ASSUME DOMAIN sup' = DOMAIN sup, input' = input
  PROVE  /\ TrussGiven' <=> TrussGiven
         /\ \A V : QueryHas(V)' <=> QueryHas(V)
         /\ ind_Vert' = ind_Vert => Erased' = Erased
<1>1. min_sup' = min_sup /\ queryID' = queryID
  BY DEF min_sup, queryID
<1>2. \A E : IsTruss(E)' <=> IsTruss(E)
  BY <1>1 DEF IsTruss
<1>3. TrussGiven' <=> TrussGiven
  BY <1>1 DEF TrussGiven, IsTruss, Incident
<1>4. \A V : QueryHas(V)' <=> QueryHas(V)
  BY <1>1 DEF QueryHas, IsTruss, Without
<1>5. ind_Vert' = ind_Vert => Erased' = Erased
  BY DEF Erased
<1> QED BY <1>3, <1>4, <1>5

LEMMA InduceInTime ==
  ASSUME InTimeInv, NEW S, Induce(S), pc \in {"begin", "judge"}
  PROVE  InTime' /\ Apart'
<1>1. /\ pc' = "round" /\ answer' = {} /\ ind_Vert' = S /\ Querying'
      /\ DOMAIN sup' = Induced(S)
  BY InducedEdges DEF InTimeInv, IInv, Phases, Induce, Querying
<1>2. Erased' = {}
  BY <1>1 DEF Erased, Induced
<1>3. Without(Erased)' = DOMAIN sup'
  BY <1>2 DEF Without
<1>4. TrussGiven' => QueryHas(Erased)'
  BY <1>3 DEF TrussGiven, QueryHas, Incident
<1> QED BY <1>1, <1>2, <1>4 DEF InTime, Apart

LEMMA SameInTime ==
  ASSUME InTimeInv, DOMAIN sup' = DOMAIN sup, input' = input, ind_Vert' = ind_Vert,
         Querying, Querying', answer' = {}, Live' \subseteq Live
  PROVE  InTime' /\ Apart'
<1>1. /\ TrussGiven' <=> TrussGiven
      /\ Erased' = Erased
      /\ QueryHas(Erased)' <=> QueryHas(Erased)
  <2>1. Erased' = Erased
    BY SameGraph
  <2>2. QueryHas(Erased)' <=> QueryHas(Erased)
    BY <2>1 DEF QueryHas, IsTruss, Without, min_sup, queryID
  <2> QED BY <2>1, <2>2, SameGraph
<1> QED BY <1>1 DEF InTimeInv, InTime, Apart

LEMMA EraseInTime ==
  ASSUME InTimeInv, Erase
  PROVE  InTime' /\ Apart'
<1>1. /\ pc = "cascade" /\ pc' = "round" /\ Querying /\ Querying'
      /\ pending = {} /\ Holds /\ ind_Vert' = ind_Vert \ {need_del}
      /\ answer = {} /\ answer' = {} /\ input' = input /\ sup' = sup
  BY DEF InTimeInv, IInv, Phases, Erase, Remaining, Querying
<1>2. /\ IInv /\ Live' = Live /\ min_sup' = min_sup /\ queryID' = queryID
      /\ TypeOK /\ min_sup \in Nat
  BY <1>1, MinSup DEF InTimeInv, IInv, TypeOK, Live, min_sup, queryID
<1>3. \A e \in Live : need_del \notin Ends(e)
  BY <1>1, <1>2 DEF IInv, Spent, Incident, Live
<1>4. \A v \in Erased' : v \in Erased \/ v = need_del
  BY <1>1 DEF Erased
<1>5. \A e \in Live : Ends(e) \cap Erased' = {}
  BY <1>1, <1>3, <1>4 DEF InTimeInv, Apart
<1>6. TrussGiven' => QueryHas(Erased)'
  <2> SUFFICES ASSUME TrussGiven PROVE QueryHas(Erased)'
    BY <1>1, SameGraph
  <2>1. Live \in SUBSET Without(Erased)'
    BY <1>1, <1>5 DEF Without, Live
  <2>2. IsTruss(Live)
    <3> SUFFICES ASSUME NEW e \in Live PROVE Triangles(e, Live) >= min_sup
      BY DEF IsTruss
    <3>1. Triangles(e, DOMAIN sup) >= min_sup
      BY DEF TrussGiven, IsTruss, Live
    <3>2. sup[e] >= min_sup
      BY <1>1, <1>2, <3>1 DEF IInv, Floor
    <3> QED BY <1>1, <1>2, <3>2 DEF IInv, SupportCounts
  <2>3. PICK e \in Incident(queryID) : sup[e] >= min_sup
    BY <1>1 DEF Holds
  <2>4. e \in Live /\ queryID \in Ends(e)
    <3>1. sup[e] \in Int
      BY <1>2, <2>3 DEF Incident, TypeOK
    <3> QED BY <1>2, <2>3, <3>1 DEF Live, Deleted, Incident
  <2> QED BY <1>2, <2>1, <2>2, <2>4 DEF QueryHas, IsTruss
<1> QED BY <1>1, <1>2, <1>5, <1>6 DEF InTime, Apart

LEMMA StopInTime ==
  ASSUME InTimeInv, Stop
  PROVE  InTime' /\ Apart'
<1>1. /\ pc = "cascade" /\ Querying /\ ~Querying' /\ pending = {} /\ ~Holds
      /\ input' = input /\ sup' = sup /\ ind_Vert' = ind_Vert /\ need_del' = need_del
  BY DEF Stop, Querying
<1>2. IInv /\ Erased' = Erased /\ Gone = Erased \cup {need_del}
  BY <1>1 DEF InTimeInv, Erased, Gone
<1>3. TrussGiven => QueryHas(Erased) /\ ~QueryHas(Gone)
  <2> SUFFICES ASSUME TrussGiven, QueryHas(Gone) PROVE FALSE
    BY <1>1 DEF InTimeInv, InTime
  <2>1. PICK E \in SUBSET Without(Gone) : IsTruss(E) /\ \E e \in E : queryID \in Ends(e)
    BY DEF QueryHas
  <2>2. PICK e \in E : queryID \in Ends(e)
    BY <2>1
  <2>3. e \in Live
    BY <1>1, <1>2, <2>1 DEF IInv, TrussesKept
  <2>4. sup[e] >= min_sup
    BY <1>1, <1>2, <2>3 DEF IInv, Floor, TrussGiven, IsTruss, Live
  <2> QED BY <1>1, <2>2, <2>3, <2>4 DEF Holds, Incident, Live
<1>4. TrussGiven' <=> TrussGiven
  BY <1>1, SameGraph
<1>5. QueryHas(Erased)' <=> QueryHas(Erased)
  BY <1>1, <1>2 DEF QueryHas, IsTruss, Without, min_sup, queryID
<1>6. QueryHas(Erased \cup {need_del})' <=> QueryHas(Gone)
  BY <1>1, <1>2 DEF QueryHas, IsTruss, Without, min_sup, queryID
<1> QED BY <1>1, <1>3, <1>4, <1>5, <1>6 DEF InTime, Apart

LEMMA NextInTimeInv == InTimeInv /\ [Next]_vars => InTimeInv'
<1> SUFFICES ASSUME InTimeInv, [Next]_vars PROVE InTime' /\ Apart'
  BY NextIInv DEF InTimeInv
<1>1. IInv /\ Phases
  BY DEF InTimeInv, IInv
<1>2. CASE Judge \/ Refuse \/ DelEdge \/ Triangle \/ Pop \/ JudgedOut
  <2>1. answer' = {} /\ ~Querying'
    BY <1>1, <1>2
       DEF Phases, Judge, Refuse, DelEdge, Triangle, Pop, JudgedOut, Querying
  <2> QED BY <2>1 DEF InTime, Apart
<1>3. CASE JudgedIn
  BY <1>3, InduceInTime DEF JudgedIn
<1>4. CASE WithoutIndex
  BY <1>4, InduceInTime DEF WithoutIndex
<1>5. CASE Del_Node
  <2>1. /\ DOMAIN sup' = DOMAIN sup /\ input' = input /\ ind_Vert' = ind_Vert
        /\ Querying /\ Querying' /\ answer' = {} /\ Live' \subseteq Live
    BY <1>1, <1>5 DEF Phases, Del_Node, Querying, Live
  <2> QED BY <2>1, SameInTime
<1>6. CASE Erase
  BY <1>6, EraseInTime
<1>7. CASE Stop
  BY <1>7, StopInTime
<1>8. ASSUME NEW e \in DOMAIN sup, Skip(e)
      PROVE  InTime' /\ Apart'
  <2>1. /\ DOMAIN sup' = DOMAIN sup /\ input' = input /\ ind_Vert' = ind_Vert
        /\ Querying /\ Querying' /\ answer' = {} /\ Live' \subseteq Live
    BY <1>1, <1>8 DEF Phases, Skip, Querying, Live
  <2> QED BY <2>1, SameInTime
<1>9. ASSUME NEW e \in DOMAIN sup, Del_Edge_Truss(e)
      PROVE  InTime' /\ Apart'
  <2>1. /\ DOMAIN sup' = DOMAIN sup /\ input' = input /\ ind_Vert' = ind_Vert
        /\ Querying /\ Querying' /\ answer' = {}
    BY <1>1, <1>9 DEF Phases, Del_Edge_Truss, Querying
  <2>2. Live' \subseteq Live
    <3> SUFFICES ASSUME NEW f \in DOMAIN sup, sup[f] = Deleted PROVE sup'[f] = Deleted
      BY <2>1 DEF Live
    <3>1. min_sup \in Nat
      BY <1>1, MinSup DEF IInv, TypeOK
    <3>2. ~Spares(f)
      BY <3>1 DEF Spares, Deleted
    <3> QED BY <1>9, <3>2 DEF Del_Edge_Truss
  <2> QED BY <2>1, <2>2, SameInTime
<1>10. CASE Terminated \/ UNCHANGED vars
  <2>1. UNCHANGED vars
    BY <1>10 DEF Terminated
  <2> QED BY <2>1 DEF vars, InTimeInv, InTime, Apart, TrussGiven, QueryHas, Querying, Live,
               min_sup, queryID, Erased, Incident, Without, IsTruss
<1> QED BY <1>2, <1>3, <1>4, <1>5, <1>6, <1>7, <1>8, <1>9, <1>10 DEF Next

-----------------------------------------------------------------------------
LEMMA Kept ==
  /\ IInv => SupportCounts /\ EnoughLeft /\ QueryKept /\ TrussKept
  /\ InTimeInv => StopsInTime
<1>1. ASSUME IInv, pc = "round" \/ (pc = "cascade" /\ pending = {}),
             NEW e \in Live, Triangles(e, DOMAIN sup) >= min_sup
      PROVE  Triangles(e, Live) >= min_sup
  <2>1. Querying /\ pending = {}
    BY <1>1 DEF IInv, Phases, Querying
  <2>2. sup[e] >= min_sup
    BY <1>1, <2>1 DEF IInv, Floor
  <2> QED BY <1>1, <2>1, <2>2 DEF IInv, SupportCounts
<1>2. ASSUME IInv PROVE TrussKept
  <2>1. Querying => Largest(Without(Gone)) \subseteq Live
    BY <1>2, LargestOfWithout DEF IInv, TrussesKept
  <2>2. pc = "cascade" => Gone = Erased \cup {need_del} /\ Querying
    BY DEF Gone, Querying
  <2>3. pc = "round" => Gone = Erased /\ Querying
    BY DEF Gone, Querying
  <2> QED BY <2>1, <2>2, <2>3 DEF TrussKept
<1>3. ASSUME InTimeInv, answer # {}, TrussGiven
      PROVE  /\ \E e \in Largest(Without(Erased)) : queryID \in Ends(e)
             /\ \A e \in Largest(Without(Erased \cup {need_del})) : queryID \notin Ends(e)
  <2>1. TypeOK /\ QueryHas(Erased) /\ ~QueryHas(Erased \cup {need_del})
    BY <1>3 DEF InTimeInv, IInv, InTime
  <2>2. \E e \in Largest(Without(Erased)) : queryID \in Ends(e)
    BY <2>1, LargestOfWithout DEF QueryHas
  <2>3. ASSUME NEW e \in Largest(Without(Erased \cup {need_del})), queryID \in Ends(e)
        PROVE  FALSE
    BY <2>1, <2>3, LargestOfWithout DEF QueryHas
  <2> QED BY <2>2, <2>3
<1>4. IInv => SupportCounts /\ QueryKept
  BY DEF IInv
<1>5. IInv => EnoughLeft
  BY <1>1 DEF EnoughLeft
<1>6. InTimeInv => StopsInTime
  BY <1>3 DEF StopsInTime, TrussGiven
<1> QED BY <1>2, <1>4, <1>5, <1>6

(* The support array covers edges only, both queues hold edges of the      *)
(* graph, and the vertex that is deleted is one of the graph's.            *)
THEOREM TypeCorrect == Spec => []TypeOK
<1>1. IInv => TypeOK
  BY DEF IInv
<1> QED BY InitIInv, NextIInv, <1>1, PTL DEF Spec

(* However the edges of a cascade follow each other, the support of an     *)
(* edge that does not wait is the number of its triangles that are left.   *)
THEOREM SupportCountsCorrect == Spec => []SupportCounts
<1>1. IInv => SupportCounts
  BY Kept
<1> QED BY InitIInv, NextIInv, <1>1, PTL DEF Spec

(* A cascade that is over leaves no edge without support that had enough   *)
(* of it in the graph of the query.                                        *)
THEOREM EnoughLeftCorrect == Spec => []EnoughLeft
<1>1. IInv => EnoughLeft
  BY Kept
<1> QED BY InitIInv, NextIInv, <1>1, PTL DEF Spec

(* No cascade takes an edge of a truss that does without the deleted       *)
(* vertices, whatever the truss.                                           *)
THEOREM TrussesKeptCorrect == Spec => []TrussesKept
<1>1. IInv => TrussesKept
  BY DEF IInv
<1> QED BY InitIInv, NextIInv, <1>1, PTL DEF Spec

(* The query is never erased: assert(ind_Vert.count(queryID)) of the loop. *)
THEOREM QueryKeptCorrect == Spec => []QueryKept
<1>1. IInv => QueryKept
  BY Kept
<1> QED BY InitIInv, NextIInv, <1>1, PTL DEF Spec

(* In particular the largest truss among the vertices that are left, or    *)
(* that would be left without the one being deleted, loses no edge.        *)
THEOREM TrussKeptCorrect == Spec => []TrussKept
<1>1. IInv => TrussKept
  BY Kept
<1> QED BY InitIInv, NextIInv, <1>1, PTL DEF Spec

(* Given a truss with the query, the loop stops in time: the query has a   *)
(* truss among the vertices that are returned, and none among these        *)
(* without the one that was deleted last.                                  *)
THEOREM StopsInTimeCorrect == Spec => []StopsInTime
<1>1. InTimeInv => StopsInTime
  BY Kept
<1> QED BY InitInTimeInv, NextInTimeInv, <1>1, PTL DEF Spec

-----------------------------------------------------------------------------
(* The queries of ATC.  Its scores are fractions of whole numbers.         *)
LEMMA Squared ==
  ASSUME NEW S, IsFiniteSet(S), NEW cnt \in [S -> Nat]
  PROVE  Squares(cnt) \in Int
<1> DEFINE Added(r, s) == cnt[AnyOf(s)] * cnt[AnyOf(s)] + r[AllBut(s)]
<1> DEFINE Sum(r) == r = [s \in SUBSET S |-> IF s = {} THEN 0 ELSE Added(r, s)]
<1> DEFINE Adder(T) == [p \in S \X T |-> cnt[p[1]] * cnt[p[1]] + p[2]]
<1>1. \A s \in SUBSET S : AllBut(s) \in SUBSET S /\ (s # {} => AnyOf(s) \in S)
  BY DEF AnyOf, AllBut
<1>2. ASSUME NEW T, NEW r, \A s \in SUBSET S : r[s] \in T
      PROVE  Sum(r) <=> Folding(S, 0, Adder(T), r)
  <2>1. ASSUME NEW s \in SUBSET S, s # {}
        PROVE  Adder(T)[<<AnyOf(s), r[AllBut(s)]>>] = Added(r, s)
    BY <1>1, <1>2, <2>1
  <2> HIDE DEF Adder, Added
  <2>2. \A s \in SUBSET S : (IF s = {} THEN 0 ELSE Adder(T)[<<AnyOf(s), r[AllBut(s)]>>])
                              = (IF s = {} THEN 0 ELSE Added(r, s))
    BY <2>1
  <2> QED BY <2>2 DEF Folding
<1>3. ASSUME NEW r, NEW T, Int \subseteq T, Folding(S, 0, Adder(T), r)
      PROVE  \A s \in SUBSET S : r[s] \in Int
  <2>1. \A x \in S, y \in Int : Adder(T)[<<x, y>>] \in Int
    BY <1>3
  <2> HIDE DEF Adder
  <2> QED BY <1>3, <2>1, FoldingKeeps
<1>4. PICK w : Folding(S, 0, Adder(Int), w)
  <2> HIDE DEF Adder
  <2> QED BY FoldingExists
<1>5. Sum(w)
  <2> HIDE DEF Adder, Sum
  <2> QED BY <1>2, <1>3, <1>4
<1> DEFINE r == CHOOSE x : Sum(x)
<1>6. Sum(r)
  <2> HIDE DEF Sum
  <2> QED BY <1>5
<1> DEFINE T == Int \cup {r[s] : s \in SUBSET S}
<1>7. Folding(S, 0, Adder(T), r)
  <2>1. \A s \in SUBSET S : r[s] \in T
    OBVIOUS
  <2> HIDE DEF Adder, Sum, T, r
  <2> QED BY <1>2, <1>6, <2>1
<1>8. r[S] \in Int
  <2>1. Int \subseteq T
    OBVIOUS
  <2> HIDE DEF Adder, Sum, T, r
  <2> QED BY <1>3, <1>7, <2>1
<1>9. Squares(cnt) = r[S]
  BY DEF Squares, MapThenSumSet, MapThenFoldSet, AnyOf, AllBut
<1> QED BY <1>8, <1>9

LEMMA CountsForm ==
  ASSUME IsFiniteSet(Wq), NEW S \in SUBSET Vertex
  PROVE  /\ Counts(S) \in [Wq -> Nat] /\ Squares(Counts(S)) \in Int
         /\ Cardinality(S) \in Nat
         /\ \A T \in SUBSET S :
              Counts(S \ T) = [a \in Wq |-> Counts(S)[a] - Counts(T)[a]]
<1> DEFINE With(T, a) == {v \in T : a \in input.attr[v]}
<1>1. IsFiniteSet(S) /\ \A T \in SUBSET S : IsFiniteSet(T)
  BY FS_Subset, QueryAssumption
<1>2. \A T \in SUBSET S : \A a : IsFiniteSet(With(T, a)) /\ Cardinality(With(T, a)) \in Nat
  BY <1>1, FS_Subset, FS_CardinalityType
<1>3. Counts(S) \in [Wq -> Nat]
  BY <1>2 DEF Counts
<1>4. ASSUME NEW T \in SUBSET S
      PROVE  Counts(S \ T) = [a \in Wq |-> Counts(S)[a] - Counts(T)[a]]
  <2>1. ASSUME NEW a
        PROVE  Cardinality(With(S \ T, a))
                 = Cardinality(With(S, a)) - Cardinality(With(T, a))
    <3>1. With(S \ T, a) = With(S, a) \ With(T, a) /\ With(T, a) \subseteq With(S, a)
      OBVIOUS
    <3>2. IsFiniteSet(With(S, a)) /\ IsFiniteSet(With(T, a))
      BY <1>2
    <3> DEFINE A == With(S, a)
    <3> DEFINE B == With(T, a)
    <3> HIDE DEF A, B
    <3>3. IsFiniteSet(A) /\ A \cap B = B
      BY <3>1, <3>2 DEF A, B
    <3>4. Cardinality(A \ B) = Cardinality(A) - Cardinality(B)
      BY <3>3, FS_Difference
    <3> QED BY <3>1, <3>4 DEF A, B
  <2> QED BY <2>1 DEF Counts
<1>5. Squares(Counts(S)) \in Int
  BY <1>3, Squared
<1> QED BY <1>1, <1>3, <1>4, <1>5, FS_CardinalityType

ATCGiven == \E q \in Queries : input = Given(q)

LEMMA GivenForm ==
  ASSUME ATCGiven
  PROVE  /\ IsATC /\ queryID \in Vertex /\ queryID \in Nat /\ queryID - 1 \in Vertex
         /\ min_sup \in Nat /\ min_sup >= 1 /\ IsFiniteSet(Wq)
         /\ queryID \notin adj[queryID] /\ queryID \notin adj[queryID - 1]
         /\ \A u, v \in Vertex :
              u # queryID - 1 /\ v # queryID - 1 /\ v \in adj[u] => u \in adj[v]
<1>1. PICK q \in Queries : input = Given(q)
  BY DEF ATCGiven
<1>2. /\ input.queryID = q.queryID /\ input.attr = q.attr
      /\ input.req_trussness = q.req_trussness
      /\ input.adj = [q.adj EXCEPT ![q.queryID - 1] = q.adj[q.queryID]]
      /\ "attr" \in DOMAIN input
  BY <1>1 DEF Given, Copy
<1>3. /\ q.queryID \in Vertex /\ q.queryID \in Nat /\ q.queryID - 1 \in Vertex
      /\ q.queryID - 1 # q.queryID
      /\ q.adj \in [Vertex -> SUBSET Vertex]
      /\ q.req_trussness \in Nat /\ q.req_trussness >= 3 /\ IsFiniteSet(q.attr[q.queryID])
      /\ \A u, v \in Vertex : v \in q.adj[u] => u # v /\ u \in q.adj[v]
  <2>1. Vertex \subseteq Nat
    BY QueryAssumption
  <2>2. /\ q.queryID \in Vertex /\ q.queryID - 1 \in Vertex
        /\ q.adj \in [Vertex -> SUBSET Vertex]
        /\ q.req_trussness \in Nat /\ q.req_trussness >= 3 /\ IsFiniteSet(q.attr[q.queryID])
    BY ATCAssumption
  <2>3. \A u, v \in Vertex : v \in q.adj[u] => u # v /\ u \in q.adj[v]
    BY ATCAssumption
  <2>4. q.queryID \in Nat
    BY <2>1, <2>2
  <2>5. q.queryID - 1 # q.queryID
    BY <2>4
  <2> QED BY <2>2, <2>3, <2>4, <2>5
<1>4. \A u \in Vertex : adj[u] = IF u = queryID - 1 THEN q.adj[queryID] ELSE q.adj[u]
  BY <1>2, <1>3 DEF adj, queryID
<1> QED BY <1>2, <1>3, <1>4 DEF IsATC, queryID, min_sup, Wq

LEMMA TwoKinds ==
  /\ \A i \in Inputs : "attr" \notin DOMAIN i
  /\ \A q : "attr" \in DOMAIN Given(q)
BY QueryAssumption DEF Given

-----------------------------------------------------------------------------
(* The inductive invariant of an ATC query.  From its pruning it keeps no  *)
(* more than that it has edges.                                            *)
Scoring == pc \in {"score", "bulk"}

ATCPhases ==
  /\ pc \in {"begin", "judge", "triangles", "done", "score", "bulk", "answered"}
  /\ pc # "bulk" => pending = {}
  /\ pc # "answered" => answer = {}

Bulk ==
  /\ DOMAIN sup \subseteq Edge
  /\ Scoring =>
       /\ sup \in [DOMAIN sup -> Int] /\ pending \subseteq DOMAIN sup
       /\ \A e \in DOMAIN sup : queryID - 1 \notin Ends(e) /\ e[2] \in adj[e[1]]
       /\ ind_Vert \in SUBSET Vertex

(* The edges of the query have the support of their triangles (those of    *)
(* others may count the copy), so that they fall when the edges around the *)
(* query do: the query, deleted, is never erased.                          *)
QuerysEdges ==
  Scoring => \A e \in Incident(queryID) \cap (Live \ pending) : sup[e] = Triangles(e, Live)
Around == pc = "bulk" => \A e \in EdgesAround(need_del_l) : e \in pending \/ e \notin Live
QueryStays == Scoring \/ pc = "answered" => queryID \in ind_Vert

(* The counters are those of the vertices that are left, and the score is  *)
(* theirs or, when a round has just ended, that of those before the round. *)
CountersKept ==
  /\ Scoring => attr_cnt = Counts(ind_Vert)
  /\ pc = "score" => \/ max_score = Score(ind_Vert, attr_cnt)
                     \/ /\ TakenBack \in SUBSET Vertex
                        /\ max_score = Score(TakenBack, Counts(TakenBack))
  /\ pc = "bulk" => max_score = Score(ind_Vert, attr_cnt) /\ need_del_l \subseteq ind_Vert

BulkInv ==
  /\ ATCGiven /\ ATCPhases /\ Bulk /\ QuerysEdges /\ Around /\ QueryStays
  /\ CountersKept /\ AnswerScored

ATCInv == IF IsATC THEN BulkInv ELSE InTimeInv

LEMMA InitATCInv == ATCInit => ATCInv
<1> SUFFICES ASSUME ATCInit PROVE ATCInv
  OBVIOUS
<1>1. CASE Init
  <2>1. InTimeInv
    BY <1>1, InitInTimeInv
  <2>2. ~IsATC
    BY <1>1, TwoKinds DEF Init, IsATC
  <2> QED BY <2>1, <2>2 DEF ATCInv
<1>2. CASE ~Init
  <2>1. /\ ATCGiven /\ pc = "begin" /\ sup = support_init({}) /\ pending = {}
        /\ answer = {}
    BY <1>2 DEF ATCInit, ATCGiven
  <2>2. DOMAIN sup = {}
    BY <2>1 DEF support_init
  <2>3. BulkInv
    BY <2>1, <2>2 DEF BulkInv, ATCPhases, Bulk, QuerysEdges, Around, QueryStays,
                      CountersKept, AnswerScored, Scoring
  <2> QED BY <2>1, <2>3, GivenForm DEF ATCInv
<1> QED BY <1>1, <1>2

LEMMA SameInput ==
  ASSUME input' = input
  PROVE  /\ (IsATC' <=> IsATC) /\ (ATCGiven' <=> ATCGiven)
         /\ queryID' = queryID /\ min_sup' = min_sup /\ adj' = adj /\ Wq' = Wq
         /\ \A S : Counts(S)' = Counts(S)
BY DEF IsATC, ATCGiven, queryID, min_sup, adj, Wq, Counts

-----------------------------------------------------------------------------
(* The steps of an ATC query.                                              *)
LEMMA PruneKeeps ==
  ASSUME BulkInv, Prune \/ Terminated
  PROVE  BulkInv'
<1>1. /\ input' = input /\ pending' = {} /\ answer' = {}
      /\ pc' \in {"judge", "triangles", "done"}
  BY DEF BulkInv, ATCPhases, Prune, Judge, Refuse, DelEdge, Triangle, Pop, JudgedOut,
         Terminated, vars
<1>2. DOMAIN sup' \subseteq Edge
  <2>1. CASE Judge
    BY <2>1, InducedEdges DEF Judge
  <2>2. CASE Triangle
    <3>1. \E w \in left : Visit(w)
      BY <2>2 DEF Triangle, Visit
    <3>2. DOMAIN sup' = DOMAIN sup
      BY <3>1 DEF Visit
    <3> QED BY <3>2 DEF BulkInv, Bulk
  <2>3. CASE ~Judge /\ ~Triangle
    <3>1. DOMAIN sup' = DOMAIN sup
      BY <2>3 DEF Prune, Refuse, DelEdge, Pop, JudgedOut, Terminated, vars
    <3> QED BY <3>1 DEF BulkInv, Bulk
  <2> QED BY <2>1, <2>2, <2>3
<1>3. ATCGiven'
  BY <1>1, SameInput DEF BulkInv
<1> QED BY <1>1, <1>2, <1>3 DEF BulkInv, ATCPhases, Bulk, QuerysEdges, Around, QueryStays,
                               CountersKept, AnswerScored, Scoring

(* The copy closes no triangle with the query.                             *)
LEMMA BulkGeneralKeeps ==
  ASSUME BulkInv, Bulk_General
  PROVE  BulkInv'
<1> DEFINE nodes == nodes_in_truss
<1> DEFINE before == Induced(nodes)
<1> DEFINE after == Induced(nodes \ {queryID - 1})
<1>1. /\ input' = input /\ pending' = {} /\ answer' = {} /\ pc' = "score"
      /\ ind_Vert' = nodes \ {queryID - 1} /\ queryID \in nodes
      /\ sup' = [e \in after |-> Triangles(e, before)]
      /\ attr_cnt' = Counts(ind_Vert)' /\ max_score' = Score(ind_Vert, attr_cnt)'
  <2>1. BulkInv /\ ATCPhases
    BY DEF BulkInv
  <2>2. attr_cnt' = Counts(ind_Vert)' /\ max_score' = Score(ind_Vert, attr_cnt)'
    BY DEF Bulk_General, Counts, Score, Wq, queryID
  <2> QED BY <2>1, <2>2 DEF ATCPhases, Bulk_General, Induced, adj
<1>2. ATCGiven /\ ATCGiven'
  BY <1>1, SameInput DEF BulkInv
<1>3. queryID' = queryID /\ adj' = adj
  BY <1>1, SameInput
<1>4. after \in SUBSET Edge /\ DOMAIN sup' = after /\ sup' \in [after -> Nat]
  BY <1>1, Finite DEF Induced
<1>5. nodes \in SUBSET Vertex
  BY EdgeForm DEF nodes_in_truss, Ends, BulkInv, Bulk
<1>6. Bulk'
  BY <1>1, <1>3, <1>4, <1>5 DEF Bulk, Induced
<1>7. Live' = after
  <2>1. \A e \in after : sup'[e] # Deleted
    <3> HIDE DEF after
    <3> QED BY <1>4 DEF Deleted
  <2> HIDE DEF after
  <2> QED BY <1>4, <2>1 DEF Live, Deleted
<1>8. ASSUME NEW e \in after, queryID \in Ends(e)
      PROVE  Apexes(e, before) = Apexes(e, after)
  <2>1. e[1] \in nodes \ {queryID - 1} /\ e[2] \in nodes \ {queryID - 1}
    BY <1>8 DEF Induced, Ends
  <2>2. after \subseteq before
    BY DEF Induced
  <2>3. ASSUME NEW w \in Apexes(e, before)
        PROVE  w \in Apexes(e, after)
    <3>1. w \in Vertex \ Ends(e) /\ Side(e[1], w) \in before /\ Side(e[2], w) \in before
      BY DEF Apexes
    <3>2. queryID \in Vertex /\ queryID \in Nat /\ queryID \notin adj[queryID - 1]
      BY <1>2, GivenForm
    <3>3. w # queryID - 1
      <4> SUFFICES ASSUME w = queryID - 1 PROVE FALSE
        OBVIOUS
      <4>1. Side(queryID, w) \in before
        BY <1>8, <3>1 DEF Ends
      <4>2. Side(queryID, w) = <<w, queryID>>
        BY <3>2 DEF Side
      <4> QED BY <3>2, <4>1, <4>2 DEF Induced
    <3>4. /\ Ends(Side(e[1], w)) = {e[1], w} /\ Ends(Side(e[2], w)) = {e[2], w}
      BY DEF Ends, Side
    <3>5. w \in nodes
      BY <3>1, <3>4 DEF Induced
    <3>6. Side(e[1], w) \in after /\ Side(e[2], w) \in after
      BY <2>1, <3>1, <3>3, <3>4, <3>5 DEF Induced
    <3> QED BY <3>1, <3>6 DEF Apexes
  <2> QED BY <2>2, <2>3 DEF Apexes
<1>9. QuerysEdges'
  BY <1>1, <1>3, <1>4, <1>7, <1>8 DEF QuerysEdges, Incident, Triangles
<1>10. QueryStays'
  BY <1>1, <1>2, <1>3, GivenForm DEF QueryStays
<1>11. CountersKept'
  BY <1>1 DEF CountersKept, Scoring
<1> QED BY <1>1, <1>2, <1>6, <1>9, <1>10, <1>11
        DEF BulkInv, ATCPhases, Around, AnswerScored

LEMMA DelNodesKeeps ==
  ASSUME BulkInv, Del_Nodes
  PROVE  BulkInv'
<1>1. /\ pc = "score" /\ pc' = "bulk" /\ Scoring /\ Scoring'
      /\ pending = {} /\ pending' = EdgesAround(need_del_l') /\ answer = {} /\ answer' = {}
      /\ max_score' = Score(ind_Vert, attr_cnt) /\ need_del_l' \subseteq ind_Vert
      /\ input' = input /\ sup' = sup /\ ind_Vert' = ind_Vert /\ attr_cnt' = attr_cnt
  BY DEF BulkInv, ATCPhases, Del_Nodes, Least, Scoring
<1>2. /\ ATCGiven /\ ATCGiven' /\ queryID' = queryID /\ adj' = adj /\ Live' = Live
      /\ Counts(ind_Vert)' = Counts(ind_Vert)
  BY <1>1, SameInput DEF BulkInv, Live
<1>3. Bulk' /\ Around'
  BY <1>1, <1>2 DEF BulkInv, Bulk, Around, EdgesAround
<1>4. QuerysEdges' /\ QueryStays'
  BY <1>1, <1>2 DEF BulkInv, QuerysEdges, QueryStays, Incident
<1>5. CountersKept'
  BY <1>1, <1>2 DEF BulkInv, CountersKept, Score
<1> QED BY <1>1, <1>2, <1>3, <1>4, <1>5 DEF BulkInv, ATCPhases, AnswerScored

LEMMA AtLeastItself ==
  ASSUME ATCGiven, NEW S \in SUBSET Vertex
  PROVE  AtLeast(Score(S, Counts(S)), Score(S, Counts(S)))
<1>1. Squares(Counts(S)) \in Int /\ Cardinality(S) \in Int
  BY GivenForm, CountsForm
<1> QED BY <1>1 DEF AtLeast, Score

LEMMA AnsweredKeeps ==
  ASSUME BulkInv, Restore \/ Stop_Bulk \/ Answered
  PROVE  BulkInv'
<1>1. /\ input' = input /\ pc' = "answered" /\ pending' = {} /\ DOMAIN sup' = DOMAIN sup
      /\ max_score' = max_score /\ ind_Vert' = ind_Vert
  BY DEF BulkInv, ATCPhases, Restore, Stop_Bulk, Answered, vars, atcVars
<1>2. ATCGiven /\ ATCGiven' /\ queryID' = queryID /\ \A S : Counts(S)' = Counts(S)
  BY <1>1, SameInput DEF BulkInv
<1>3. queryID \in ind_Vert
  BY DEF BulkInv, QueryStays, Restore, Stop_Bulk, Answered, Scoring
<1>4. ASSUME ~Answered
      PROVE  /\ answer' \in SUBSET Vertex /\ queryID \in answer'
             /\ max_score = Score(answer', Counts(answer'))
  <2>1. CASE Restore
    <3>1. /\ pc = "score" /\ Scoring /\ answer' = TakenBack
          /\ ~AtLeast(Score(ind_Vert, attr_cnt), max_score)
      BY <2>1 DEF Restore, Scoring
    <3>2. attr_cnt = Counts(ind_Vert) /\ ind_Vert \in SUBSET Vertex
      BY <3>1 DEF BulkInv, CountersKept, Bulk
    <3>3. max_score # Score(ind_Vert, attr_cnt)
      BY <1>2, <3>1, <3>2, AtLeastItself
    <3>4. TakenBack \in SUBSET Vertex /\ max_score = Score(TakenBack, Counts(TakenBack))
      BY <3>1, <3>3 DEF BulkInv, CountersKept
    <3> QED BY <1>3, <3>1, <3>4 DEF TakenBack
  <2>2. CASE Stop_Bulk
    BY <1>3, <2>2 DEF Stop_Bulk, BulkInv, CountersKept, Bulk, Scoring
  <2> QED BY <1>4, <2>1, <2>2
<1>5. AnswerScored'
  <2>1. CASE Answered
    BY <1>1, <1>2, <2>1 DEF Answered, vars, BulkInv, AnswerScored, AtLeast, Score
  <2>2. CASE ~Answered
    <3> DEFINE s == Score(answer', Counts(answer'))
    <3>1. AtLeast(s, s) /\ max_score' = s /\ queryID' \in answer'
      BY <1>1, <1>2, <1>4, <2>2, AtLeastItself
    <3>2. Score(answer, Counts(answer))' = s
      BY <1>2 DEF Score
    <3> HIDE DEF s
    <3>3. AtLeast(s, max_score') /\ AtLeast(max_score', s)
      BY <3>1
    <3> QED BY <3>1, <3>2, <3>3 DEF AnswerScored, AtLeast
  <2> QED BY <2>1, <2>2
<1>6. ~Scoring'
  BY <1>1 DEF Scoring
<1> QED BY <1>1, <1>2, <1>3, <1>5, <1>6
        DEF BulkInv, ATCPhases, Bulk, QuerysEdges, Around, QueryStays, CountersKept

LEMMA SkipKeeps ==
  ASSUME BulkInv, NEW e \in DOMAIN sup, SkipDeleted(e)
  PROVE  BulkInv'
<1>1. /\ pc = "bulk" /\ pc' = pc /\ Scoring /\ Scoring' /\ answer = {} /\ answer' = {}
      /\ e \notin Live /\ pending' = pending \ {e}
      /\ input' = input /\ sup' = sup /\ ind_Vert' = ind_Vert /\ atcVars' = atcVars
  BY DEF BulkInv, ATCPhases, SkipDeleted, Scoring
<1>2. /\ ATCGiven /\ ATCGiven' /\ queryID' = queryID /\ adj' = adj /\ Live' = Live
      /\ Counts(ind_Vert)' = Counts(ind_Vert)
      /\ Live' \ pending' = Live \ pending
  BY <1>1, SameInput DEF BulkInv, Live
<1>3. Bulk' /\ Around'
  BY <1>1, <1>2 DEF BulkInv, Bulk, Around, EdgesAround, atcVars
<1>4. QuerysEdges' /\ QueryStays'
  BY <1>1, <1>2 DEF BulkInv, QuerysEdges, QueryStays, Incident
<1>5. CountersKept'
  BY <1>1, <1>2 DEF BulkInv, CountersKept, Score, atcVars, Scoring
<1> QED BY <1>1, <1>2, <1>3, <1>4, <1>5 DEF BulkInv, ATCPhases, AnswerScored

LEMMA DelEdgeKeeps ==
  ASSUME BulkInv, NEW e \in DOMAIN sup, Del_Edge_Bulk(e)
  PROVE  BulkInv'
<1>1. /\ pc = "bulk" /\ pc' = pc /\ Scoring /\ Scoring' /\ answer = {} /\ answer' = {}
      /\ e \in pending /\ e \in Live
      /\ sup' = [f \in DOMAIN sup |->
                   IF f = e THEN Deleted
                   ELSE IF f \in Others(e) /\ Spares(f) THEN sup[f] - 1 ELSE sup[f]]
      /\ pending' = (pending \ {e}) \cup {f \in Others(e) : Falls(f)}
      /\ input' = input /\ ind_Vert' = ind_Vert /\ atcVars' = atcVars
  BY DEF BulkInv, ATCPhases, Del_Edge_Bulk, Scoring
<1>2. /\ ATCGiven /\ ATCGiven' /\ queryID' = queryID /\ adj' = adj
      /\ Counts(ind_Vert)' = Counts(ind_Vert) /\ min_sup \in Nat
  BY <1>1, SameInput, GivenForm DEF BulkInv
<1>3. /\ DOMAIN sup' = DOMAIN sup /\ DOMAIN sup \subseteq Edge
      /\ sup \in [DOMAIN sup -> Int] /\ Deleted = -1
  BY <1>1 DEF BulkInv, Bulk, Deleted
<1>4. ASSUME NEW f \in DOMAIN sup, f # e
      PROVE  /\ sup'[f] = IF f \in Others(e) /\ Spares(f) THEN sup[f] - 1 ELSE sup[f]
             /\ sup'[f] = Deleted <=> sup[f] = Deleted
  BY <1>1, <1>2, <1>3, <1>4 DEF Spares
<1>5. Live' = Live \ {e} /\ Live \in SUBSET Edge
  BY <1>1, <1>3, <1>4 DEF Live
<1>6. Bulk'
  <2>1. sup' \in [DOMAIN sup -> Int]
    BY <1>1, <1>3
  <2>2. \A w \in Whole(e) : Side(e[1], w) \in Live /\ Side(e[2], w) \in Live
    BY DEF Whole, Apexes
  <2>3. Others(e) \subseteq DOMAIN sup
    BY <2>2 DEF Others, Live
  <2> QED BY <1>1, <1>2, <1>3, <2>1, <2>3 DEF BulkInv, Bulk
<1>7. Around'
  BY <1>1, <1>2, <1>3, <1>5 DEF BulkInv, Around, EdgesAround, atcVars
<1>8. QuerysEdges'
  <2> SUFFICES ASSUME NEW f \in Incident(queryID), f \in Live' \ pending'
               PROVE  sup'[f] = Triangles(f, Live')
    BY <1>2, <1>3 DEF QuerysEdges, Incident
  <2>1. f \in Live /\ f # e /\ f \notin pending /\ f \in DOMAIN sup
    BY <1>1, <1>5 DEF Live
  <2>2. sup[f] = Triangles(f, Live) /\ Triangles(f, Live) \in Nat
    BY <1>1, <2>1, Finite DEF BulkInv, QuerysEdges
  <2>3. Triangles(f, Live') = IF f \in Others(e) THEN Triangles(f, Live) - 1
                                                 ELSE Triangles(f, Live)
    BY <1>1, <1>5, <2>1, OneTriangleLess, OthersMeet
  <2>4. CASE f \in Others(e)
    <3>1. ~Falls(f)
      BY <1>1, <2>4
    <3>2. Triangles(f, Live') \in Nat
      BY Finite
    <3>3. Spares(f)
      BY <2>2, <2>3, <2>4, <3>1, <3>2 DEF Falls
    <3> QED BY <1>4, <2>1, <2>2, <2>3, <2>4, <3>3
  <2>5. CASE f \notin Others(e)
    BY <1>4, <2>1, <2>2, <2>3, <2>5
  <2> QED BY <2>4, <2>5
<1>9. QueryStays' /\ CountersKept'
  BY <1>1, <1>2 DEF BulkInv, QueryStays, CountersKept, Score, atcVars, Scoring
<1> QED BY <1>1, <1>2, <1>6, <1>7, <1>8, <1>9 DEF BulkInv, ATCPhases, AnswerScored

(* An edge that is left between the query and another vertex has a         *)
(* triangle, of which the third edge is around the query: the query was    *)
(* not among the vertices deleted.                                         *)
LEMMA EraseBulkKeeps ==
  ASSUME BulkInv, Erase_Bulk
  PROVE  BulkInv'
<1>1. /\ pc = "bulk" /\ pc' = "score" /\ Scoring /\ Scoring' /\ answer = {} /\ answer' = {}
      /\ pending = {} /\ pending' = {} /\ Holds /\ ind_Vert' = ind_Vert \ need_del_l
      /\ attr_cnt' = [a \in Wq |-> attr_cnt[a] - Counts(need_del_l)[a]]
      /\ input' = input /\ sup' = sup /\ max_score' = max_score /\ need_del_l' = need_del_l
  BY DEF BulkInv, ATCPhases, Erase_Bulk, Scoring
<1>2. /\ ATCGiven /\ ATCGiven' /\ queryID' = queryID /\ adj' = adj /\ Live' = Live
      /\ \A S : Counts(S)' = Counts(S)
  BY <1>1, SameInput DEF BulkInv, Live
<1>3. /\ sup \in [DOMAIN sup -> Int] /\ DOMAIN sup \subseteq Edge
      /\ ind_Vert \in SUBSET Vertex /\ need_del_l \in SUBSET ind_Vert
      /\ attr_cnt = Counts(ind_Vert) /\ max_score = Score(ind_Vert, attr_cnt)
      /\ \A e \in DOMAIN sup : queryID - 1 \notin Ends(e) /\ e[2] \in adj[e[1]]
  BY <1>1 DEF BulkInv, Bulk, CountersKept
<1>4. queryID \notin need_del_l
  <2> SUFFICES ASSUME queryID \in need_del_l PROVE FALSE
    OBVIOUS
  <2>1. PICK e \in Incident(queryID) : sup[e] >= min_sup
    BY <1>1 DEF Holds
  <2>2. e \in DOMAIN sup /\ e \in Edge /\ sup[e] \in Int /\ queryID \in Ends(e)
    BY <1>3, <2>1 DEF Incident
  <2>3. sup[e] >= 1 /\ e \in Live
    <3>1. min_sup \in Nat /\ min_sup >= 1
      BY <1>2, GivenForm
    <3> QED BY <2>1, <2>2, <3>1 DEF Live, Deleted
  <2>4. Triangles(e, Live) >= 1
    BY <1>1, <2>1, <2>3 DEF BulkInv, QuerysEdges
  <2>5. Apexes(e, Live) # {}
    BY <2>4, FS_EmptySet DEF Triangles
  <2>6. PICK w : w \in Apexes(e, Live)
    BY <2>5
  <2>7. w \in Vertex /\ w \notin Ends(e) /\ Side(e[1], w) \in Live /\ Side(e[2], w) \in Live
    BY <2>6 DEF Apexes
  <2>8. \A f \in Live : queryID \in Ends(f) => Ends(f) \ {queryID} \subseteq adj[queryID]
    <3> SUFFICES ASSUME NEW f \in Live, queryID \in Ends(f)
                 PROVE  Ends(f) \ {queryID} \subseteq adj[queryID]
      OBVIOUS
    <3>1. f \in Edge /\ queryID - 1 \notin Ends(f) /\ f[2] \in adj[f[1]]
      BY <1>3 DEF Live
    <3>2. f[1] \in Vertex /\ f[2] \in Vertex
      BY <3>1, EdgeForm
    <3>3. f[1] \in adj[f[2]]
      BY <1>2, <3>1, <3>2, GivenForm DEF Ends
    <3> QED BY <3>1, <3>3 DEF Ends
  <2>9. ASSUME NEW u \in Vertex, u # queryID, u # w, Ends(e) = {queryID, u},
               Side(queryID, w) \in Live, Side(u, w) \in Live
        PROVE  FALSE
    <3>1. queryID \in Vertex /\ w # queryID
      BY <1>2, <2>7, <2>9, GivenForm
    <3>2. u \in adj[queryID]
      BY <2>3, <2>8, <2>9
    <3>3. w \in adj[queryID]
      <4>1. Ends(Side(queryID, w)) = {queryID, w}
        BY <2>7, <3>1, SideForm
      <4> QED BY <2>8, <2>9, <3>1, <4>1
    <3>4. Ends(Side(u, w)) = {u, w}
      BY <2>7, <2>9, SideForm
    <3>5. Side(u, w) \in EdgesAround(need_del_l)
      BY <2>9, <3>2, <3>3, <3>4 DEF EdgesAround, Live, adj
    <3> QED BY <1>1, <2>9, <3>5 DEF BulkInv, Around
  <2>10. e[1] \in Vertex /\ e[2] \in Vertex /\ e[1] # e[2]
    BY <2>2, EdgeForm
  <2>11. CASE queryID = e[1]
    BY <2>7, <2>9, <2>10, <2>11 DEF Ends
  <2>12. CASE queryID = e[2]
    BY <2>7, <2>9, <2>10, <2>12 DEF Ends
  <2> QED BY <2>2, <2>11, <2>12 DEF Ends
<1>5. Bulk' /\ QueryStays'
  BY <1>1, <1>2, <1>3, <1>4 DEF BulkInv, Bulk, QueryStays
<1>6. QuerysEdges'
  BY <1>1, <1>2 DEF BulkInv, QuerysEdges, Incident
<1>7. CountersKept'
  <2>1. attr_cnt' = Counts(ind_Vert')
    BY <1>1, <1>2, <1>3, GivenForm, CountsForm
  <2>2. Counts(ind_Vert)' = Counts(ind_Vert')
    BY <1>1 DEF Counts, Wq, queryID
  <2>3. TakenBack' = ind_Vert
    BY <1>1, <1>3 DEF TakenBack
  <2>4. Score(TakenBack, Counts(TakenBack))' = Score(ind_Vert, Counts(ind_Vert))
    BY <1>1, <2>3 DEF Score, Counts, Wq, queryID
  <2> QED BY <1>1, <1>3, <2>1, <2>2, <2>3, <2>4 DEF CountersKept
<1> QED BY <1>1, <1>2, <1>5, <1>6, <1>7 DEF BulkInv, ATCPhases, Around, AnswerScored

LEMMA NextATCInv == ATCInv /\ [ATCNext]_<<vars, atcVars>> => ATCInv'
<1> SUFFICES ASSUME ATCInv, [ATCNext]_<<vars, atcVars>> PROVE ATCInv'
  OBVIOUS
<1>1. CASE IsATC
  <2>1. BulkInv
    BY <1>1 DEF ATCInv
  <2>2. BulkInv'
    <3>1. CASE Prune \/ Terminated
      BY <2>1, <3>1, PruneKeeps
    <3>2. CASE Bulk_General \/ Del_Nodes \/ Erase_Bulk
      BY <2>1, <3>2, BulkGeneralKeeps, DelNodesKeeps, EraseBulkKeeps
    <3>3. CASE Restore \/ Stop_Bulk \/ Answered
      BY <2>1, <3>3, AnsweredKeeps
    <3>4. CASE \E e \in DOMAIN sup : SkipDeleted(e) \/ Del_Edge_Bulk(e)
      BY <2>1, <3>4, SkipKeeps, DelEdgeKeeps
    <3>5. CASE UNCHANGED <<vars, atcVars>>
      BY <2>1, <3>5 DEF vars, atcVars, BulkInv, ATCGiven, ATCPhases, Bulk, QuerysEdges, Around,
         QueryStays, CountersKept, AnswerScored, Scoring, Live, Incident, EdgesAround, TakenBack,
         Score, Counts, Wq, queryID, adj
    <3> QED BY <1>1, <3>1, <3>2, <3>3, <3>4, <3>5 DEF ATCNext
  <2>3. IsATC'
    BY <2>2, TwoKinds DEF BulkInv, ATCGiven, IsATC
  <2> QED BY <2>2, <2>3 DEF ATCInv
<1>2. CASE ~IsATC
  <2>1. InTimeInv /\ [Next]_vars
    BY <1>2 DEF ATCInv, ATCNext
  <2>2. InTimeInv'
    BY <2>1, NextInTimeInv
  <2>3. ~IsATC'
    BY <2>2, TwoKinds DEF InTimeInv, IInv, TypeOK, IsATC
  <2> QED BY <2>2, <2>3 DEF ATCInv
<1> QED BY <1>1, <1>2

-----------------------------------------------------------------------------
(* What ATC returns holds the query (assert(ind_Vert.count(queryID))), and *)
(* its community distance is the score that is reported with it, however   *)
(* the rounds of deletion end.                                             *)
THEOREM AnswerScoredCorrect == ATCSpec => []AnswerScored
<1>1. ATCInv => AnswerScored
  BY DEF ATCInv, BulkInv, AnswerScored, InTimeInv, IInv, TypeOK
<1> QED BY InitATCInv, NextATCInv, <1>1, PTL DEF ATCSpec

(* Beside the queries of ATC, which share the operators and the pruning,   *)
(* those of VAC keep their properties.                                     *)
THEOREM VACKept ==
  ATCSpec => [](SupportCounts /\ TrussKept /\ EnoughLeft /\ StopsInTime /\ QueryKept)
<1>1. ATCInv => SupportCounts /\ TrussKept /\ EnoughLeft /\ StopsInTime /\ QueryKept
  <2> SUFFICES ASSUME ATCInv
               PROVE  SupportCounts /\ TrussKept /\ EnoughLeft /\ StopsInTime /\ QueryKept
    OBVIOUS
  <2>1. CASE IsATC
    <3>1. ATCPhases /\ QueryStays
      BY <2>1 DEF ATCInv, BulkInv
    <3>2. pc \notin {"round", "cascade"} /\ ~Querying
      BY <3>1 DEF ATCPhases, Querying
    <3> QED BY <3>1, <3>2 DEF ATCPhases, QueryStays, SupportCounts, TrussKept, EnoughLeft,
                        StopsInTime, QueryKept
  <2>2. CASE ~IsATC
    BY <2>2, Kept DEF ATCInv, InTimeInv, IInv
  <2> QED BY <2>1, <2>2
<1> QED BY InitATCInv, NextATCInv, <1>1, PTL DEF ATCSpec
=============================================================================
