--------------------------- MODULE GraphDataProofs ---------------------------
(***************************************************************************)
(* Lemmas about the operations of GraphData, for any graph: what they keep *)
(* of it, and what they do to its edges as unordered pairs.                *)
(***************************************************************************)
EXTENDS GraphData, TLAPS

\* What each operation on a graph keeps.
Keeps(r, H, I) ==
  /\ IsGraph(r.nodes, H, I)
  /\ WellFormed(r.nodes, H)
  /\ r.status \in StatusCode

LEMMA AddNodeKeeps ==
  ASSUME NEW H, NEW I, NEW g, IsGraph(g, H, I), WellFormed(g, H),
         NEW n \in H
  PROVE  Keeps(AddNode(g, n), H, I)
<1>1. CASE HasNode(g, n)
  BY <1>1 DEF Keeps, AddNode, Result, StatusCode
<1>2. CASE ~HasNode(g, n)
  <2> DEFINE h == [m \in DOMAIN g \cup {n} |-> IF m = n THEN {} ELSE g[m]]
  <2>1. AddNode(g, n) = Result("SUCCESS", h)
    BY <1>2 DEF AddNode
  <2>2. IsGraph(h, H, I)
    BY DEF IsGraph
  <2>3. WellFormed(h, H)
    BY <1>2 DEF WellFormed, NoDangling, Symmetric, Irreflexive, IsGraph, HasNode
  <2> QED
    BY <2>1, <2>2, <2>3 DEF Keeps, Result, StatusCode
<1> QED
  BY <1>1, <1>2

\* With every neighbour present, removing a node never fails an invariant.
LEMMA RemoveNodeKeeps ==
  ASSUME NEW H, NEW g, IsGraph(g, H, H), WellFormed(g, H), NEW n \in H
  PROVE  Keeps(RemoveNode(g, n), H, H)
<1>1. CASE ~HasNode(g, n)
  BY <1>1 DEF Keeps, RemoveNode, Result, StatusCode
<1>2. CASE HasNode(g, n)
  <2> DEFINE h == [m \in DOMAIN g \ {n} |->
                     IF m \in g[n] THEN g[m] \ {n} ELSE g[m]]
  <2>1. \A m \in g[n] : HasNode(g, m)
    BY <1>2 DEF WellFormed, NoDangling, IsGraph, HasNode
  <2>2. RemoveNode(g, n) = Result("SUCCESS", h)
    BY <1>2, <2>1 DEF RemoveNode
  <2>3. IsGraph(h, H, H)
    BY DEF IsGraph
  <2>4. WellFormed(h, H)
    BY <1>2 DEF WellFormed, NoDangling, Symmetric, Irreflexive, IsGraph, HasNode
  <2> QED
    BY <2>2, <2>3, <2>4 DEF Keeps, Result, StatusCode
<1> QED
  BY <1>1, <1>2

LEMMA EdgeArgsSucceeds ==
  ASSUME NEW g, NEW a, NEW b, EdgeArgs(g, a, b) = "SUCCESS"
  PROVE  a # b /\ a \in DOMAIN g /\ b \in DOMAIN g
BY DEF EdgeArgs, HasNode

LEMMA GetEdgeStatus ==
  ASSUME NEW H, NEW g, WellFormed(g, H), NEW a, NEW b
  PROVE  GetEdge(g, a, b) \in StatusCode
<1>1. EdgeArgs(g, a, b) \in StatusCode
  BY DEF EdgeArgs, StatusCode
<1>2. EdgeArgs(g, a, b) = "SUCCESS" => (HasEdge(g, a, b) <=> HasEdge(g, b, a))
  BY EdgeArgsSucceeds DEF WellFormed, Symmetric, HasEdge
<1> QED
  BY <1>1, <1>2 DEF GetEdge, HasEdge, StatusCode

LEMMA AddEdgeKeeps ==
  ASSUME NEW H, NEW I, H \subseteq I, NEW g, IsGraph(g, H, I),
         WellFormed(g, H), NEW a, NEW b
  PROVE  Keeps(AddEdge(g, a, b), H, I)
<1> DEFINE h == LinkOneWay(LinkOneWay(g, a, b), b, a)
<1>1. CASE EdgeArgs(g, a, b) # "SUCCESS"
  BY <1>1 DEF Keeps, AddEdge, Result, EdgeArgs, StatusCode
<1>2. CASE EdgeArgs(g, a, b) = "SUCCESS"
  <2>1. a # b /\ a \in DOMAIN g /\ b \in DOMAIN g
    BY <1>2, EdgeArgsSucceeds
  <2>2. HasEdge(g, a, b) <=> HasEdge(g, b, a)
    BY <2>1 DEF WellFormed, Symmetric, HasEdge
  <2>3. h = [m \in DOMAIN g |-> IF m = a THEN g[a] \cup {b}
                                ELSE IF m = b THEN g[b] \cup {a} ELSE g[m]]
    BY <2>1 DEF LinkOneWay, IsGraph
  <2>4. IsGraph(h, H, I)
    BY <2>1, <2>3 DEF IsGraph
  <2>5. WellFormed(h, H)
    <3> HIDE DEF h
    <3> QED
      BY <2>1, <2>3 DEF WellFormed, NoDangling, Symmetric, Irreflexive
  <2> QED
    BY <1>2, <2>2, <2>4, <2>5 DEF Keeps, AddEdge, HasEdge, Result, StatusCode
<1> QED
  BY <1>1, <1>2

LEMMA RemoveEdgeKeeps ==
  ASSUME NEW H, NEW I, NEW g, IsGraph(g, H, I), WellFormed(g, H),
         NEW a, NEW b
  PROVE  Keeps(RemoveEdge(g, a, b), H, I)
<1> DEFINE h == UnlinkOneWay(UnlinkOneWay(g, a, b), b, a)
<1>1. CASE GetEdge(g, a, b) # "SUCCESS"
  BY <1>1, GetEdgeStatus DEF Keeps, RemoveEdge, Result
<1>2. CASE GetEdge(g, a, b) = "SUCCESS"
  <2>1. a # b /\ a \in DOMAIN g /\ b \in DOMAIN g
    BY <1>2, EdgeArgsSucceeds DEF GetEdge
  <2>2. h = [m \in DOMAIN g |-> IF m = a THEN g[a] \ {b}
                                ELSE IF m = b THEN g[b] \ {a} ELSE g[m]]
    BY <2>1 DEF UnlinkOneWay, IsGraph
  <2>3. IsGraph(h, H, I)
    BY <2>1, <2>2 DEF IsGraph
  <2>4. WellFormed(h, H)
    <3> HIDE DEF h
    <3> QED
      BY <2>1, <2>2 DEF WellFormed, NoDangling, Symmetric, Irreflexive
  <2> QED
    BY <1>2, <2>3, <2>4 DEF Keeps, RemoveEdge, Result, StatusCode
<1> QED
  BY <1>1, <1>2

\* An edge part leads away from H, so the other nodes are not touched.
LEMMA AddEdgePartKeeps ==
  ASSUME NEW H, NEW I, NEW g, IsGraph(g, H, I), WellFormed(g, H),
         NEW a \in H, NEW r \in I \ H
  PROVE  Keeps(AddEdgePart(g, a, r), H, I)
<1> DEFINE h == LinkOneWay(g, a, r)
<1>1. CASE HasNode(g, a) /\ ~HasEdge(g, a, r)
  <2>1. h = [m \in DOMAIN g |-> IF m = a THEN g[a] \cup {r} ELSE g[m]]
    BY <1>1 DEF LinkOneWay, IsGraph, HasNode
  <2>2. IsGraph(h, H, I)
    BY <2>1 DEF IsGraph
  <2>3. WellFormed(h, H)
    <3> HIDE DEF h
    <3> QED
      BY <2>1 DEF IsGraph, WellFormed, NoDangling, Symmetric, Irreflexive
  <2> QED
    BY <1>1, <2>2, <2>3 DEF Keeps, AddEdgePart, Result, StatusCode
<1>2. CASE ~(HasNode(g, a) /\ ~HasEdge(g, a, r))
  BY <1>2 DEF Keeps, AddEdgePart, Result, StatusCode
<1> QED
  BY <1>1, <1>2

LEMMA RemoveEdgePartKeeps ==
  ASSUME NEW H, NEW I, NEW g, IsGraph(g, H, I), WellFormed(g, H),
         NEW a \in H, NEW r \in I \ H
  PROVE  Keeps(RemoveEdgePart(g, a, r), H, I)
<1> DEFINE h == UnlinkOneWay(g, a, r)
<1>1. CASE GetEdgePart(g, a, r) = "SUCCESS"
  <2>1. HasNode(g, a)
    BY <1>1 DEF GetEdgePart
  <2>2. h = [m \in DOMAIN g |-> IF m = a THEN g[a] \ {r} ELSE g[m]]
    BY <2>1 DEF UnlinkOneWay, IsGraph, HasNode
  <2>3. IsGraph(h, H, I)
    BY <2>1, <2>2 DEF IsGraph
  <2>4. WellFormed(h, H)
    <3> HIDE DEF h
    <3> QED
      BY <2>2 DEF IsGraph, WellFormed, NoDangling, Symmetric, Irreflexive
  <2> QED
    BY <1>1, <2>3, <2>4 DEF Keeps, RemoveEdgePart, Result, StatusCode
<1>2. CASE GetEdgePart(g, a, r) # "SUCCESS"
  BY <1>2 DEF Keeps, RemoveEdgePart, GetEdgePart, Result, StatusCode
<1> QED
  BY <1>1, <1>2

-----------------------------------------------------------------------------
LEMMA InLinks ==
  ASSUME NEW g, NEW e
  PROVE  e \in Links(g) <=> \E x \in DOMAIN g : \E y \in g[x] : e = {x, y}
BY DEF Links

\* A pair of neighbours here is a link exactly when either lists the other.
LEMMA PairInLinks ==
  ASSUME NEW g, NEW a, NEW b
  PROVE  {a, b} \in Links(g) <=> \/ a \in DOMAIN g /\ b \in g[a]
                                 \/ b \in DOMAIN g /\ a \in g[b]
<1>1. ASSUME NEW x \in DOMAIN g, NEW y \in g[x], {a, b} = {x, y}
      PROVE  \/ a \in DOMAIN g /\ b \in g[a]
             \/ b \in DOMAIN g /\ a \in g[b]
  <2>1. (a = x /\ b = y) \/ (a = y /\ b = x)
    BY <1>1
  <2> QED
    BY <1>1, <2>1
<1>2. {a, b} = {b, a}
  OBVIOUS
<1> QED
  BY <1>1, <1>2, InLinks

\* h is g with the edge between a and b in addition, at the ends that are here.
EdgeAdded(g, h, a, b) ==
  /\ a \in DOMAIN g
  /\ DOMAIN h = DOMAIN g
  /\ \A x \in DOMAIN g : \A y : y \in h[x] <=>
       \/ y \in g[x]
       \/ x = a /\ y = b
       \/ x = b /\ y = a

\* h is g without the edge between a and b.
EdgeDropped(g, h, a, b) ==
  /\ DOMAIN h = DOMAIN g
  /\ \A x \in DOMAIN g : \A y : y \in h[x] <=>
       y \in g[x] /\ ~(x = a /\ y = b) /\ ~(x = b /\ y = a)

LEMMA LinksAdd ==
  ASSUME NEW g, NEW h, NEW a, NEW b, EdgeAdded(g, h, a, b)
  PROVE  Links(h) = Links(g) \cup {{a, b}}
<1> USE DEF EdgeAdded
<1>1. ASSUME NEW e \in Links(h) PROVE e \in Links(g) \cup {{a, b}}
  <2>1. PICK x \in DOMAIN h : \E y \in h[x] : e = {x, y}
    BY <1>1, InLinks
  <2>2. PICK y \in h[x] : e = {x, y}
    BY <2>1
  <2>3. y \in g[x] \/ e = {a, b}
    BY <2>2
  <2> QED
    BY <2>2, <2>3, InLinks
<1>2. ASSUME NEW e \in Links(g) PROVE e \in Links(h)
  BY InLinks
<1>3. {a, b} \in Links(h)
  BY PairInLinks
<1> QED
  BY <1>1, <1>2, <1>3

LEMMA LinksDrop ==
  ASSUME NEW g, NEW h, NEW a, NEW b, EdgeDropped(g, h, a, b)
  PROVE  Links(h) = Links(g) \ {{a, b}}
<1> USE DEF EdgeDropped
<1>1. ASSUME NEW e \in Links(h) PROVE e \in Links(g) \ {{a, b}}
  <2>1. PICK x \in DOMAIN h : \E y \in h[x] : e = {x, y}
    BY <1>1, InLinks
  <2>2. PICK y \in h[x] : e = {x, y}
    BY <2>1
  <2>3. y \in g[x] /\ {x, y} # {a, b}
    BY <2>2
  <2> QED
    BY <2>2, <2>3, InLinks
<1>2. ASSUME NEW e \in Links(g) \ {{a, b}} PROVE e \in Links(h)
  <2>1. PICK x \in DOMAIN g : \E y \in g[x] : e = {x, y}
    BY <1>2, InLinks
  <2>2. PICK y \in g[x] : e = {x, y}
    BY <2>1
  <2>3. y \in h[x]
    BY <2>2, <1>2
  <2> QED
    BY <2>2, <2>3, InLinks
<1> QED
  BY <1>1, <1>2

LEMMA LinksRemoveNode ==
  ASSUME NEW g, NEW h, NEW n, n \in DOMAIN g, DOMAIN h = DOMAIN g \ {n},
         \A x \in DOMAIN g \ {n} : \A y : y \in h[x] <=> y \in g[x] /\ y # n
  PROVE  Links(h) = {e \in Links(g) : n \notin e}
<1>1. ASSUME NEW e \in Links(h) PROVE e \in Links(g) /\ n \notin e
  <2>1. PICK x \in DOMAIN h : \E y \in h[x] : e = {x, y}
    BY <1>1, InLinks
  <2>2. PICK y \in h[x] : e = {x, y}
    BY <2>1
  <2>3. y \in g[x] /\ y # n /\ x # n
    BY <2>2
  <2> QED
    BY <2>2, <2>3, InLinks
<1>2. ASSUME NEW e \in Links(g), n \notin e PROVE e \in Links(h)
  <2>1. PICK x \in DOMAIN g : \E y \in g[x] : e = {x, y}
    BY <1>2, InLinks
  <2>2. PICK y \in g[x] : e = {x, y}
    BY <2>1
  <2>3. y \in h[x] /\ x \in DOMAIN h
    BY <2>2, <1>2
  <2> QED
    BY <2>2, <2>3, InLinks
<1> QED
  BY <1>1, <1>2
=============================================================================
