------------------------- MODULE MemoryStoreProofs -------------------------
(***************************************************************************)
(* Proofs about MemoryStore, for any sets of ids.                          *)
(***************************************************************************)
EXTENDS MemoryStore, GraphDataProofs

-----------------------------------------------------------------------------
\* The inductive invariant: neither part is inductive without the other, for
\* NoDangling speaks of Local ids and an invariant(...) fails on a bad graph.
IInv == TypeOK /\ StaysWellFormed /\ NoAssertionFails

LEMMA InitIInv == Init => IInv
BY DEF Init, IInv, TypeOK, StaysWellFormed, NoAssertionFails, EmptyGraph,
       IsGraph, WellFormed, NoDangling, Symmetric, Irreflexive, StatusCode

\* A call that returns a well-formed graph keeps the invariant.
LEMMA UpdateIInv ==
  ASSUME NEW c, NEW r, Update(c, r), Keeps(r, Local, Ids)
  PROVE  IInv'
BY DEF Update, Keeps, IInv, TypeOK, StaysWellFormed, NoAssertionFails, IsGraph,
       WellFormed, NoDangling, Symmetric, Irreflexive, StatusCode

LEMMA QueryIInv ==
  ASSUME IInv, NEW c, NEW s \in StatusCode, NEW v \in SUBSET Ids,
         Query(c, s, v)
  PROVE  IInv'
BY DEF Query, IInv, TypeOK, StaysWellFormed, NoAssertionFails, IsGraph,
       WellFormed, NoDangling, Symmetric, Irreflexive, StatusCode

LEMMA NextIInv == IInv /\ [Next]_vars => IInv'
<1> SUFFICES ASSUME IInv, [Next]_vars PROVE IInv'
  OBVIOUS
<1> USE DisjointIds
<1>g. IsGraph(nodes, Local, Ids) /\ WellFormed(nodes, Local) /\ Local \subseteq Ids
  BY DEF IInv, TypeOK, StaysWellFormed, Ids
<1>q. ASSUME NEW c, NEW s \in StatusCode, NEW v \in SUBSET Ids, Query(c, s, v)
      PROVE  IInv'
  BY <1>q, QueryIInv
<1>1. ASSUME NEW n \in Local, addNode(n) PROVE IInv'
  BY <1>g, <1>1, AddNodeKeeps, UpdateIInv DEF addNode
<1>2. ASSUME NEW n \in Local, removeNode(n) PROVE IInv'
  <2>1. Remote = {} /\ Ids = Local
    BY <1>2 DEF removeNode, Ids
  <2> QED
    BY <1>g, <1>2, <2>1, RemoveNodeKeeps, UpdateIInv DEF removeNode
<1>3. ASSUME NEW n \in Local, findNode(n) PROVE IInv'
  BY <1>3, <1>q DEF findNode, StatusCode
<1>4. ASSUME NEW n \in Local, getNeighbors(n) PROVE IInv'
  <2>1. CASE HasNode(nodes, n)
    <3>1. nodes[n] \in SUBSET Ids
      BY <1>g, <2>1 DEF IsGraph, HasNode
    <3> QED
      BY <1>4, <1>q, <2>1, <3>1 DEF getNeighbors, StatusCode
  <2>2. CASE ~HasNode(nodes, n)
    BY <1>4, <1>q, <2>2 DEF getNeighbors, StatusCode
  <2> QED
    BY <2>1, <2>2
<1>5. ASSUME NEW a \in Local, NEW b \in Local, addEdge(a, b) PROVE IInv'
  BY <1>g, <1>5, AddEdgeKeeps, UpdateIInv DEF addEdge
<1>6. ASSUME NEW a \in Local, NEW b \in Local, removeEdge(a, b) PROVE IInv'
  BY <1>g, <1>6, RemoveEdgeKeeps, UpdateIInv DEF removeEdge
<1>7. ASSUME NEW a \in Local, NEW b \in Local, getEdge(a, b) PROVE IInv'
  BY <1>g, <1>7, <1>q, GetEdgeStatus DEF getEdge
<1>8. ASSUME NEW a \in Local, NEW r \in Remote, addEdgePart(a, r) PROVE IInv'
  BY <1>g, <1>8, AddEdgePartKeeps, UpdateIInv DEF addEdgePart, Ids
<1>9. ASSUME NEW a \in Local, NEW r \in Remote, removeEdgePart(a, r) PROVE IInv'
  BY <1>g, <1>9, RemoveEdgePartKeeps, UpdateIInv DEF removeEdgePart, Ids
<1>10. ASSUME NEW a \in Local, NEW r \in Remote, getEdgePart(a, r) PROVE IInv'
  BY <1>10, <1>q DEF getEdgePart, GetEdgePart, StatusCode
<1>11. CASE UNCHANGED vars
  BY <1>11 DEF vars, IInv, TypeOK, StaysWellFormed, NoAssertionFails
<1> QED
  BY <1>1, <1>2, <1>3, <1>4, <1>5, <1>6, <1>7, <1>8, <1>9, <1>10, <1>11 DEF Next

THEOREM Inductive == Spec => []IInv
BY InitIInv, NextIInv, PTL DEF Spec

\* Whatever calls are made, the store holds Nodes of its own ids only and
\* lists neighbours among the ids of the graph.
THEOREM TypeCorrect == Spec => []TypeOK
BY Inductive, PTL DEF IInv

\* Over every sequence of calls the two copies of an edge agree and no Node
\* lists a local neighbour that is missing.
THEOREM WellFormedAlways == Spec => []StaysWellFormed
BY Inductive, PTL DEF IInv

\* No invariant(...) of memory_store.cc can end the process.
THEOREM NeverExits == Spec => []NoAssertionFails
BY Inductive, PTL DEF IInv

-----------------------------------------------------------------------------
\* The store implements GraphStore.

\* Both ends of a link that joins nodes of this store have Nodes, and the
\* neighbours a Node lists are its links.
LEMMA LocalPair ==
  ASSUME IInv, NEW a \in Local, NEW b \in Local
  PROVE  {a, b} \in Links(nodes) <=>
           a \in DOMAIN nodes /\ b \in DOMAIN nodes /\ HasEdge(nodes, a, b)
BY PairInLinks DEF IInv, StaysWellFormed, WellFormed, NoDangling, Symmetric, HasEdge

LEMMA FarPair ==
  ASSUME IInv, NEW a \in Local, NEW r \in Remote
  PROVE  {a, r} \in Links(nodes) <=> a \in DOMAIN nodes /\ HasEdge(nodes, a, r)
BY PairInLinks, DisjointIds DEF IInv, TypeOK, IsGraph, HasEdge

LEMMA SelfPair ==
  ASSUME IInv, NEW a PROVE {a, a} \notin Links(nodes)
BY PairInLinks DEF IInv, StaysWellFormed, WellFormed, Irreflexive

LEMMA RefineAddNode ==
  ASSUME IInv, NEW n \in Local, addNode(n)
  PROVE  Abstract!AddNode(n)
<1>1. CASE HasNode(nodes, n)
  BY <1>1 DEF addNode, AddNode, Update, Result, Abstract!AddNode, Abstract!Answer, HasNode
<1>2. CASE ~HasNode(nodes, n)
  <2>1. nodes' = [m \in DOMAIN nodes \cup {n} |-> IF m = n THEN {} ELSE nodes[m]]
    BY <1>2 DEF addNode, AddNode, Update, Result
  <2>2. n \notin DOMAIN nodes
    BY <1>2 DEF HasNode
  <2>3. Links(nodes') = Links(nodes)
    <3>1. ASSUME NEW e PROVE e \in Links(nodes') <=> e \in Links(nodes)
      BY <2>1, <2>2, InLinks
    <3> QED
      BY <3>1 DEF Links
  <2> QED
    BY <1>2, <2>1, <2>2, <2>3
    DEF addNode, AddNode, Update, Result, Abstract!AddNode, Abstract!Answer
<1> QED
  BY <1>1, <1>2

LEMMA RefineRemoveNode ==
  ASSUME IInv, NEW n \in Local, removeNode(n)
  PROVE  Abstract!RemoveNode(n)
<1>1. CASE ~HasNode(nodes, n)
  <2>1. \A e \in Links(nodes) : n \notin e
    BY <1>1, InLinks DEF HasNode, IInv, StaysWellFormed, WellFormed, NoDangling
  <2>2. Links(nodes) = {e \in Links(nodes) : n \notin e}
    BY <2>1
  <2> QED
    BY <1>1, <2>2
    DEF removeNode, RemoveNode, Update, Result, Abstract!RemoveNode,
        Abstract!Answer, HasNode
<1>2. CASE HasNode(nodes, n)
  <2>1. Ids = Local
    BY DEF removeNode, Ids
  <2>2. \A m \in nodes[n] : HasNode(nodes, m)
    BY <1>2, <2>1 DEF HasNode, IInv, TypeOK, IsGraph, StaysWellFormed, WellFormed,
                      NoDangling
  <2>3. RemoveNode(nodes, n) =
          Result("SUCCESS", [m \in DOMAIN nodes \ {n} |->
                   IF m \in nodes[n] THEN nodes[m] \ {n} ELSE nodes[m]])
    BY <1>2, <2>2 DEF RemoveNode
  <2>4. nodes' = [m \in DOMAIN nodes \ {n} |->
                    IF m \in nodes[n] THEN nodes[m] \ {n} ELSE nodes[m]]
    BY <2>3 DEF removeNode, Update, Result
  <2>5. \A x \in DOMAIN nodes \ {n} : \A y :
          y \in nodes'[x] <=> y \in nodes[x] /\ y # n
    BY <1>2, <2>4 DEF HasNode, IInv, StaysWellFormed, WellFormed, Symmetric
  <2>6. Links(nodes') = {e \in Links(nodes) : n \notin e}
    BY <1>2, <2>4, <2>5, LinksRemoveNode DEF HasNode
  <2>7. DOMAIN nodes' = DOMAIN nodes \ {n}
    BY <2>4
  <2>8. reply' = [call |-> <<"removeNode", n>>, status |-> "SUCCESS", value |-> {}]
    BY <2>3 DEF removeNode, Update, Result
  <2> QED
    BY <1>2, <2>6, <2>7, <2>8 DEF Abstract!RemoveNode, Abstract!Answer, HasNode
<1> QED
  BY <1>1, <1>2

\* addEdge and removeEdge check their arguments alike, and on a well-formed
\* graph both ends agree whether the edge is there.
LEMMA RefineAddEdge ==
  ASSUME IInv, NEW a \in Local, NEW b \in Local, addEdge(a, b)
  PROVE  Abstract!AddEdge(a, b)
<1> DEFINE h == LinkOneWay(LinkOneWay(nodes, a, b), b, a)
<1>1. reply' = [call |-> <<"addEdge", a, b>>, status |-> AddEdge(nodes, a, b).status, value |-> {}]
      /\ nodes' = AddEdge(nodes, a, b).nodes
  BY DEF addEdge, Update
<1>2. CASE EdgeArgs(nodes, a, b) # "SUCCESS"
  <2>1. reply' = [call |-> <<"addEdge", a, b>>, status |-> EdgeArgs(nodes, a, b), value |-> {}]
        /\ nodes' = nodes
    BY <1>1, <1>2 DEF AddEdge, Result
  <2> QED
    BY <1>2, <2>1 DEF EdgeArgs, HasNode, Abstract!AddEdge, Abstract!Refuse,
                      Abstract!Answer
<1>3. CASE EdgeArgs(nodes, a, b) = "SUCCESS"
  <2>1. a # b /\ a \in DOMAIN nodes /\ b \in DOMAIN nodes
    BY <1>3, EdgeArgsSucceeds
  <2>2. HasEdge(nodes, a, b) <=> HasEdge(nodes, b, a)
    BY <2>1 DEF IInv, StaysWellFormed, WellFormed, Symmetric, HasEdge
  <2>3. {a, b} \in Links(nodes) <=> HasEdge(nodes, a, b)
    BY <2>1, LocalPair
  <2>4. CASE HasEdge(nodes, a, b)
    <3>1. AddEdge(nodes, a, b) = Result("NO_ACTION", nodes)
      BY <1>3, <2>2, <2>4 DEF AddEdge, HasEdge
    <3>2. Links(nodes) \cup {{a, b}} = Links(nodes)
      BY <2>3, <2>4
    <3> QED
      BY <1>1, <2>1, <2>3, <2>4, <3>1, <3>2
      DEF Result, Abstract!AddEdge, Abstract!Answer
  <2>5. CASE ~HasEdge(nodes, a, b)
    <3>1. AddEdge(nodes, a, b) = Result("SUCCESS", h)
      BY <1>3, <2>2, <2>5 DEF AddEdge, HasEdge
    <3>2. nodes' = h /\ reply' = [call |-> <<"addEdge", a, b>>, status |-> "SUCCESS", value |-> {}]
      BY <1>1, <3>1 DEF Result
    <3>3. h = [m \in DOMAIN nodes |-> IF m = a THEN nodes[a] \cup {b}
                         ELSE IF m = b THEN nodes[b] \cup {a} ELSE nodes[m]]
      BY <2>1 DEF LinkOneWay, IInv, TypeOK, IsGraph
    <3> HIDE DEF h
    <3>4. DOMAIN h = DOMAIN nodes /\ EdgeAdded(nodes, h, a, b)
      BY <2>1, <3>3 DEF EdgeAdded
    <3>6. Links(h) = Links(nodes) \cup {{a, b}}
      BY <3>4, LinksAdd
    <3> QED
      BY <2>1, <2>3, <2>5, <3>2, <3>4, <3>6
      DEF Abstract!AddEdge, Abstract!Answer
  <2> QED
    BY <2>4, <2>5
<1> QED
  BY <1>2, <1>3

LEMMA RefineGetEdge ==
  ASSUME IInv, NEW a \in Local, NEW b \in Local
  PROVE  GetEdge(nodes, a, b) =
           IF a = b THEN "INVALID"
           ELSE IF {a, b} \in Links(nodes) THEN "SUCCESS" ELSE "DOES_NOT_EXIST"
<1>1. a \in DOMAIN nodes /\ b \in DOMAIN nodes =>
        (HasEdge(nodes, a, b) <=> HasEdge(nodes, b, a))
  BY DEF IInv, StaysWellFormed, WellFormed, Symmetric, HasEdge
<1> QED
  BY <1>1, LocalPair DEF GetEdge, EdgeArgs, HasNode, HasEdge

LEMMA RefineRemoveEdge ==
  ASSUME IInv, NEW a \in Local, NEW b \in Local, removeEdge(a, b)
  PROVE  Abstract!RemoveEdge(a, b)
<1> DEFINE h == UnlinkOneWay(UnlinkOneWay(nodes, a, b), b, a)
<1>1. reply' = [call |-> <<"removeEdge", a, b>>, status |-> RemoveEdge(nodes, a, b).status, value |-> {}]
      /\ nodes' = RemoveEdge(nodes, a, b).nodes
  BY DEF removeEdge, Update
<1>2. CASE GetEdge(nodes, a, b) # "SUCCESS"
  BY <1>1, <1>2, RefineGetEdge
  DEF RemoveEdge, Result, Abstract!RemoveEdge, Abstract!Refuse, Abstract!Answer
<1>3. CASE GetEdge(nodes, a, b) = "SUCCESS"
  <2>1. a # b /\ a \in DOMAIN nodes /\ b \in DOMAIN nodes
        /\ {a, b} \in Links(nodes)
    BY <1>3, RefineGetEdge, LocalPair
  <2>2. nodes' = h /\ reply' = [call |-> <<"removeEdge", a, b>>, status |-> "SUCCESS", value |-> {}]
    BY <1>1, <1>3 DEF RemoveEdge, Result
  <2>3. h = [m \in DOMAIN nodes |-> IF m = a THEN nodes[a] \ {b}
                       ELSE IF m = b THEN nodes[b] \ {a} ELSE nodes[m]]
    BY <2>1 DEF UnlinkOneWay, IInv, TypeOK, IsGraph
  <2> HIDE DEF h
  <2>4. DOMAIN h = DOMAIN nodes /\ EdgeDropped(nodes, h, a, b)
    BY <2>1, <2>3 DEF EdgeDropped
  <2>6. Links(h) = Links(nodes) \ {{a, b}}
    BY <2>4, LinksDrop
  <2> QED
    BY <2>1, <2>2, <2>4, <2>6 DEF Abstract!RemoveEdge, Abstract!Answer
<1> QED
  BY <1>2, <1>3

LEMMA RefineAddEdgePart ==
  ASSUME IInv, NEW a \in Local, NEW r \in Remote, addEdgePart(a, r)
  PROVE  Abstract!AddEdgePart(a, r)
<1> DEFINE h == LinkOneWay(nodes, a, r)
<1>1. reply' = [call |-> <<"addEdgePart", a, r>>, status |-> AddEdgePart(nodes, a, r).status, value |-> {}]
      /\ nodes' = AddEdgePart(nodes, a, r).nodes
  BY DEF addEdgePart, Update
<1>2. a # r /\ r \notin DOMAIN nodes
  BY DisjointIds DEF IInv, TypeOK, IsGraph
<1>3. {a, r} \in Links(nodes) <=> a \in DOMAIN nodes /\ HasEdge(nodes, a, r)
  BY FarPair
<1>4. CASE ~HasNode(nodes, a)
  BY <1>1, <1>2, <1>4
  DEF AddEdgePart, Result, HasNode, Abstract!AddEdgePart, Abstract!Refuse,
      Abstract!Answer
<1>5. CASE HasNode(nodes, a) /\ HasEdge(nodes, a, r)
  <2>1. Links(nodes) \cup {{a, r}} = Links(nodes)
    BY <1>3, <1>5 DEF HasNode
  <2> QED
    BY <1>1, <1>2, <1>3, <1>5, <2>1
    DEF AddEdgePart, Result, HasNode, Abstract!AddEdgePart, Abstract!Answer
<1>6. CASE HasNode(nodes, a) /\ ~HasEdge(nodes, a, r)
  <2>0. a \in DOMAIN nodes
    BY <1>6 DEF HasNode
  <2>1. nodes' = h /\ reply' = [call |-> <<"addEdgePart", a, r>>, status |-> "SUCCESS", value |-> {}]
    BY <1>1, <1>2, <1>6 DEF AddEdgePart, Result
  <2>2. h = [m \in DOMAIN nodes |-> IF m = a THEN nodes[a] \cup {r} ELSE nodes[m]]
    BY <1>6 DEF LinkOneWay, HasNode, IInv, TypeOK, IsGraph
  <2> HIDE DEF h
  <2>3. DOMAIN h = DOMAIN nodes /\ EdgeAdded(nodes, h, a, r)
    BY <1>2, <2>0, <2>2 DEF EdgeAdded
  <2>5. Links(h) = Links(nodes) \cup {{a, r}}
    BY <2>3, LinksAdd
  <2> QED
    BY <1>3, <1>6, <2>1, <2>3, <2>5
    DEF HasNode, Abstract!AddEdgePart, Abstract!Answer
<1> QED
  BY <1>4, <1>5, <1>6

LEMMA RefineGetEdgePart ==
  ASSUME IInv, NEW a \in Local, NEW r \in Remote
  PROVE  GetEdgePart(nodes, a, r) =
           IF {a, r} \in Links(nodes) THEN "SUCCESS" ELSE "DOES_NOT_EXIST"
BY FarPair DEF GetEdgePart, HasNode

LEMMA RefineRemoveEdgePart ==
  ASSUME IInv, NEW a \in Local, NEW r \in Remote, removeEdgePart(a, r)
  PROVE  Abstract!RemoveEdgePart(a, r)
<1> DEFINE h == UnlinkOneWay(nodes, a, r)
<1>1. reply' = [call |-> <<"removeEdgePart", a, r>>, status |-> RemoveEdgePart(nodes, a, r).status, value |-> {}]
      /\ nodes' = RemoveEdgePart(nodes, a, r).nodes
  BY DEF removeEdgePart, Update
<1>2. CASE {a, r} \notin Links(nodes)
  <2>1. Links(nodes) \ {{a, r}} = Links(nodes)
    BY <1>2
  <2> QED
    BY <1>1, <1>2, <2>1, RefineGetEdgePart
    DEF RemoveEdgePart, Result, Abstract!RemoveEdgePart, Abstract!Answer
<1>3. CASE {a, r} \in Links(nodes)
  <2>1. nodes' = h /\ reply' = [call |-> <<"removeEdgePart", a, r>>, status |-> "SUCCESS", value |-> {}]
    BY <1>1, <1>3, RefineGetEdgePart DEF RemoveEdgePart, Result
  <2>2. a \in DOMAIN nodes /\ r \notin DOMAIN nodes
    BY <1>3, FarPair, DisjointIds DEF IInv, TypeOK, IsGraph
  <2>3. h = [m \in DOMAIN nodes |-> IF m = a THEN nodes[a] \ {r} ELSE nodes[m]]
    BY <2>2 DEF UnlinkOneWay, IInv, TypeOK, IsGraph
  <2> HIDE DEF h
  <2>4. DOMAIN h = DOMAIN nodes /\ EdgeDropped(nodes, h, a, r)
    BY <2>2, <2>3 DEF EdgeDropped
  <2>6. Links(h) = Links(nodes) \ {{a, r}}
    BY <2>4, LinksDrop
  <2> QED
    BY <1>3, <2>1, <2>4, <2>6 DEF Abstract!RemoveEdgePart, Abstract!Answer
<1> QED
  BY <1>2, <1>3

LEMMA RefineGetNeighbors ==
  ASSUME IInv, NEW n \in Local, getNeighbors(n)
  PROVE  Abstract!GetNeighbors(n)
<1>1. CASE HasNode(nodes, n)
  <2>1. nodes[n] = {m \in Local \cup Remote : {n, m} \in Links(nodes)}
    <3>1. nodes[n] \subseteq Local \cup Remote
      BY <1>1 DEF HasNode, IInv, TypeOK, IsGraph, Ids
    <3>2. \A m \in Local \cup Remote : m \in nodes[n] <=> {n, m} \in Links(nodes)
      BY <1>1, LocalPair, FarPair
      DEF HasNode, HasEdge, IInv, StaysWellFormed, WellFormed, NoDangling
    <3> QED
      BY <3>1, <3>2
  <2> QED
    BY <1>1, <2>1 DEF getNeighbors, Query, HasNode, Abstract!GetNeighbors,
                      Abstract!Query, Abstract!Answer
<1>2. CASE ~HasNode(nodes, n)
  <2>1. {m \in Local \cup Remote : {n, m} \in Links(nodes)} = {}
    BY <1>2, LocalPair, FarPair DEF HasNode
  <2> QED
    BY <1>2, <2>1 DEF getNeighbors, Query, HasNode, Abstract!GetNeighbors,
                      Abstract!Query, Abstract!Answer
<1> QED
  BY <1>1, <1>2

LEMMA RefineInit == Init => Abstract!Init
<1> SUFFICES ASSUME Init PROVE Abstract!Init
  OBVIOUS
<1>1. DOMAIN nodes = {} /\ Links(nodes) = {}
  BY DEF Init, EmptyGraph, Links
<1> QED
  BY <1>1 DEF Init, Abstract!Init

LEMMA RefineNext == IInv /\ [Next]_vars => [Abstract!Next]_(Abstract!vars)
<1> SUFFICES ASSUME IInv, [Next]_vars
             PROVE  [Abstract!Next]_(Abstract!vars)
  OBVIOUS
<1>1. ASSUME NEW n \in Local, addNode(n) PROVE Abstract!Next
  BY <1>1, RefineAddNode DEF Abstract!Next
<1>2. ASSUME NEW n \in Local, removeNode(n) PROVE Abstract!Next
  BY <1>2, RefineRemoveNode DEF Abstract!Next
<1>3. ASSUME NEW n \in Local, findNode(n) PROVE Abstract!Next
  <2>1. Abstract!FindNode(n)
    BY <1>3 DEF findNode, Query, HasNode, Abstract!FindNode, Abstract!Query,
                Abstract!Answer
  <2> QED
    BY <2>1 DEF Abstract!Next
<1>4. ASSUME NEW n \in Local, getNeighbors(n) PROVE Abstract!Next
  BY <1>4, RefineGetNeighbors DEF Abstract!Next
<1>5. ASSUME NEW a \in Local, NEW b \in Local, addEdge(a, b) PROVE Abstract!Next
  BY <1>5, RefineAddEdge DEF Abstract!Next
<1>6. ASSUME NEW a \in Local, NEW b \in Local, removeEdge(a, b) PROVE Abstract!Next
  BY <1>6, RefineRemoveEdge DEF Abstract!Next
<1>7. ASSUME NEW a \in Local, NEW b \in Local, getEdge(a, b) PROVE Abstract!Next
  <2>1. Abstract!GetEdge(a, b)
    BY <1>7, RefineGetEdge DEF getEdge, Query, Abstract!GetEdge, Abstract!Query,
                               Abstract!Answer
  <2> QED
    BY <2>1 DEF Abstract!Next
<1>8. ASSUME NEW a \in Local, NEW r \in Remote, addEdgePart(a, r)
      PROVE  Abstract!Next
  BY <1>8, RefineAddEdgePart DEF Abstract!Next
<1>9. ASSUME NEW a \in Local, NEW r \in Remote, removeEdgePart(a, r)
      PROVE  Abstract!Next
  BY <1>9, RefineRemoveEdgePart DEF Abstract!Next
<1>10. ASSUME NEW a \in Local, NEW r \in Remote, getEdgePart(a, r)
       PROVE  Abstract!Next
  <2>1. Abstract!GetEdgePart(a, r)
    BY <1>10, RefineGetEdgePart DEF getEdgePart, Query, Abstract!GetEdgePart,
                                    Abstract!Query, Abstract!Answer
  <2> QED
    BY <2>1 DEF Abstract!Next
<1>11. CASE UNCHANGED vars
  BY <1>11 DEF vars, Abstract!vars
<1> QED
  BY <1>1, <1>2, <1>3, <1>4, <1>5, <1>6, <1>7, <1>8, <1>9, <1>10, <1>11 DEF Next

\* Callers cannot tell the store, which keeps each edge twice, from an
\* undirected graph: memory_store.cc implements GraphStore call by call.
THEOREM Implements == Spec => Refines
<1>1. Spec => []IInv
  BY Inductive
<1> QED
  BY <1>1, RefineInit, RefineNext, PTL DEF Spec, Refines, Abstract!Spec
=============================================================================
