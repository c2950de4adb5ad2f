----------------------------- MODULE GraphData -----------------------------
(***************************************************************************)
(* The data of a MemoryStore and its operations as functions of that data. *)
(*                                                                         *)
(* A graph g is MemoryStore::_nodes: its domain is the set of ids that     *)
(* have a Node, and g[n] is that Node's _edges.  A Node's edges are only   *)
(* ids, so g[n] may name an id that has no Node here: the far end of an    *)
(* edge part lives on another partition.                                   *)
(*                                                                         *)
(* Each operator holds for one whole call, made under _memoryStoreMutex,   *)
(* and returns the Status of the call and the graph after it.  The code's  *)
(* invariant(cond) ends the process when cond is false; the status of such *)
(* a call is "EXIT".                                                       *)
(***************************************************************************)

EmptyGraph == [n \in {} |-> {}]

\* g is a graph whose nodes are in Here and whose edges name ids in Ids.
IsGraph(g, Here, Ids) ==
  DOMAIN g \subseteq Here /\ g \in [DOMAIN g -> SUBSET Ids]

-----------------------------------------------------------------------------
\* What the operations below rely on, of the edges between nodes of Here.

\* Every neighbour that belongs here has a Node here.
NoDangling(g, Here) == \A n \in DOMAIN g : g[n] \cap Here \subseteq DOMAIN g

\* The two halves of an edge agree.
Symmetric(g) == \A a, b \in DOMAIN g : b \in g[a] <=> a \in g[b]

\* No node is its own neighbour.
Irreflexive(g) == \A n \in DOMAIN g : n \notin g[n]

WellFormed(g, Here) == NoDangling(g, Here) /\ Symmetric(g) /\ Irreflexive(g)

\* The edges of g as unordered pairs.
Links(g) == UNION {{{a, b} : b \in g[a]} : a \in DOMAIN g}

-----------------------------------------------------------------------------
StatusCode == {"SUCCESS", "NO_ACTION", "DOES_NOT_EXIST", "INVALID"}

Result(status, g) == [status |-> status, nodes |-> g]

HasNode(g, n) == n \in DOMAIN g

HasEdge(g, a, b) == b \in g[a]

-----------------------------------------------------------------------------
\* Node::addEdge and Node::removeEdge: one direction only.
LinkOneWay(g, a, b)   == [g EXCEPT ![a] = @ \cup {b}]
UnlinkOneWay(g, a, b) == [g EXCEPT ![a] = @ \ {b}]

AddNode(g, n) ==
  IF HasNode(g, n)
  THEN Result("NO_ACTION", g)
  ELSE Result("SUCCESS", [m \in DOMAIN g \cup {n} |->
                            IF m = n THEN {} ELSE g[m]])

\* A fault: the neighbours keep their edge to the node.
RemoveNodeOnly(g, n) ==
  IF ~HasNode(g, n) THEN Result("DOES_NOT_EXIST", g)
  ELSE Result("SUCCESS", [m \in DOMAIN g \ {n} |-> g[m]])

\* The neighbours are looked up one by one; a missing one ends the process.
RemoveNode(g, n) ==
  IF ~HasNode(g, n) THEN Result("DOES_NOT_EXIST", g)
  ELSE IF \E m \in g[n] : ~HasNode(g, m) THEN Result("EXIT", g)
  ELSE Result("SUCCESS", [m \in DOMAIN g \ {n} |->
                            IF m \in g[n] THEN g[m] \ {n} ELSE g[m]])

-----------------------------------------------------------------------------
\* What getEdge, addEdge and removeEdge ask of their arguments first.
EdgeArgs(g, a, b) ==
  IF a = b THEN "INVALID"
  ELSE IF ~HasNode(g, a) \/ ~HasNode(g, b) THEN "DOES_NOT_EXIST"
  ELSE "SUCCESS"

GetEdge(g, a, b) ==
  IF EdgeArgs(g, a, b) # "SUCCESS" THEN EdgeArgs(g, a, b)
  ELSE IF HasEdge(g, a, b) # HasEdge(g, b, a) THEN "EXIT"
  ELSE IF HasEdge(g, a, b) THEN "SUCCESS"
  ELSE "DOES_NOT_EXIST"

\* A fault: the edge is kept at one end only.
AddEdgeOneWay(g, a, b) ==
  IF EdgeArgs(g, a, b) # "SUCCESS" THEN Result(EdgeArgs(g, a, b), g)
  ELSE IF HasEdge(g, a, b) THEN Result("NO_ACTION", g)
  ELSE Result("SUCCESS", LinkOneWay(g, a, b))

\* A fault: an edge that is there is reported as added.
AddEdgeAgain(g, a, b) ==
  IF EdgeArgs(g, a, b) # "SUCCESS" THEN Result(EdgeArgs(g, a, b), g)
  ELSE Result("SUCCESS", LinkOneWay(LinkOneWay(g, a, b), b, a))

\* Both Node::addEdge calls must agree on whether the edge is new.
AddEdge(g, a, b) ==
  IF EdgeArgs(g, a, b) # "SUCCESS" THEN Result(EdgeArgs(g, a, b), g)
  ELSE IF HasEdge(g, a, b) # HasEdge(g, b, a) THEN Result("EXIT", g)
  ELSE IF HasEdge(g, a, b) THEN Result("NO_ACTION", g)
  ELSE Result("SUCCESS", LinkOneWay(LinkOneWay(g, a, b), b, a))

RemoveEdge(g, a, b) ==
  IF GetEdge(g, a, b) # "SUCCESS" THEN Result(GetEdge(g, a, b), g)
  ELSE Result("SUCCESS", UnlinkOneWay(UnlinkOneWay(g, a, b), b, a))

-----------------------------------------------------------------------------
\* Edge parts: the half of an edge whose other end is on another partition.
GetEdgePart(g, here, far) ==
  IF HasNode(g, here) /\ HasEdge(g, here, far)
  THEN "SUCCESS" ELSE "DOES_NOT_EXIST"

\* A fault: the far end becomes a Node here, and the edge is kept twice.
AddEdgePartTwice(g, here, far) ==
  IF ~HasNode(g, here) THEN Result("DOES_NOT_EXIST", g)
  ELSE IF HasEdge(g, here, far) THEN Result("NO_ACTION", g)
  ELSE LET h == AddNode(g, far).nodes
       IN Result("SUCCESS", LinkOneWay(LinkOneWay(h, here, far), far, here))

\* A fault: an edge part that is there is reported as added.
AddEdgePartAgain(g, here, far) ==
  IF here = far THEN Result("INVALID", g)
  ELSE IF ~HasNode(g, here) THEN Result("DOES_NOT_EXIST", g)
  ELSE Result("SUCCESS", LinkOneWay(g, here, far))

AddEdgePart(g, here, far) ==
  IF here = far THEN Result("INVALID", g)
  ELSE IF ~HasNode(g, here) THEN Result("DOES_NOT_EXIST", g)
  ELSE IF HasEdge(g, here, far) THEN Result("NO_ACTION", g)
  ELSE Result("SUCCESS", LinkOneWay(g, here, far))

\* A fault: only the node is looked up.
RemoveAnyEdgePart(g, here, far) ==
  IF ~HasNode(g, here) THEN Result("DOES_NOT_EXIST", g)
  ELSE Result("SUCCESS", UnlinkOneWay(g, here, far))

RemoveEdgePart(g, here, far) ==
  IF GetEdgePart(g, here, far) # "SUCCESS"
  THEN Result(GetEdgePart(g, here, far), g)
  ELSE Result("SUCCESS", UnlinkOneWay(g, here, far))
=============================================================================
