---------------------------- MODULE MemoryStore ----------------------------
(***************************************************************************)
(* MemoryStore, the in-memory graph: a map from node ids to Nodes, each    *)
(* holding the set of its neighbours, so that an edge is kept twice.       *)
(* Every call runs under _memoryStoreMutex and is one action.              *)
(*                                                                         *)
(* Local are the ids whose nodes may be added here, Remote those of other  *)
(* partitions.  A whole graph in one store is Remote = {}.                 *)
(***************************************************************************)
EXTENDS GraphData

CONSTANTS Local, Remote

ASSUME DisjointIds == Local \cap Remote = {}

VARIABLES nodes,   \* _nodes, see GraphData
          reply    \* the last call and its answer

vars == <<nodes, reply>>

Ids == Local \cup Remote

Init ==
  /\ nodes = EmptyGraph
  /\ reply = [call |-> <<>>, status |-> "SUCCESS", value |-> {}]

-----------------------------------------------------------------------------
\* A call that returns r; none is made once the process has exited.
Update(call, r) ==
  /\ reply.status # "EXIT"
  /\ reply' = [call |-> call, status |-> r.status, value |-> {}]
  /\ nodes' = r.nodes

Query(call, status, value) ==
  /\ reply.status # "EXIT"
  /\ reply' = [call |-> call, status |-> status, value |-> value]
  /\ UNCHANGED nodes

addNode(n) == Update(<<"addNode", n>>, AddNode(nodes, n))

\* http_controller.cc:137 refuses remove_node when there are partitions: the
\* halves on the other side would be left behind.
removeNode(n) == Remote = {} /\ Update(<<"removeNode", n>>, RemoveNode(nodes, n))

addEdge(a, b)    == Update(<<"addEdge", a, b>>, AddEdge(nodes, a, b))
removeEdge(a, b) == Update(<<"removeEdge", a, b>>, RemoveEdge(nodes, a, b))

addEdgePart(here, far) ==
  Update(<<"addEdgePart", here, far>>, AddEdgePart(nodes, here, far))

removeEdgePart(here, far) ==
  Update(<<"removeEdgePart", here, far>>, RemoveEdgePart(nodes, here, far))

findNode(n) ==
  Query(<<"findNode", n>>,
        IF HasNode(nodes, n) THEN "SUCCESS" ELSE "DOES_NOT_EXIST", {})

getEdge(a, b) == Query(<<"getEdge", a, b>>, GetEdge(nodes, a, b), {})

getEdgePart(here, far) ==
  Query(<<"getEdgePart", here, far>>, GetEdgePart(nodes, here, far), {})

getNeighbors(n) ==
  IF HasNode(nodes, n)
  THEN Query(<<"getNeighbors", n>>, "SUCCESS", nodes[n])
  ELSE Query(<<"getNeighbors", n>>, "DOES_NOT_EXIST", {})

Next ==
  \/ \E n \in Local :
       addNode(n) \/ removeNode(n) \/ findNode(n) \/ getNeighbors(n)
  \/ \E a, b \in Local :
       addEdge(a, b) \/ removeEdge(a, b) \/ getEdge(a, b)
  \/ \E a \in Local, r \in Remote :
       addEdgePart(a, r) \/ removeEdgePart(a, r) \/ getEdgePart(a, r)

Spec == Init /\ [][Next]_vars

-----------------------------------------------------------------------------
\* The store holds Nodes of its own ids only, and names ids only.  Edge parts
\* come close to breaking it: their far end must never become a Node here.
TypeOK ==
  /\ IsGraph(nodes, Local, Ids)
  /\ reply.status \in StatusCode \cup {"EXIT"}
  /\ reply.value \subseteq Ids

\* Over every sequence of calls the two copies of each edge agree and no Node
\* lists a neighbour that is missing here: what the invariant(...)s of
\* removeNode, getEdge, addEdge, removeEdge and shortestPath rely on.
StaysWellFormed == WellFormed(nodes, Local)

\* No sequence of calls ever makes one of the code's invariant(...) fail.
NoAssertionFails == reply.status # "EXIT"

Abstract ==
  INSTANCE GraphStore WITH vertices <- DOMAIN nodes, links <- Links(nodes)

\* Callers cannot tell the store from an undirected graph: every answer, and
\* every change, is one GraphStore allows for the same call.
Refines == Abstract!Spec
=============================================================================
