----------------------------- MODULE GraphStore -----------------------------
(***************************************************************************)
(* What a GraphStore promises its callers: an undirected graph.            *)
(*                                                                         *)
(* vertices are the nodes of this store, links the edges as unordered      *)
(* pairs.  A link whose other end is in Remote is an edge part.  reply is  *)
(* the last call and its answer: a status, and for getNeighbors the        *)
(* neighbours.  Nothing here has a direction and no call can end the       *)
(* process: that a MemoryStore, which keeps every edge twice, behaves like *)
(* this is what has to be shown.                                           *)
(***************************************************************************)

CONSTANTS Local,    \* ids whose nodes this store may hold
          Remote    \* ids that belong to other partitions

VARIABLES vertices, links, reply

vars == <<vertices, links, reply>>

Answer(call, status, value) ==
  reply' = [call |-> call, status |-> status, value |-> value]

Init ==
  /\ vertices = {}
  /\ links = {}
  /\ reply = [call |-> <<>>, status |-> "SUCCESS", value |-> {}]

-----------------------------------------------------------------------------
AddNode(n) ==
  /\ Answer(<<"addNode", n>>, IF n \in vertices THEN "NO_ACTION" ELSE "SUCCESS", {})
  /\ vertices' = vertices \cup {n}
  /\ UNCHANGED links

\* A node takes its edges with it.
RemoveNode(n) ==
  /\ Answer(<<"removeNode", n>>,
            IF n \in vertices THEN "SUCCESS" ELSE "DOES_NOT_EXIST", {})
  /\ vertices' = vertices \ {n}
  /\ links' = {e \in links : n \notin e}

Refuse(call, status) ==
  Answer(call, status, {}) /\ UNCHANGED <<vertices, links>>

\* An edge needs two nodes that exist.
AddEdge(a, b) ==
  LET call == <<"addEdge", a, b>>
  IN \/ a = b /\ Refuse(call, "INVALID")
     \/ a # b /\ ~({a, b} \subseteq vertices) /\ Refuse(call, "DOES_NOT_EXIST")
     \/ /\ a # b /\ {a, b} \subseteq vertices
        /\ Answer(call, IF {a, b} \in links THEN "NO_ACTION" ELSE "SUCCESS", {})
        /\ links' = links \cup {{a, b}}
        /\ UNCHANGED vertices

RemoveEdge(a, b) ==
  LET call == <<"removeEdge", a, b>>
  IN \/ a = b /\ Refuse(call, "INVALID")
     \/ a # b /\ {a, b} \notin links /\ Refuse(call, "DOES_NOT_EXIST")
     \/ /\ a # b /\ {a, b} \in links
        /\ Answer(call, "SUCCESS", {})
        /\ links' = links \ {{a, b}}
        /\ UNCHANGED vertices

\* An edge part needs only its near end.
AddEdgePart(here, far) ==
  LET call == <<"addEdgePart", here, far>>
  IN \/ here \notin vertices /\ Refuse(call, "DOES_NOT_EXIST")
     \/ /\ here \in vertices
        /\ Answer(call, IF {here, far} \in links THEN "NO_ACTION" ELSE "SUCCESS", {})
        /\ links' = links \cup {{here, far}}
        /\ UNCHANGED vertices

RemoveEdgePart(here, far) ==
  /\ Answer(<<"removeEdgePart", here, far>>,
            IF {here, far} \in links THEN "SUCCESS" ELSE "DOES_NOT_EXIST", {})
  /\ links' = links \ {{here, far}}
  /\ UNCHANGED vertices

-----------------------------------------------------------------------------
\* Queries.
Query(call, status, value) ==
  Answer(call, status, value) /\ UNCHANGED <<vertices, links>>

FindNode(n) ==
  Query(<<"findNode", n>>,
        IF n \in vertices THEN "SUCCESS" ELSE "DOES_NOT_EXIST", {})

GetEdge(a, b) ==
  Query(<<"getEdge", a, b>>,
        IF a = b THEN "INVALID"
        ELSE IF {a, b} \in links THEN "SUCCESS" ELSE "DOES_NOT_EXIST", {})

GetEdgePart(here, far) ==
  Query(<<"getEdgePart", here, far>>,
        IF {here, far} \in links THEN "SUCCESS" ELSE "DOES_NOT_EXIST", {})

GetNeighbors(n) ==
  Query(<<"getNeighbors", n>>,
        IF n \in vertices THEN "SUCCESS" ELSE "DOES_NOT_EXIST",
        {m \in Local \cup Remote : {n, m} \in links})

-----------------------------------------------------------------------------
Next ==
  \/ \E n \in Local :
       AddNode(n) \/ RemoveNode(n) \/ FindNode(n) \/ GetNeighbors(n)
  \/ \E a, b \in Local :
       AddEdge(a, b) \/ RemoveEdge(a, b) \/ GetEdge(a, b)
  \/ \E a \in Local, r \in Remote :
       AddEdgePart(a, r) \/ RemoveEdgePart(a, r) \/ GetEdgePart(a, r)

Spec == Init /\ [][Next]_vars
=============================================================================
