---------------------------- MODULE ShortestPath ----------------------------
(***************************************************************************)
(* MemoryStore::shortestPath: a breadth-first search, one level of nodes   *)
(* after the other.                                                        *)
(*                                                                         *)
(* The whole call runs under _memoryStoreMutex, so the graph stands still. *)
(* It is any graph that a MemoryStore without partitions can hold          *)
(* (http_controller.cc:400 refuses the call with partitions), which is     *)
(* what StaysWellFormed says of it.  The two queues are kept as sets: found *)
(* lets an id into them once, and in what order a level is gone through    *)
(* is up to the hash table of a Node's edges.  found does not hold the     *)
(* node the search starts from, so that one is queued a second time.       *)
(***************************************************************************)
EXTENDS GraphData, Naturals

CONSTANT Id  \* node ids

VARIABLES
  graph,       \* _nodes, see GraphData
  ends,        \* the call: <<nodeAId, nodeBId>>
  toSearch,    \* the nodes of this level that have not been looked at
  nextSearch,  \* the nodes of the next level
  found,       \* the ids that have been queued
  distance,    \* how far this level is from the start
  searching,   \* the loop is running
  answer       \* what the last call has returned

queues == <<toSearch, nextSearch, found, distance>>
vars   == <<graph, ends, queues, searching, answer>>

nodeA == ends[1]
nodeB == ends[2]

Pairs(H) == UNION {{{m, n} : n \in H \ {m}} : m \in H}

\* The graph of the nodes H and the edges E, unordered pairs.
Drawn(H, E) == [n \in H |-> {m \in H : m # n /\ {m, n} \in E}]

Answer(status, value) == [status |-> status, distance |-> value]

Init ==
  /\ \E H \in SUBSET Id : \E E \in SUBSET Pairs(H) : graph = Drawn(H, E)
  /\ ends = <<>>
  /\ toSearch = {} /\ nextSearch = {} /\ found = {}
  /\ distance = 0
  /\ searching = FALSE
  /\ answer = Answer("NO_ACTION", 0)

-----------------------------------------------------------------------------
Return(status, value) ==
  /\ searching' = FALSE
  /\ answer' = Answer(status, value)

\* The call up to its loop: both nodes must exist, and differ.
shortestPath(a, b) ==
  /\ ~searching
  /\ ends' = <<a, b>>
  /\ toSearch' = {a} /\ nextSearch' = {} /\ found' = {}
  /\ distance' = 0
  /\ \/ {a, b} \subseteq DOMAIN graph /\ a # b
        /\ searching' = TRUE
        /\ UNCHANGED answer
     \/ ~({a, b} \subseteq DOMAIN graph) /\ Return("DOES_NOT_EXIST", 0)
     \/ a \in DOMAIN graph /\ a = b /\ Return("NO_ACTION", 0)
  /\ UNCHANGED graph

\* A fault: what is found is searched next, before the rest of the level.
GoDeep(n) ==
  /\ searching /\ n \in toSearch /\ n # nodeB
  /\ found' = found \cup graph[n]
  /\ toSearch' = (toSearch \ {n}) \cup (graph[n] \ found)
  /\ UNCHANGED <<graph, ends, nextSearch, distance, searching, answer>>

\* A node of this level that is not the one looked for: its neighbours are
\* queued, each but once.
LookAt(n) ==
  /\ searching /\ n \in toSearch /\ n # nodeB
  /\ found' = found \cup graph[n]
  /\ toSearch' = toSearch \ {n}
  /\ nextSearch' = nextSearch \cup (graph[n] \ found)
  /\ IF graph[n] \ found \subseteq DOMAIN graph
     THEN UNCHANGED <<searching, answer>>
     ELSE Return("EXIT", 0)
  /\ UNCHANGED <<graph, ends, distance>>

\* A node of this level that is.
Arrive ==
  /\ searching /\ nodeB \in toSearch
  /\ Return("SUCCESS", distance)
  /\ UNCHANGED <<graph, ends, queues>>

\* A fault: the next level is cleared before it is moved.
LoseLevel ==
  /\ searching /\ toSearch = {} /\ nextSearch # {}
  /\ nextSearch' = {}
  /\ distance' = distance + 1
  /\ UNCHANGED <<graph, ends, toSearch, found, searching, answer>>

NextLevel ==
  /\ searching /\ toSearch = {} /\ nextSearch # {}
  /\ toSearch' = nextSearch /\ nextSearch' = {}
  /\ distance' = distance + 1
  /\ UNCHANGED <<graph, ends, found, searching, answer>>

\* A fault: the loop goes on while anything has been found.
GoOn ==
  /\ searching /\ toSearch = {} /\ nextSearch = {}
  /\ IF found # {} THEN UNCHANGED <<searching, answer>>
                   ELSE Return("NO_ACTION", 0)
  /\ UNCHANGED <<graph, ends, queues>>

\* The loop ends when a level is empty.
GiveUp ==
  /\ searching /\ toSearch = {} /\ nextSearch = {}
  /\ Return("NO_ACTION", 0)
  /\ UNCHANGED <<graph, ends, queues>>

Search == (\E n \in toSearch : LookAt(n)) \/ Arrive \/ NextLevel \/ GiveUp

Next == (\E a, b \in Id : shortestPath(a, b)) \/ Search

\* The thread in the loop goes on.
Spec == Init /\ [][Next]_vars /\ WF_vars(Search)

-----------------------------------------------------------------------------
\* There is a walk of k edges from m to n in g.
Walk(g, k, m, n) ==
  \E w \in [0 .. k -> DOMAIN g] :
    /\ w[0] = m /\ w[k] = n
    /\ \A i \in 0 .. k - 1 : w[i + 1] \in g[w[i]]

\* No walk leads from m to n in g: some set of nodes holds m and all that its
\* members lead to, but not n.
Apart(g, m, n) ==
  \E S \in SUBSET DOMAIN g :
    m \in S /\ n \notin S /\ \A x \in S : g[x] \subseteq S

Returned == ~searching /\ ends # <<>>

\* The distance that is returned is that of a shortest path, in every graph
\* and in whatever order the nodes of a level come: the search neither misses
\* a shorter way nor is misled by the second visit to its start.
DistanceIsShortest ==
  Returned /\ answer.status = "SUCCESS" =>
    /\ Walk(graph, answer.distance, nodeA, nodeB)
    /\ \A k \in 0 .. answer.distance - 1 : ~Walk(graph, k, nodeA, nodeB)

\* Two nodes for which there is no distance are apart, or one and the same:
\* the search has not stopped with a node unseen.
NoneMeansApart ==
  Returned /\ answer.status = "NO_ACTION" =>
    nodeA = nodeB \/ Apart(graph, nodeA, nodeB)

\* The search fails no invariant(...): it queues only nodes that exist.
SearchNeverExits == answer.status # "EXIT"

\* Every search comes to an end, although the start is searched twice.
SearchEnds == searching ~> ~searching
=============================================================================
