-------------------------- MODULE PartitionedEdges --------------------------
(***************************************************************************)
(* An edge between nodes of two partitions: each partition keeps the half  *)
(* at its own node, and the request that adds or removes the edge changes  *)
(* both halves, the other partition's by a remote call.                    *)
(*                                                                         *)
(* Every partition is a process with a MemoryStore and two threads: one    *)
(* for HTTP requests (mongoose-cpp polls with one thread, so requests come *)
(* one after the other) and one for the calls of other partitions          *)
(* (TSimpleServer).  The store is locked for single calls only, so all of  *)
(* this interleaves between a handler's look at its store, the remote call *)
(* and its own update.  Processes crash and come back empty, for main.cc   *)
(* gives them a MemoryStore; connections break; and a call can still be    *)
(* run when its caller no longer waits, for the server takes the           *)
(* connections in turn.  Edges within a partition are MemoryStore's.       *)
(***************************************************************************)
EXTENDS GraphData, FiniteSets, Naturals

CONSTANTS Partition,  \* the processes
          Node,       \* node ids
          Home,       \* PartitionConfig::target, nodeId % partitions
          MaxLate     \* bound: calls that nobody waits for, at one time

ASSUME HomeIsPartition == Home \in [Node -> Partition] /\ MaxLate \in Nat

VARIABLES
  store,   \* store[p]: the graph in p's MemoryStore
  http,    \* http[p]: what p's HTTP thread is doing
  late,    \* the calls that are still to be run and nobody waits for
  up,      \* the processes that run
  failed,  \* history: the processes that have crashed or exited
  broken,  \* history: the edges of which a call was lost on the way
  raced    \* history: the processes whose call in progress has overlapped one
           \* of the other end for the same edge

vars == <<store, http, late, up, failed, broken, raced>>

Local(p) == {n \in Node : Home[n] = p}
Far(p)   == {n \in Node : Home[n] # p}

AddPart    == "addEdgePart"
RemovePart == "removeEdgePart"

\* The call an HTTP thread has made for its edge, and whether it returned true.
Call(pc, op, here, far, ok) ==
  [pc |-> pc, op |-> op, here |-> here, far |-> far, ok |-> ok]

Idle == [pc |-> "idle"]

Calling(p)  == http[p].pc = "calling"
Answered(p) == http[p].pc = "answered"

\* The handler of p is at work on the edge between a and b.
Handles(p, a, b) ==
  http[p].pc # "idle" /\ {http[p].here, http[p].far} = {a, b}

Init ==
  /\ store = [p \in Partition |-> EmptyGraph]
  /\ http = [p \in Partition |-> Idle]
  /\ late = {}
  /\ up = Partition
  /\ failed = {}
  /\ broken = {}
  /\ raced = {}

-----------------------------------------------------------------------------
\* The HTTP thread.  A request finds it idle and, for add_node and the edge
\* handlers, named nodes of the right partition (else 400).
add_node(p, n) ==
  /\ p \in up /\ http[p] = Idle
  /\ store' = [store EXCEPT ![p] = AddNode(@, n).nodes]
  /\ UNCHANGED <<http, late, up, failed, broken, raced>>

\* A fault: the own half is not looked at first.
StartUnchecked(p, op, here, far, found) ==
  /\ p \in up /\ http[p] = Idle
  /\ http' = [http EXCEPT ![p] = Call("calling", op, here, far, FALSE)]
  /\ raced' = IF Handles(Home[far], here, far) THEN raced \cup {p, Home[far]}
                                               ELSE raced
  /\ UNCHANGED <<store, late, up, failed, broken>>

\* add_edge_partition and remove_edge_partition up to the remote call: an add
\* of a half that is here answers 204, a removal of one that is not, 400.
StartEdge(p, op, here, far, found) ==
  /\ p \in up /\ http[p] = Idle
  /\ GetEdgePart(store[p], here, far) = found
  /\ http' = [http EXCEPT ![p] = Call("calling", op, here, far, FALSE)]
  /\ raced' = IF Handles(Home[far], here, far) THEN raced \cup {p, Home[far]}
                                               ELSE raced
  /\ UNCHANGED <<store, late, up, failed, broken>>

\* A fault: the pair is not turned to have the own node first.
AddTurnedEdge(p, here, far) ==
  StartEdge(p, AddPart, far, here, "DOES_NOT_EXIST")

add_edge_partition(p, here, far) ==
  StartEdge(p, AddPart, here, far, "DOES_NOT_EXIST")

remove_edge_partition(p, here, far) ==
  StartEdge(p, RemovePart, here, far, "SUCCESS")

\* What op does to the half of the edge at near.
Apply(g, op, near, other) ==
  IF op = AddPart THEN AddEdgePart(g, near, other)
                  ELSE RemoveEdgePart(g, near, other)

\* What a call does at the other end.
FarHalf(c) == Apply(store[Home[c.far]], c.op, c.far, c.here)

\* A fault: a process serves calls only between its own requests.
ServeWhenIdle(p) ==
  /\ Calling(p)
  /\ Home[http[p].far] \in up /\ http[Home[http[p].far]] = Idle
  /\ store' = [store EXCEPT ![Home[http[p].far]] = FarHalf(http[p]).nodes]
  /\ http' = [http EXCEPT ![p].pc = "answered",
                          ![p].ok = FarHalf(http[p]).status = "SUCCESS"]
  /\ UNCHANGED <<late, up, failed, broken, raced>>

\* The partition server of the other end runs p's call: it returns true only
\* if the store changed.
Serve(p) ==
  /\ Calling(p)
  /\ Home[http[p].far] \in up
  /\ store' = [store EXCEPT ![Home[http[p].far]] = FarHalf(http[p]).nodes]
  /\ http' = [http EXCEPT ![p].pc = "answered",
                          ![p].ok = FarHalf(http[p]).status = "SUCCESS"]
  /\ UNCHANGED <<late, up, failed, broken, raced>>

\* The same for a call that nobody waits for.
ServeLate(c) ==
  /\ late' = late \ {c}
  /\ store' = [store EXCEPT ![Home[c.far]] = FarHalf(c).nodes]
  /\ raced' = raced \cup {p \in Partition : Handles(p, c.here, c.far)}
  /\ UNCHANGED <<http, up, failed, broken>>

\* The HTTP thread of p is done with its request.
Return(p) ==
  /\ http' = [http EXCEPT ![p] = Idle]
  /\ raced' = raced \ {p}

\* The call that p stops waiting for, if it is with a server.
Abandoned(p) ==
  IF Calling(p) /\ Home[http[p].far] \in up /\ Cardinality(late) < MaxLate
  THEN {http[p]} ELSE {}

\* A process ends: its store is gone, and its HTTP thread, and the calls that
\* were waiting for its server.
Stop(p) ==
  /\ up' = up \ {p}
  /\ failed' = failed \cup {p}
  /\ store' = [store EXCEPT ![p] = EmptyGraph]
  /\ \E left \in SUBSET Abandoned(p) :
       late' = left \cup {c \in late : Home[c.far] # p}
  /\ Return(p)

\* What the own half's update would do now, once the call has returned true.
OwnHalf(p) == Apply(store[p], http[p].op, http[p].here, http[p].far)

WillExit(p) == Answered(p) /\ http[p].ok /\ OwnHalf(p).status # "SUCCESS"

\* A fault: the own half is changed whatever the call returned.
FinishAnyway(p) ==
  /\ Answered(p)
  /\ store' = [store EXCEPT ![p] = OwnHalf(p).nodes]
  /\ Return(p)
  /\ UNCHANGED <<late, up, failed, broken>>

\* The call returned: false is answered with 400; after true the own half must
\* change as well, or invariant(...) ends the process.
Finish(p) ==
  /\ Answered(p)
  /\ \/ ~http[p].ok /\ Return(p) /\ UNCHANGED <<store, late, up, failed>>
     \/ /\ http[p].ok /\ ~WillExit(p)
        /\ store' = [store EXCEPT ![p] = OwnHalf(p).nodes]
        /\ Return(p)
        /\ UNCHANGED <<late, up, failed>>
     \/ WillExit(p) /\ Stop(p)
  /\ UNCHANGED broken

-----------------------------------------------------------------------------
\* Faults.  A connection that breaks is an exception in the handler, answered
\* with 500; so is a peer that is down.  The call was run before, or will be
\* run later, or never.
Disconnect(p) ==
  /\ Calling(p) \/ Answered(p)
  /\ broken' = broken \cup {{http[p].here, http[p].far}}
  /\ \E left \in SUBSET Abandoned(p) : late' = late \cup left
  /\ Return(p)
  /\ UNCHANGED <<store, up, failed>>

Crash(p) == p \in up /\ Stop(p) /\ UNCHANGED broken

Restart(p) ==
  /\ p \notin up
  /\ up' = up \cup {p}
  /\ UNCHANGED <<store, http, late, failed, broken, raced>>

-----------------------------------------------------------------------------
Request(p) ==
  \/ \E n \in Local(p) : add_node(p, n)
  \/ \E here \in Local(p), far \in Far(p) :
       add_edge_partition(p, here, far) \/ remove_edge_partition(p, here, far)

Next ==
  \/ \E p \in Partition :
       \/ Request(p) \/ Serve(p) \/ Finish(p)
       \/ Disconnect(p) \/ Crash(p) \/ Restart(p)
  \/ \E c \in late : ServeLate(c)

\* The call of a thread is run by a peer that is up or fails with one that is
\* down, and the thread then goes on.  A connection need not break otherwise.
Fairness ==
  \A p \in Partition :
    /\ WF_vars(Serve(p) \/ (Disconnect(p) /\ Home[http[p].far] \notin up))
    /\ WF_vars(Finish(p))

Spec == Init /\ [][Next]_vars /\ Fairness

-----------------------------------------------------------------------------
TypeOK ==
  /\ \A p \in Partition :
       /\ IsGraph(store[p], Local(p), Node)
       /\ http[p] \in {Idle} \cup
            [pc : {"calling", "answered"}, op : {AddPart, RemovePart},
             here : Local(p), far : Far(p), ok : BOOLEAN]
  /\ up \subseteq Partition /\ failed \subseteq Partition
  /\ raced \subseteq Partition
  /\ \A c \in late : c.pc = "calling" /\ Home[c.far] \in up

\* The half at a of the edge to b is kept by a's partition.
HasHalf(a, b) == GetEdgePart(store[Home[a]], a, b) = "SUCCESS"

\* Only one of the two halves is there.
Half(a, b) == HasHalf(a, b) # HasHalf(b, a)

\* A handler has changed the far half and is about to change its own.
Halfway(a, b) ==
  \E p \in {Home[a], Home[b]} :
    Answered(p) /\ Handles(p, a, b) /\ http[p].ok

\* The two halves of an edge differ only while a handler is between its two
\* updates, after a call for that edge was lost, or after a process of one of
\* its ends has died: however requests to both ends interleave.
HalvesAgree ==
  \A a, b \in Node :
    Home[a] # Home[b] /\ Half(a, b) =>
      \/ Halfway(a, b)
      \/ {a, b} \in broken
      \/ {Home[a], Home[b]} \cap failed # {}

\* The invariant(...) after a remote call that returned true fails only if the
\* request named a node that is not there, or the other end was at work on the
\* same edge meanwhile.
ExitsOnlyOnRaces ==
  \A p \in Partition :
    WillExit(p) => ~HasNode(store[p], http[p].here) \/ p \in raced

\* The calls for the edge between a and b that are still to be run.
InFlight(a, b) ==
  {c \in late \cup {http[p] : p \in {q \in Partition : Calling(q)}} :
     {c.here, c.far} = {a, b}}

\* One half of the edge was left behind: it is there alone, no handler is about
\* to change it, and the calls for the edge, if any, are to add a half that is
\* there or to remove one that is not.
Stranded(a, b) ==
  /\ Half(a, b) /\ ~Halfway(a, b)
  /\ \A c \in InFlight(a, b) : HasHalf(c.far, c.here) <=> c.op = AddPart

\* A half that was left behind stays behind: no request from either end, nor
\* any two of them together, adds the other half or removes this one, until a
\* process loses its store.
StrandedForGood ==
  [][\A a, b \in Node :
       Home[a] # Home[b] /\ Stranded(a, b)
         => Stranded(a, b)' \/ ~({Home[a], Home[b]} \subseteq up')]_vars

\* Every request is answered: handlers of two partitions that call each other
\* do not wait for one another, and a dead peer holds nobody up.
EveryRequestEnds ==
  \A p \in Partition : http[p] # Idle ~> http[p] = Idle

-----------------------------------------------------------------------------
\* What the source asserts and a run refutes.

\* http_controller.cc:284, "invariant(store->removeEdgePart(edge->first,
\* edge->second));": after the far half was removed the own half can be.
RemovedHalfFits ==
  \A p \in Partition : ~(WillExit(p) /\ http[p].op = RemovePart)
=============================================================================
