-------------------------- MODULE ReplicationChain --------------------------
(***************************************************************************)
(* Chain replication: the head takes the writes and keeps one only when    *)
(* all that come after it have; a replica after the head changes its own   *)
(* store first and calls its successor then.                               *)
(*                                                                         *)
(* One thread of each replica matters: the head's HTTP thread, and in the  *)
(* others the TSimpleServer that serves the predecessor, one connection at *)
(* a time.  A replica opens the connection to its successor when it starts *)
(* (main.cc exits if it cannot) and never again; calls have no timeout.    *)
(* Processes crash and come back with an empty MemoryStore, connections    *)
(* break at both ends at once, and a call can still be run when its caller *)
(* is gone, before those of a later connection.                            *)
(*                                                                         *)
(* main.cc always passes a PartitionManager and no log: remove_node is     *)
(* refused before it is replicated, and so is checkpoint.  The nodes are   *)
(* all of this partition; edges to other partitions are not replicated.    *)
(***************************************************************************)
EXTENDS GraphData, Sequences, Naturals

CONSTANTS N,       \* the length of the chain
          Id,      \* node ids
          MaxLate  \* bound: calls that wait for a replica and nobody waits for

ASSUME ChainAssumption == N \in Nat \ {0, 1} /\ MaxLate \in Nat

VARIABLES
  store,  \* store[i]: the graph in i's MemoryStore
  work,   \* work[i]: what i's thread is doing
  link,   \* link[i]: i's connection to its successor works
  late,   \* late[i]: the calls i is still to run, from connections that broke
  up,     \* the replicas that run
  cut,    \* history: what has been written by calls that were cut off
  lost    \* history: the replicas that have lost their store

vars == <<store, work, link, late, up, cut, lost>>

Replica == 1 .. N
HEAD    == 1      \* NodeType: the others are MID, and N is TAIL
Caller  == 1 .. N - 1

-----------------------------------------------------------------------------
WriteOp == {"addNode", "addEdge", "removeEdge"}

Write(op, a, b) == [op |-> op, a |-> a, b |-> b]

Apply(g, w) ==
  CASE w.op = "addNode"    -> AddNode(g, w.a)
    [] w.op = "addEdge"    -> AddEdge(g, w.a, w.b)
    [] w.op = "removeEdge" -> RemoveEdge(g, w.a, w.b)

\* What a write is about, and what a graph holds: nodes as sets of one id,
\* edges as sets of two.  There is no edge from a node to itself to be about.
About(w) == IF w.op = "addNode" \/ w.a # w.b THEN {w.a, w.b} ELSE {}
Elements(g) == {{n} : n \in DOMAIN g} \cup Links(g)

\* A thread that carries w on: its call is with the successor's server, is
\* being run there, or has returned.
Carry(pc, w, ok) == [pc |-> pc, write |-> w, ok |-> ok]
Idle == [pc |-> "idle"]

Calling(i)  == work[i].pc = "calling"
Waiting(i)  == work[i].pc = "waiting"
Answered(i) == work[i].pc = "answered"

Failed(i) == Carry("answered", work[i].write, FALSE)

Init ==
  /\ store = [i \in Replica |-> EmptyGraph]
  /\ work = [i \in Replica |-> Idle]
  /\ link = [i \in Caller |-> TRUE]
  /\ late = [i \in Replica |-> <<>>]
  /\ up = Replica
  /\ cut = {} /\ lost = {}

-----------------------------------------------------------------------------
\* i calls its successor; a connection that has broken throws.
Outbound(i, w) == Carry(IF link[i] THEN "calling" ELSE "answered", w, FALSE)

\* The HTTP handlers of the head up to the call: the ends of an edge must
\* exist (else 400).
Request(w) ==
  /\ HEAD \in up /\ work[HEAD] = Idle
  /\ w.op = "addNode" \/ {w.a, w.b} \subseteq DOMAIN store[HEAD]
  /\ work' = [work EXCEPT ![HEAD] = Outbound(HEAD, w)]
  /\ UNCHANGED <<store, link, late, up, cut, lost>>

\* A fault: a replica answers before its successor does.
CarryOnAlone(j, w) ==
  Carry("answered", w, Apply(store[j], w).status = "SUCCESS")

\* A fault: a write that is there already is passed on.
CarryOnAgain(j, w) ==
  IF Apply(store[j], w).status \in {"SUCCESS", "NO_ACTION"} /\ j # N
  THEN Outbound(j, w)
  ELSE Carry("answered", w, Apply(store[j], w).status \in {"SUCCESS", "NO_ACTION"})

\* What the handler of j does after w was tried on its own store: only if that
\* has changed does it call its successor, or return true if it has none.
CarryOn(j, w) ==
  IF Apply(store[j], w).status = "SUCCESS" /\ j # N
  THEN Outbound(j, w)
  ELSE Carry("answered", w, Apply(store[j], w).status = "SUCCESS")

\* The server of j is between two calls and runs w.
Run(j, w) ==
  /\ j \in up /\ work[j] = Idle
  /\ store' = [store EXCEPT ![j] = Apply(@, w).nodes]
  /\ cut' = IF Apply(store[j], w).status = "SUCCESS" /\ j # N /\ ~link[j]
            THEN cut \cup {About(w)} ELSE cut
  /\ UNCHANGED <<link, up, lost>>

\* The call of the predecessor of j, once its earlier connections are done.
Serve(j) ==
  /\ j # HEAD /\ Calling(j - 1) /\ late[j] = <<>>
  /\ Run(j, work[j - 1].write)
  /\ work' = [work EXCEPT ![j] = CarryOn(j, work[j - 1].write),
                          ![j - 1].pc = "waiting"]
  /\ UNCHANGED late

\* A call of an earlier connection: there is no one to answer.
ServeLate(j) ==
  /\ j # HEAD /\ late[j] # <<>>
  /\ Run(j, Head(late[j]))
  /\ work' = [work EXCEPT ![j] = CarryOn(j, Head(late[j]))]
  /\ late' = [late EXCEPT ![j] = Tail(@)]

\* j answers its predecessor, if that still waits.  A successor's exception
\* comes back as an exception, which is no success either.
Answer(j) ==
  /\ j # HEAD /\ Answered(j)
  /\ work' = [i \in Replica |->
                IF i = j THEN Idle
                ELSE IF i = j - 1 /\ Waiting(i)
                     THEN Carry("answered", work[i].write, work[j].ok)
                ELSE work[i]]
  /\ UNCHANGED <<store, link, late, up, cut, lost>>

\* A fault: the head keeps the write whatever the answer.
FinishAnyway ==
  /\ Answered(HEAD)
  /\ store' = [store EXCEPT ![HEAD] = Apply(@, work[HEAD].write).nodes]
  /\ work' = [work EXCEPT ![HEAD] = Idle]
  /\ UNCHANGED <<link, late, up, cut, lost>>

\* The head changes its own store once all others have; after false or an
\* exception it answers 500.
Finish ==
  /\ Answered(HEAD)
  /\ store' = IF work[HEAD].ok
              THEN [store EXCEPT ![HEAD] = Apply(@, work[HEAD].write).nodes]
              ELSE store
  /\ work' = [work EXCEPT ![HEAD] = Idle]
  /\ UNCHANGED <<link, late, up, cut, lost>>

-----------------------------------------------------------------------------
\* Faults.
InCall(i) == Calling(i) \/ Waiting(i)

\* The callers C lose their connection, and the call they are in: theirs fails.
\* One that the successor has not begun to run is lost, or run later.
CutOff(C) == cut \cup {About(work[i].write) : i \in {k \in C : InCall(k)}}

Left(C, j) ==
  IF j - 1 \in C /\ Calling(j - 1) /\ Len(late[j]) < MaxLate
  THEN {late[j], Append(late[j], work[j - 1].write)} ELSE {late[j]}

\* The connection from i to its successor breaks.
Disconnect(i) ==
  /\ i \in Caller /\ link[i]
  /\ link' = [link EXCEPT ![i] = FALSE]
  /\ work' = IF InCall(i) THEN [work EXCEPT ![i] = Failed(i)] ELSE work
  /\ \E calls \in Left({i}, i + 1) : late' = [late EXCEPT ![i + 1] = calls]
  /\ cut' = CutOff({i})
  /\ UNCHANGED <<store, up, lost>>

\* A fault: the caller does not learn that its successor is gone.
CrashUnseen(j) ==
  /\ j \in up
  /\ up' = up \ {j}
  /\ store' = [store EXCEPT ![j] = EmptyGraph]
  /\ lost' = lost \cup {j}
  /\ link' = [i \in Caller |-> IF i \in {j - 1, j} THEN FALSE ELSE link[i]]
  /\ work' = [work EXCEPT ![j] = Idle]
  /\ late' = [late EXCEPT ![j] = <<>>]
  /\ cut' = CutOff({j - 1, j} \cap Caller)

\* A process ends: with it its store, what its server was to run, and both of
\* its connections.
Crash(j) ==
  /\ j \in up
  /\ up' = up \ {j}
  /\ store' = [store EXCEPT ![j] = EmptyGraph]
  /\ lost' = lost \cup {j}
  /\ link' = [i \in Caller |-> IF i \in {j - 1, j} THEN FALSE ELSE link[i]]
  /\ work' = [i \in Replica |->
                IF i = j THEN Idle
                ELSE IF i = j - 1 /\ InCall(i) THEN Failed(i) ELSE work[i]]
  /\ \E calls \in IF j = N THEN {<<>>} ELSE Left({j}, j + 1) :
       late' = [i \in Replica |-> IF i = j THEN <<>>
                                  ELSE IF i = j + 1 THEN calls ELSE late[i]]
  /\ cut' = CutOff({j - 1, j} \cap Caller)

\* A process starts and connects to its successor.
Restart(j) ==
  /\ j \notin up
  /\ j # N => j + 1 \in up
  /\ up' = up \cup {j}
  /\ link' = [i \in Caller |-> IF i = j THEN TRUE ELSE link[i]]
  /\ UNCHANGED <<store, work, late, cut, lost>>

-----------------------------------------------------------------------------
add_node(n)       == Request(Write("addNode", n, n))
add_edge(a, b)    == Request(Write("addEdge", a, b))
remove_edge(a, b) == Request(Write("removeEdge", a, b))

Thread(j) == Serve(j) \/ ServeLate(j) \/ Answer(j)

Next ==
  \/ \E n \in Id : add_node(n)
  \/ \E a, b \in Id : add_edge(a, b) \/ remove_edge(a, b)
  \/ \E j \in Replica : Thread(j) \/ Crash(j) \/ Restart(j)
  \/ Finish
  \/ \E i \in Caller : Disconnect(i)

\* A thread that has something to do does it.
Fairness == WF_vars(Finish) /\ \A j \in Replica : WF_vars(Thread(j))

Spec == Init /\ [][Next]_vars /\ Fairness

-----------------------------------------------------------------------------
AnyWrite == {w \in [op : WriteOp, a : Id, b : Id] : w.op = "addNode" => w.a = w.b}

AnyWork == {Idle} \cup
  [pc : {"calling", "waiting", "answered"}, write : AnyWrite, ok : BOOLEAN]

AnyGraph == UNION {[H -> SUBSET Id] : H \in SUBSET Id}

\* Only a connection that works has a call in it, and only one between two
\* processes that run works.
Connected ==
  /\ \A i \in Replica : InCall(i) => i # N /\ link[i]
  /\ \A i \in Caller : link[i] => {i, i + 1} \subseteq up
  /\ \A i \in Replica \ up : work[i] = Idle /\ late[i] = <<>>

TypeOK ==
  /\ store \in [Replica -> AnyGraph]
  /\ work \in [Replica -> AnyWork]
  /\ link \in [Caller -> BOOLEAN]
  /\ late \in [Replica -> Seq(AnyWrite)]
  /\ up \subseteq Replica /\ lost \subseteq Replica
  /\ Connected

Holds(i, e) == e \in Elements(store[i])

\* The head is at work on e.
Busy(e) == work[HEAD] # Idle /\ About(work[HEAD].write) = e

\* Replicas that have kept their stores hold the same nodes and edges, but for
\* those of the write that is under way and of writes that were cut off: what
\* goes wrong with one write leaves the others alone.
ReplicasAgree ==
  \A i, j \in Replica \ lost : \A e \in Elements(store[i]) :
    Holds(j, e) \/ e \in cut \/ Busy(e)

\* What w was to do is done at i.
Done(i, w) == (w.op # "removeEdge") <=> Holds(i, About(w))

\* replication_manager.h:39, "The operation has been committed on *all* nodes
\* further down the chain.": when the head learns of success every replica has
\* the write, except those that have lost their stores.
AnsweredMeansCommitted ==
  Answered(HEAD) /\ work[HEAD].ok =>
    \A j \in Replica \ (lost \cup {HEAD}) : Done(j, work[HEAD].write)

\* The second replica holds e, the head does not, and is about to keep no write
\* of it: none has been passed on, or returned success.
Stranded(e) ==
  /\ Holds(2, e) /\ ~Holds(HEAD, e)
  /\ Busy(e) /\ Answered(HEAD) => ~work[HEAD].ok
  /\ Busy(e) /\ Waiting(HEAD) => Answered(2) /\ ~work[2].ok

\* A write that was cut off after the second replica had committed it can never
\* be made up for: whatever is asked, the head does not get what the second
\* replica has, until that loses it again, by a crash or a removal.
StrandedForGood ==
  [][\A e \in Elements(store[2]) :
       Stranded(e) => Stranded(e)' \/ ~Holds(2, e)']_vars

\* The server of j is between two calls, and there is one for it to run.
CanServe(j) ==
  j \in up /\ work[j] = Idle /\ j # HEAD /\ (late[j] # <<>> \/ Calling(j - 1))

\* There is no timeout, so a caller waits as long as its connection stands; but
\* the replicas after it never all wait: one of them has something to do, or the
\* caller has its answer.
NeverStuck ==
  \A i \in Replica : work[i] # Idle =>
    Answered(i) \/ \E j \in i + 1 .. N : Answered(j) \/ CanServe(j)

\* Every write is answered, however long the chain and whoever of it dies.
EveryWriteEnds == work[HEAD] # Idle ~> work[HEAD] = Idle
=============================================================================
