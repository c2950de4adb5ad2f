----------------------- MODULE ReplicationChainProofs -----------------------
(***************************************************************************)
(* Proofs about ReplicationChain, for every length of the chain.           *)
(*                                                                         *)
(* First what a write does to one graph, then who has committed the write  *)
(* on its way (CommittedHere, CommittedOn), and on that invariant that     *)
(* replicas agree: how far a write has come (InOrder), and what the        *)
(* replicas that it has not reached have in common (AgreeAhead).  Last,    *)
(* what is left to do (Debt), which the threads only ever pay off.         *)
(***************************************************************************)
EXTENDS ReplicationChain, GraphDataProofs, FiniteSetTheorems, WellFoundedInduction

Good(g) == g \in AnyGraph /\ WellFormed(g, Id)

\* w can be run on g, and g has what w was to do.
Valid(g, w)  == w.op # "addNode" => w.a # w.b /\ About(w) \subseteq DOMAIN g
DoneIn(g, w) == (w.op # "removeEdge") <=> About(w) \in Elements(g)

-----------------------------------------------------------------------------
\* What a write does to a graph.

LEMMA AnyGraphIs ==
  ASSUME NEW g
  PROVE  g \in AnyGraph <=> IsGraph(g, Id, Id)
BY DEF AnyGraph, IsGraph

LEMMA LinksArePairs ==
  ASSUME NEW g, Good(g), NEW n
  PROVE  {n} \notin Links(g)
BY InLinks DEF Good, WellFormed, Irreflexive

\* Between nodes, an edge is one that either end lists.
LEMMA EdgeIs ==
  ASSUME NEW g, Good(g), NEW a \in DOMAIN g, NEW b \in DOMAIN g, a # b
  PROVE  /\ {a, b} \in Elements(g) <=> HasEdge(g, a, b)
         /\ HasEdge(g, a, b) <=> HasEdge(g, b, a)
<1>1. {a, b} \in Elements(g) <=> {a, b} \in Links(g)
  BY DEF Elements
<1>2. HasEdge(g, a, b) <=> HasEdge(g, b, a)
  BY DEF Good, WellFormed, Symmetric, HasEdge
<1> QED
  BY <1>1, <1>2, PairInLinks DEF HasEdge

\* r is what w returns when it is run on g.
Applied(g, w, r) ==
  /\ Good(r.nodes) /\ DOMAIN g \subseteq DOMAIN r.nodes
  /\ r.status # "SUCCESS" => r.nodes = g
  /\ r.status = "SUCCESS" <=> Valid(g, w) /\ ~DoneIn(g, w)
  /\ r.status = "SUCCESS" => DoneIn(r.nodes, w)
  /\ \A e : e # About(w) => (e \in Elements(r.nodes) <=> e \in Elements(g))

LEMMA AddNodeIs ==
  ASSUME NEW g, Good(g), NEW w \in AnyWrite, w.op = "addNode"
  PROVE  Applied(g, w, Apply(g, w))
<1> DEFINE n == w.a
           h == [m \in DOMAIN g \cup {n} |-> IF m = n THEN {} ELSE g[m]]
<1>1. Apply(g, w) = AddNode(g, n) /\ n \in Id /\ About(w) = {n}
  BY DEF Apply, AnyWrite, WriteOp, About
<1>2. Good(Apply(g, w).nodes)
  BY <1>1, AddNodeKeeps, AnyGraphIs DEF Good, Keeps
<1>3. Valid(g, w) /\ (DoneIn(g, w) <=> HasNode(g, n))
  BY <1>1, LinksArePairs DEF Valid, DoneIn, Elements, HasNode
<1>4. CASE HasNode(g, n)
  BY <1>1, <1>2, <1>3, <1>4 DEF AddNode, Result, Applied
<1>5. CASE ~HasNode(g, n)
  <2>1. Apply(g, w).nodes = h /\ Apply(g, w).status = "SUCCESS"
    BY <1>1, <1>5 DEF AddNode, Result
  <2>2. DOMAIN h = DOMAIN g \cup {n}
    OBVIOUS
  <2>3. \A e : e \in Links(h) <=> e \in Links(g)
    <3>1. ASSUME NEW e, NEW x \in DOMAIN h, NEW y \in h[x], e = {x, y}
          PROVE  x \in DOMAIN g /\ y \in g[x]
      BY <3>1
    <3>2. ASSUME NEW e, NEW x \in DOMAIN g, NEW y \in g[x], e = {x, y}
          PROVE  x \in DOMAIN h /\ y \in h[x]
      BY <3>2, <1>5 DEF HasNode
    <3> HIDE DEF h
    <3> QED
      BY <3>1, <3>2, InLinks
  <2> HIDE DEF h
  <2>4. \A e : e \in Elements(h) <=> e \in Elements(g) \cup {{n}}
    BY <2>2, <2>3 DEF Elements
  <2> QED
    BY <1>1, <1>2, <1>3, <1>5, <2>1, <2>2, <2>4 DEF Applied, DoneIn
<1> QED
  BY <1>4, <1>5

LEMMA AddEdgeIs ==
  ASSUME NEW g, Good(g), NEW w \in AnyWrite, w.op = "addEdge"
  PROVE  Applied(g, w, Apply(g, w))
<1> DEFINE a == w.a
           b == w.b
           h == LinkOneWay(LinkOneWay(g, a, b), b, a)
<1>1. Apply(g, w) = AddEdge(g, a, b) /\ (a # b => About(w) = {a, b})
  BY DEF Apply, About
<1>2. Good(Apply(g, w).nodes)
  BY <1>1, AddEdgeKeeps, AnyGraphIs DEF Good, Keeps
<1>3. Valid(g, w) <=> EdgeArgs(g, a, b) = "SUCCESS"
  BY <1>1 DEF Valid, EdgeArgs, HasNode
<1>4. CASE EdgeArgs(g, a, b) # "SUCCESS"
  BY <1>1, <1>2, <1>3, <1>4 DEF AddEdge, Result, Applied
<1>5. CASE EdgeArgs(g, a, b) = "SUCCESS"
  <2>1. a # b /\ a \in DOMAIN g /\ b \in DOMAIN g
    BY <1>5, EdgeArgsSucceeds
  <2>2. /\ DoneIn(g, w) <=> HasEdge(g, a, b)
        /\ HasEdge(g, a, b) <=> HasEdge(g, b, a)
    BY <1>1, <2>1, EdgeIs DEF DoneIn
  <2>3. CASE HasEdge(g, a, b)
    BY <1>1, <1>2, <1>3, <1>5, <2>2, <2>3 DEF AddEdge, Result, Applied
  <2>4. CASE ~HasEdge(g, a, b)
    <3>0. AddEdge(g, a, b) = Result("SUCCESS", h)
      BY <1>5, <2>2, <2>4 DEF AddEdge, HasEdge
    <3>1. Apply(g, w).nodes = h /\ Apply(g, w).status = "SUCCESS"
      <4> HIDE DEF h
      <4> QED
        BY <1>1, <3>0 DEF Result
    <3>2. h = [m \in DOMAIN g |-> IF m = a THEN g[a] \cup {b}
                                  ELSE IF m = b THEN g[b] \cup {a} ELSE g[m]]
      BY <2>1 DEF LinkOneWay, Good, AnyGraph
    <3> HIDE DEF h
    <3>3. EdgeAdded(g, h, a, b)
      BY <2>1, <3>2 DEF EdgeAdded
    <3>4. Elements(h) = Elements(g) \cup {{a, b}}
      <4>1. Links(h) = Links(g) \cup {{a, b}}
        BY <3>3, LinksAdd
      <4>2. DOMAIN h = DOMAIN g
        BY <3>3 DEF EdgeAdded
      <4> QED
        BY <4>1, <4>2 DEF Elements
    <3> QED
      BY <1>1, <1>2, <1>3, <1>5, <2>1, <2>2, <2>4, <3>1, <3>3, <3>4
      DEF Applied, DoneIn, EdgeAdded
  <2> QED
    BY <2>3, <2>4
<1> QED
  BY <1>4, <1>5

LEMMA RemoveEdgeIs ==
  ASSUME NEW g, Good(g), NEW w \in AnyWrite, w.op = "removeEdge"
  PROVE  Applied(g, w, Apply(g, w))
<1> DEFINE a == w.a
           b == w.b
           h == UnlinkOneWay(UnlinkOneWay(g, a, b), b, a)
<1>1. Apply(g, w) = RemoveEdge(g, a, b) /\ (a # b => About(w) = {a, b})
  BY DEF Apply, About
<1>2. Good(Apply(g, w).nodes)
  BY <1>1, RemoveEdgeKeeps, AnyGraphIs DEF Good, Keeps
<1>3. Valid(g, w) <=> EdgeArgs(g, a, b) = "SUCCESS"
  BY <1>1 DEF Valid, EdgeArgs, HasNode
<1>4. CASE EdgeArgs(g, a, b) # "SUCCESS"
  BY <1>1, <1>2, <1>3, <1>4 DEF RemoveEdge, GetEdge, Result, Applied
<1>5. CASE EdgeArgs(g, a, b) = "SUCCESS"
  <2>1. a # b /\ a \in DOMAIN g /\ b \in DOMAIN g
    BY <1>5, EdgeArgsSucceeds
  <2>2. /\ DoneIn(g, w) <=> ~HasEdge(g, a, b)
        /\ HasEdge(g, a, b) <=> HasEdge(g, b, a)
    BY <1>1, <2>1, EdgeIs DEF DoneIn
  <2>3. CASE ~HasEdge(g, a, b)
    BY <1>1, <1>2, <1>3, <1>5, <2>2, <2>3
    DEF RemoveEdge, GetEdge, Result, Applied
  <2>4. CASE HasEdge(g, a, b)
    <3>0. RemoveEdge(g, a, b) = Result("SUCCESS", h)
      BY <1>5, <2>2, <2>4 DEF RemoveEdge, GetEdge, HasEdge
    <3>1. Apply(g, w).nodes = h /\ Apply(g, w).status = "SUCCESS"
      <4> HIDE DEF h
      <4> QED
        BY <1>1, <3>0 DEF Result
    <3>2. h = [m \in DOMAIN g |-> IF m = a THEN g[a] \ {b}
                                  ELSE IF m = b THEN g[b] \ {a} ELSE g[m]]
      BY <2>1 DEF UnlinkOneWay, Good, AnyGraph
    <3> HIDE DEF h
    <3>3. EdgeDropped(g, h, a, b)
      BY <2>1, <3>2 DEF EdgeDropped
    <3>4. \A n : {n} # {a, b}
      BY <2>1
    <3>5. Elements(h) = Elements(g) \ {{a, b}}
      <4>1. Links(h) = Links(g) \ {{a, b}}
        BY <3>3, LinksDrop
      <4>2. DOMAIN h = DOMAIN g
        BY <3>3 DEF EdgeDropped
      <4> HIDE DEF a, b
      <4> QED
        BY <3>4, <4>1, <4>2 DEF Elements
    <3> QED
      BY <1>1, <1>2, <1>3, <1>5, <2>1, <2>2, <2>4, <3>1, <3>3, <3>5
      DEF Applied, DoneIn, EdgeDropped
  <2> QED
    BY <2>3, <2>4
<1> QED
  BY <1>4, <1>5

LEMMA ApplyIs ==
  ASSUME NEW g, Good(g), NEW w \in AnyWrite
  PROVE  Applied(g, w, Apply(g, w))
BY AddNodeIs, AddEdgeIs, RemoveEdgeIs DEF AnyWrite, WriteOp

-----------------------------------------------------------------------------
\* The invariant behind AnsweredMeansCommitted.

Stores == \A i \in Replica : Good(store[i])

\* A call that is being run is the one its caller waits for, and nothing else
\* is to be run before it is answered.
Aligned ==
  \A i \in Caller : Waiting(i) =>
    /\ work[i + 1] # Idle /\ work[i + 1].write = work[i].write
    /\ late[i + 1] = <<>>

\* Whoever calls its successor has committed.
CommittedHere ==
  \A j \in Replica \ (lost \cup {HEAD}) : InCall(j) => Done(j, work[j].write)

\* After a success all further down have committed, and are done.
CommittedOn ==
  \A j \in Replica : Answered(j) /\ work[j].ok =>
    /\ \A k \in (j .. N) \ (lost \cup {HEAD}) : Done(k, work[j].write)
    /\ \A k \in j + 1 .. N : work[k] = Idle /\ late[k] = <<>>

Inv == TypeOK /\ Stores /\ Aligned /\ CommittedHere /\ CommittedOn

-----------------------------------------------------------------------------
LEMMA CarryIs ==
  ASSUME NEW pc \in {"calling", "waiting", "answered"}, NEW w \in AnyWrite,
         NEW ok \in BOOLEAN
  PROVE  LET c == Carry(pc, w, ok)
         IN  c \in AnyWork /\ c # Idle /\ c.pc = pc /\ c.write = w /\ c.ok = ok
BY DEF Carry, AnyWork, Idle

\* Of a thread that is at work.
LEMMA WorkIs ==
  ASSUME TypeOK, NEW i \in Replica
  PROVE  /\ work[i] \in AnyWork
         /\ work[i] = Idle <=> ~InCall(i) /\ ~Answered(i)
         /\ work[i] # Idle => /\ work[i].pc \in {"calling", "waiting", "answered"}
                              /\ work[i].write \in AnyWrite
                              /\ work[i].ok \in BOOLEAN
         /\ ~(Calling(i) /\ Waiting(i)) /\ ~(InCall(i) /\ Answered(i))
BY DEF TypeOK, AnyWork, Idle, InCall, Calling, Waiting, Answered

LEMMA Numbers ==
  /\ N \in Nat /\ N > 1
  /\ HEAD \in Replica /\ HEAD = 1 /\ HEAD # N /\ HEAD \in Caller /\ 2 \in Replica
  /\ \A i \in Caller : i \in Replica /\ i + 1 \in Replica /\ i # N /\ i \in Nat
  /\ \A j \in Replica : /\ j \in Nat
                        /\ j # HEAD => j - 1 \in Caller /\ j - 1 \in Replica
                        /\ j # N => j \in Caller /\ j + 1 \in Replica
BY ChainAssumption DEF Replica, Caller, HEAD

\* What the store of a replica is after it has run w, and what it does next.
Ran(j, w) ==
  /\ work[j] = Idle /\ j \in up
  /\ store' \in [Replica -> AnyGraph]
  /\ \A k \in Replica : k # j => store'[k] = store[k]
  /\ Applied(store[j], w, Apply(store[j], w))
  /\ store'[j] = Apply(store[j], w).nodes
  /\ Good(store'[j])
  /\ CarryOn(j, w) \in AnyWork /\ CarryOn(j, w) # Idle
  /\ CarryOn(j, w).write = w
  /\ CarryOn(j, w).pc \in {"calling", "answered"}
  /\ CarryOn(j, w).pc = "calling" <=>
       j # N /\ link[j] /\ Apply(store[j], w).status = "SUCCESS"
  /\ CarryOn(j, w).ok <=>
       j = N /\ Apply(store[j], w).status = "SUCCESS"

LEMMA RunIs ==
  ASSUME Inv, NEW j \in Replica, NEW w \in AnyWrite, Run(j, w)
  PROVE  Ran(j, w)
<1>1. Good(store[j]) /\ store \in [Replica -> AnyGraph]
  BY DEF Inv, Stores, TypeOK
<1>2. Applied(store[j], w, Apply(store[j], w))
  BY <1>1, ApplyIs
<1>3. store' = [store EXCEPT ![j] = Apply(store[j], w).nodes]
  BY DEF Run
<1>4. Good(Apply(store[j], w).nodes) /\ Apply(store[j], w).nodes \in AnyGraph
  BY <1>2 DEF Applied, Good
<1>5. /\ store' \in [Replica -> AnyGraph]
      /\ \A k \in Replica : k # j => store'[k] = store[k]
      /\ store'[j] = Apply(store[j], w).nodes
  BY <1>1, <1>3, <1>4
<1>6. work[j] = Idle /\ j \in up
  BY DEF Run
<1> DEFINE s == Apply(store[j], w).status = "SUCCESS"
           c == CarryOn(j, w)
<1>7. PICK pc \in {"calling", "answered"}, ok \in BOOLEAN :
        /\ c = Carry(pc, w, ok)
        /\ pc = "calling" <=> j # N /\ link[j] /\ s
        /\ ok <=> j = N /\ s
  <2> HIDE DEF s
  <2>1. c = IF s /\ j # N THEN Outbound(j, w) ELSE Carry("answered", w, s)
    BY DEF CarryOn, s
  <2>2. s \in BOOLEAN
    BY DEF s
  <2>3. CASE s /\ j # N
    BY <2>1, <2>3 DEF Outbound
  <2>4. CASE ~(s /\ j # N)
    BY <2>1, <2>2, <2>4
  <2> QED
    BY <2>3, <2>4
<1> HIDE DEF s, c
<1>8. /\ c \in AnyWork /\ c # Idle /\ c.write = w /\ c.pc \in {"calling", "answered"}
      /\ c.pc = "calling" <=> j # N /\ link[j] /\ s
      /\ c.ok <=> j = N /\ s
  <2>1. c \in AnyWork /\ c # Idle /\ c.pc = pc /\ c.write = w /\ c.ok = ok
    BY <1>7, CarryIs
  <2> QED
    BY <1>7, <2>1
<1> QED
  BY <1>2, <1>4, <1>5, <1>6, <1>8 DEF s, c, Ran

-----------------------------------------------------------------------------
\* What each step does to the threads and to what they are to run.

Requested(w) ==
  /\ HEAD \in up /\ work[HEAD] = Idle
  /\ work' \in [Replica -> AnyWork]
  /\ \A k \in Replica : k # HEAD => work'[k] = work[k]
  /\ work'[HEAD] # Idle /\ work'[HEAD].write = w /\ ~work'[HEAD].ok
  /\ work'[HEAD].pc \in {"calling", "answered"}
  /\ work'[HEAD].pc = "calling" => link[HEAD]
  /\ UNCHANGED <<store, link, late, up, cut, lost>>

LEMMA RequestIs ==
  ASSUME Inv, NEW w \in AnyWrite, Request(w)
  PROVE  Requested(w)
<1> DEFINE c == Outbound(HEAD, w)
<1>1. PICK pc \in {"calling", "answered"}, ok \in BOOLEAN :
        c = Carry(pc, w, ok) /\ (pc = "calling" => link[HEAD]) /\ ~ok
  BY DEF Outbound
<1> HIDE DEF c
<1>2. c \in AnyWork /\ c # Idle /\ c.pc = pc /\ c.write = w /\ c.ok = ok
  BY <1>1, CarryIs
<1>3. work' = [work EXCEPT ![HEAD] = c] /\ work \in [Replica -> AnyWork]
  BY DEF Request, Inv, TypeOK, c
<1> QED
  BY <1>1, <1>2, <1>3, Numbers DEF Request, Requested

Served(j) ==
  /\ j # HEAD /\ j - 1 \in Caller /\ Calling(j - 1) /\ late[j] = <<>>
  /\ work[j - 1].write \in AnyWrite /\ Run(j, work[j - 1].write)
  /\ work' \in [Replica -> AnyWork]
  /\ \A k \in Replica \ {j, j - 1} : work'[k] = work[k]
  /\ work'[j] = CarryOn(j, work[j - 1].write)
  /\ work'[j - 1] # Idle /\ work'[j - 1].pc = "waiting"
  /\ work'[j - 1].write = work[j - 1].write
  /\ UNCHANGED <<link, late, up, lost>>

LEMMA ServeIs ==
  ASSUME Inv, NEW j \in Replica, Serve(j)
  PROVE  Served(j)
<1> DEFINE w == work[j - 1].write
           c == CarryOn(j, w)
           d == [work[j - 1] EXCEPT !.pc = "waiting"]
<1>1. j # HEAD /\ Calling(j - 1) /\ late[j] = <<>> /\ Run(j, w) /\ late' = late
  BY DEF Serve
<1>2. j - 1 \in Caller /\ j - 1 \in Replica /\ j - 1 # j
  <2>1. j # HEAD
    BY <1>1
  <2> QED
    BY <2>1, Numbers
<1>3. work[j - 1] \in [pc : {"calling", "waiting", "answered"}, write : AnyWrite,
                       ok : BOOLEAN]
  BY <1>1, <1>2, WorkIs DEF Inv, AnyWork, InCall
<1>4. d \in AnyWork /\ d # Idle /\ d.pc = "waiting" /\ d.write = w
  BY <1>3 DEF AnyWork, Idle
<1>5. c \in AnyWork
  BY <1>1, <1>3, RunIs DEF Ran
<1>6. work' = [work EXCEPT ![j] = c, ![j - 1] = d] /\ work \in [Replica -> AnyWork]
  BY <1>2 DEF Serve, Inv, TypeOK
<1>7. UNCHANGED <<link, up, lost>> /\ w \in AnyWrite
  BY <1>1, <1>3 DEF Run
<1> HIDE DEF c, d
<1>8. /\ work' \in [Replica -> AnyWork]
      /\ \A k \in Replica \ {j, j - 1} : work'[k] = work[k]
      /\ work'[j] = c /\ work'[j - 1] = d
  BY <1>2, <1>4, <1>5, <1>6
<1> QED
  BY <1>1, <1>2, <1>4, <1>7, <1>8 DEF c, Served

ServedLate(j) ==
  /\ j # HEAD /\ late[j] # <<>> /\ Head(late[j]) \in AnyWrite
  /\ Run(j, Head(late[j]))
  /\ work' \in [Replica -> AnyWork]
  /\ \A k \in Replica : k # j => work'[k] = work[k]
  /\ work'[j] = CarryOn(j, Head(late[j]))
  /\ late' \in [Replica -> Seq(AnyWrite)]
  /\ \A k \in Replica : k # j => late'[k] = late[k]
  /\ late'[j] = Tail(late[j])
  /\ UNCHANGED <<link, up, lost>>

LEMMA ServeLateIs ==
  ASSUME Inv, NEW j \in Replica, ServeLate(j)
  PROVE  ServedLate(j)
<1>1. late \in [Replica -> Seq(AnyWrite)] /\ late[j] \in Seq(AnyWrite)
  BY DEF Inv, TypeOK
<1>2. /\ j # HEAD /\ late[j] # <<>> /\ Run(j, Head(late[j]))
      /\ work' = [work EXCEPT ![j] = CarryOn(j, Head(late[j]))]
      /\ late' = [late EXCEPT ![j] = Tail(late[j])]
  BY <1>1 DEF ServeLate
<1>3. Head(late[j]) \in AnyWrite /\ Tail(late[j]) \in Seq(AnyWrite)
  BY <1>1, <1>2
<1>4. CarryOn(j, Head(late[j])) \in AnyWork
  BY <1>2, <1>3, RunIs DEF Ran
<1> QED
  BY <1>1, <1>2, <1>3, <1>4 DEF Run, Inv, TypeOK, ServedLate

HasAnswered(j) ==
  /\ j # HEAD /\ j - 1 \in Caller /\ Answered(j) /\ work'[j] = Idle
  /\ work' \in [Replica -> AnyWork]
  /\ \A k \in Replica \ {j, j - 1} : work'[k] = work[k]
  /\ ~Waiting(j - 1) => work'[j - 1] = work[j - 1]
  /\ Waiting(j - 1) => /\ work'[j - 1] # Idle
                       /\ work'[j - 1].pc = "answered"
                       /\ work'[j - 1].write = work[j - 1].write
                       /\ work'[j - 1].ok = work[j].ok
  /\ UNCHANGED <<store, link, late, up, cut, lost>>

LEMMA AnswerIs ==
  ASSUME Inv, NEW j \in Replica, Answer(j)
  PROVE  HasAnswered(j)
<1> DEFINE c == Carry("answered", work[j - 1].write, work[j].ok)
<1>1. j # HEAD /\ Answered(j) /\ UNCHANGED <<store, link, late, up, cut, lost>>
  BY DEF Answer
<1>2. j - 1 \in Caller /\ j - 1 \in Replica /\ j - 1 # j
  BY <1>1, Numbers
<1>3. work[j].ok \in BOOLEAN
  BY <1>1, WorkIs DEF Inv
<1>4. Waiting(j - 1) => work[j - 1].write \in AnyWrite
  BY <1>2, WorkIs DEF Inv, InCall
<1>5. Waiting(j - 1) => /\ c \in AnyWork /\ c # Idle /\ c.pc = "answered"
                        /\ c.write = work[j - 1].write /\ c.ok = work[j].ok
  BY <1>3, <1>4, CarryIs
<1> HIDE DEF c
<1>6. /\ work' = [i \in Replica |->
                    IF i = j THEN Idle
                    ELSE IF i = j - 1 /\ Waiting(i) THEN c ELSE work[i]]
  BY DEF Answer, c
<1>7. Idle \in AnyWork /\ work \in [Replica -> AnyWork]
  BY DEF AnyWork, Inv, TypeOK
<1> QED
  BY <1>1, <1>2, <1>5, <1>6, <1>7 DEF HasAnswered

Finished ==
  /\ Answered(HEAD) /\ work'[HEAD] = Idle
  /\ work' \in [Replica -> AnyWork]
  /\ \A k \in Replica : k # HEAD => work'[k] = work[k]
  /\ store' \in [Replica -> AnyGraph]
  /\ \A k \in Replica : k # HEAD => store'[k] = store[k]
  /\ ~work[HEAD].ok => store'[HEAD] = store[HEAD]
  /\ work[HEAD].ok =>
       store'[HEAD] = Apply(store[HEAD], work[HEAD].write).nodes
  /\ Applied(store[HEAD], work[HEAD].write,
             Apply(store[HEAD], work[HEAD].write))
  /\ Good(store'[HEAD])
  /\ UNCHANGED <<link, late, up, cut, lost>>

LEMMA FinishIs ==
  ASSUME Inv, Finish
  PROVE  Finished
<1> DEFINE r == Apply(store[HEAD], work[HEAD].write)
<1>1. HEAD \in Replica /\ Answered(HEAD)
  BY Numbers DEF Finish
<1>2. work[HEAD].write \in AnyWrite
  BY <1>1, WorkIs DEF Inv
<1>3. Good(store[HEAD]) /\ store \in [Replica -> AnyGraph]
  BY <1>1 DEF Inv, Stores, TypeOK
<1>4. Applied(store[HEAD], work[HEAD].write, r)
  BY <1>2, <1>3, ApplyIs
<1> HIDE DEF r
<1>5. Good(r.nodes) /\ r.nodes \in AnyGraph
  BY <1>4 DEF Applied, Good
<1>6. store' = IF work[HEAD].ok THEN [store EXCEPT ![HEAD] = r.nodes] ELSE store
  BY DEF Finish, r
<1>7. Idle \in AnyWork /\ work \in [Replica -> AnyWork]
  BY DEF AnyWork, Inv, TypeOK
<1>8. work' = [work EXCEPT ![HEAD] = Idle] /\ UNCHANGED <<link, late, up, cut, lost>>
  BY DEF Finish
<1> QED
  BY <1>1, <1>3, <1>4, <1>5, <1>6, <1>7, <1>8 DEF r, Finished

LEMMA FailedIs ==
  ASSUME Inv, NEW i \in Replica, InCall(i)
  PROVE  /\ Failed(i) \in AnyWork /\ Failed(i) # Idle
         /\ Failed(i).pc = "answered" /\ Failed(i).write = work[i].write
         /\ ~Failed(i).ok
<1>1. work[i].write \in AnyWrite
  BY WorkIs DEF Inv
<1> QED
  BY <1>1, CarryIs DEF Failed

\* What is left to run of the calls of a connection that breaks.
LEMMA LeftIs ==
  ASSUME Inv, NEW C, NEW i \in Caller, NEW calls \in Left(C, i + 1)
  PROVE  /\ calls \in Seq(AnyWrite)
         /\ calls # late[i + 1] =>
              /\ Calling(i) /\ i \in C
              /\ calls = Append(late[i + 1], work[i].write)
<1>1. i \in Replica /\ i + 1 \in Replica /\ (i + 1) - 1 = i
  BY Numbers
<1>2. late[i + 1] \in Seq(AnyWrite)
  BY <1>1 DEF Inv, TypeOK
<1>3. Calling(i) => work[i].write \in AnyWrite
  BY <1>1, WorkIs DEF Inv, InCall
<1>4. calls # late[i + 1] => /\ Calling(i) /\ i \in C
                             /\ calls = Append(late[i + 1], work[i].write)
  BY <1>1 DEF Left
<1> QED
  BY <1>2, <1>3, <1>4

Disconnected(i) ==
  /\ link[i] /\ link' = [link EXCEPT ![i] = FALSE]
  /\ work' \in [Replica -> AnyWork]
  /\ \A k \in Replica : k # i \/ ~InCall(i) => work'[k] = work[k]
  /\ InCall(i) => /\ work'[i] # Idle /\ work'[i].pc = "answered"
                  /\ work'[i].write = work[i].write /\ ~work'[i].ok
  /\ late' \in [Replica -> Seq(AnyWrite)]
  /\ \A k \in Replica : k # i + 1 => late'[k] = late[k]
  /\ late'[i + 1] # late[i + 1] =>
       /\ Calling(i)
       /\ late'[i + 1] = Append(late[i + 1], work[i].write)
  /\ cut' = CutOff({i})
  /\ UNCHANGED <<store, up, lost>>

LEMMA DisconnectIs ==
  ASSUME Inv, NEW i \in Caller, Disconnect(i)
  PROVE  Disconnected(i)
<1>1. i \in Replica /\ i + 1 \in Replica
  BY Numbers
<1>2. PICK calls \in Left({i}, i + 1) : late' = [late EXCEPT ![i + 1] = calls]
  BY DEF Disconnect
<1>3. /\ calls \in Seq(AnyWrite)
      /\ calls # late[i + 1] => /\ Calling(i)
                                /\ calls = Append(late[i + 1], work[i].write)
  BY LeftIs
<1>4. late \in [Replica -> Seq(AnyWrite)] /\ work \in [Replica -> AnyWork]
  BY DEF Inv, TypeOK
<1>5. work' = IF InCall(i) THEN [work EXCEPT ![i] = Failed(i)] ELSE work
  BY DEF Disconnect
<1>6. InCall(i) => /\ Failed(i) \in AnyWork /\ Failed(i) # Idle
                   /\ Failed(i).pc = "answered"
                   /\ Failed(i).write = work[i].write /\ ~Failed(i).ok
  BY <1>1, FailedIs
<1>7. /\ work' \in [Replica -> AnyWork]
      /\ \A k \in Replica : k # i \/ ~InCall(i) => work'[k] = work[k]
      /\ InCall(i) => work'[i] = Failed(i)
  BY <1>1, <1>4, <1>5, <1>6
<1>8. /\ late' \in [Replica -> Seq(AnyWrite)]
      /\ \A k \in Replica : k # i + 1 => late'[k] = late[k]
      /\ late'[i + 1] = calls
  BY <1>1, <1>2, <1>3, <1>4
<1> QED
  BY <1>3, <1>6, <1>7, <1>8 DEF Disconnect, Disconnected

Crashed(j) ==
  /\ j \in up /\ up' = up \ {j} /\ lost' = lost \cup {j}
  /\ store' = [store EXCEPT ![j] = EmptyGraph]
  /\ link' = [i \in Caller |-> IF i \in {j - 1, j} THEN FALSE ELSE link[i]]
  /\ work' \in [Replica -> AnyWork] /\ work'[j] = Idle
  /\ \A k \in Replica : k # j /\ ~(k = j - 1 /\ InCall(k))
                        => work'[k] = work[k]
  /\ \A k \in Replica : k # j /\ k = j - 1 /\ InCall(k) =>
       /\ work'[k] # Idle /\ work'[k].pc = "answered"
       /\ work'[k].write = work[k].write /\ ~work'[k].ok
  /\ late' \in [Replica -> Seq(AnyWrite)] /\ late'[j] = <<>>
  /\ \A k \in Replica : k # j /\ k # j + 1 => late'[k] = late[k]
  /\ j # N /\ late'[j + 1] # late[j + 1] =>
       /\ Calling(j)
       /\ late'[j + 1] = Append(late[j + 1], work[j].write)
  /\ cut' = CutOff({j - 1, j} \cap Caller)

LEMMA CrashIs ==
  ASSUME Inv, NEW j \in Replica, Crash(j)
  PROVE  Crashed(j)
<1>1. PICK calls \in IF j = N THEN {<<>>} ELSE Left({j}, j + 1) :
        late' = [i \in Replica |-> IF i = j THEN <<>>
                                   ELSE IF i = j + 1 THEN calls ELSE late[i]]
  BY DEF Crash
<1>2. calls \in Seq(AnyWrite)
  <2>1. CASE j = N
    BY <1>1, <2>1
  <2>2. CASE j # N
    BY <1>1, <2>2, LeftIs, Numbers
  <2> QED
    BY <2>1, <2>2
<1>3. j # N /\ calls # late[j + 1] =>
        Calling(j) /\ calls = Append(late[j + 1], work[j].write)
  BY <1>1, LeftIs, Numbers
<1>4. late \in [Replica -> Seq(AnyWrite)] /\ work \in [Replica -> AnyWork]
      /\ Idle \in AnyWork /\ <<>> \in Seq(AnyWrite)
  BY DEF Inv, TypeOK, AnyWork
<1>5. work' = [i \in Replica |->
                IF i = j THEN Idle
                ELSE IF i = j - 1 /\ InCall(i) THEN Failed(i) ELSE work[i]]
  BY DEF Crash
<1>6. \A i \in Replica : InCall(i) =>
         /\ Failed(i) \in AnyWork /\ Failed(i) # Idle
         /\ Failed(i).pc = "answered"
         /\ Failed(i).write = work[i].write /\ ~Failed(i).ok
  BY FailedIs
<1>7. /\ work' \in [Replica -> AnyWork] /\ work'[j] = Idle
      /\ \A k \in Replica : k # j /\ ~(k = j - 1 /\ InCall(k)) => work'[k] = work[k]
      /\ \A k \in Replica : k # j /\ k = j - 1 /\ InCall(k) => work'[k] = Failed(k)
  BY <1>4, <1>5, <1>6
<1>8. /\ late' \in [Replica -> Seq(AnyWrite)] /\ late'[j] = <<>>
      /\ \A k \in Replica : k # j /\ k # j + 1 => late'[k] = late[k]
      /\ j # N => late'[j + 1] = calls
  BY <1>1, <1>2, <1>4, Numbers
<1>9. /\ j \in up /\ up' = up \ {j} /\ lost' = lost \cup {j}
      /\ store' = [store EXCEPT ![j] = EmptyGraph]
      /\ link' = [i \in Caller |-> IF i \in {j - 1, j} THEN FALSE ELSE link[i]]
      /\ cut' = CutOff({j - 1, j} \cap Caller)
  BY DEF Crash
<1> QED
  BY <1>3, <1>6, <1>7, <1>8, <1>9 DEF Crashed

LEMMA AnyWorkIs ==
  ASSUME NEW c \in AnyWork
  PROVE  /\ c = Idle <=> c.pc \notin {"calling", "waiting", "answered"}
         /\ c # Idle => c.write \in AnyWrite /\ c.ok \in BOOLEAN
BY DEF AnyWork, Idle

-----------------------------------------------------------------------------
\* Every step keeps the invariant.

LEMMA RequestKeeps ==
  ASSUME Inv, NEW w \in AnyWrite, Request(w)
  PROVE  Inv'
<1>1. Requested(w)
  BY RequestIs
<1>2. TypeOK /\ Connected /\ Stores /\ Aligned /\ CommittedHere /\ CommittedOn
  BY DEF Inv, TypeOK
<1>3. \A k \in Replica :
        /\ Calling(k)' => (k = HEAD /\ link[HEAD]) \/ (k # HEAD /\ Calling(k))
        /\ Waiting(k)' => k # HEAD /\ Waiting(k)
        /\ Answered(k)' /\ work'[k].ok => k # HEAD /\ Answered(k) /\ work[k].ok
        /\ k # HEAD => work'[k] = work[k]
  BY <1>1 DEF Requested, Calling, Waiting, Answered
<1>4. UNCHANGED <<store, link, late, up, lost>> /\ HEAD \in up
  BY <1>1 DEF Requested
<1>5. Connected'
  BY <1>2, <1>3, <1>4, Numbers DEF Connected, InCall
<1>6. TypeOK'
  BY <1>1, <1>2, <1>5 DEF TypeOK, Requested
<1>7. Aligned'
  <2> SUFFICES ASSUME NEW k \in Caller, Waiting(k)'
               PROVE  /\ work'[k + 1] # Idle /\ work'[k + 1].write = work'[k].write
                      /\ late'[k + 1] = <<>>
    BY DEF Aligned
  <2>1. k \in Replica /\ k + 1 \in Replica /\ k + 1 # HEAD
    BY Numbers DEF Caller
  <2>2. Waiting(k) /\ work'[k] = work[k] /\ work'[k + 1] = work[k + 1]
    BY <1>3, <2>1
  <2> QED
    BY <1>2, <1>4, <2>2 DEF Aligned
<1>8. CommittedHere'
  BY <1>2, <1>3, <1>4 DEF CommittedHere, InCall, Done, Holds
<1>9. CommittedOn'
  <2> SUFFICES ASSUME NEW j \in Replica, Answered(j)', work'[j].ok
               PROVE  /\ \A k \in (j .. N) \ (lost' \cup {HEAD}) :
                           Done(k, work[j].write)'
                      /\ \A k \in j + 1 .. N : work'[k] = Idle /\ late'[k] = <<>>
    BY DEF CommittedOn
  <2>1. j # HEAD /\ Answered(j) /\ work[j].ok /\ work'[j] = work[j]
    BY <1>3
  <2>2. \A k \in j + 1 .. N : k \in Replica /\ k # HEAD
    BY <2>1, Numbers DEF Replica, HEAD
  <2> QED
    BY <1>2, <1>3, <1>4, <2>1, <2>2 DEF CommittedOn, Done, Holds
<1> QED
  BY <1>2, <1>4, <1>6, <1>7, <1>8, <1>9 DEF Inv, Stores

LEMMA ServeKeeps ==
  ASSUME Inv, NEW j \in Replica, Serve(j)
  PROVE  Inv'
<1> DEFINE w == work[j - 1].write
           s == Apply(store[j], w).status = "SUCCESS"
<1>1. Served(j)
  BY ServeIs
<1>2. Ran(j, w)
  BY <1>1, RunIs DEF Served
<1>3. TypeOK /\ Connected /\ Stores /\ Aligned /\ CommittedHere /\ CommittedOn
  BY DEF Inv, TypeOK
<1>4. /\ j # HEAD /\ j - 1 \in Caller /\ Calling(j - 1) /\ late[j] = <<>>
      /\ UNCHANGED <<link, late, up, lost>> /\ j \in up
      /\ work[j] = Idle /\ work'[j] # Idle /\ work'[j].write = w
      /\ work'[j - 1] # Idle /\ work'[j - 1].write = w
      /\ j - 1 \in Replica /\ j - 1 # j /\ (j - 1) + 1 = j
  <2>1. /\ j # HEAD /\ j - 1 \in Caller /\ Calling(j - 1) /\ late[j] = <<>>
        /\ UNCHANGED <<link, late, up, lost>>
        /\ work'[j - 1] # Idle /\ work'[j - 1].write = w
    BY <1>1 DEF Served
  <2>2. /\ j \in up /\ work[j] = Idle
        /\ CarryOn(j, w) # Idle /\ CarryOn(j, w).write = w
    BY <1>2 DEF Ran
  <2>3. j - 1 \in Replica /\ j - 1 # j /\ (j - 1) + 1 = j
    BY <2>1, Numbers
  <2>4. work'[j] = CarryOn(j, w)
    BY <1>1 DEF Served
  <2> QED
    BY <2>1, <2>2, <2>3, <2>4
<1>5. \A k \in Replica :
        /\ Calling(k)' => (k = j /\ link[j] /\ j # N /\ s) \/ (k \notin {j, j - 1} /\ Calling(k))
        /\ Waiting(k)' => k = j - 1 \/ (k \notin {j, j - 1} /\ Waiting(k))
        /\ Answered(k)' /\ work'[k].ok =>
             (k = j /\ j = N /\ s) \/ (k \notin {j, j - 1} /\ Answered(k) /\ work[k].ok)
        /\ k \notin {j, j - 1} => work'[k] = work[k]
  <2> HIDE DEF s
  <2> QED
    BY <1>1, <1>2, <1>4 DEF Served, Ran, Calling, Waiting, Answered, s
<1>6. /\ \A k \in Replica : k # j => store'[k] = store[k]
      /\ Good(store'[j]) /\ (s => DoneIn(store'[j], w))
  BY <1>2 DEF Ran, Applied
<1> HIDE DEF w, s
<1>7. Connected'
  BY <1>3, <1>4, <1>5, Numbers DEF Connected, InCall
<1>8. TypeOK'
  BY <1>1, <1>2, <1>3, <1>7 DEF TypeOK, Served, Ran
<1>9. Stores'
  BY <1>3, <1>6 DEF Stores
<1>10. Aligned'
  <2> SUFFICES ASSUME NEW k \in Caller, Waiting(k)'
               PROVE  /\ work'[k + 1] # Idle /\ work'[k + 1].write = work'[k].write
                      /\ late'[k + 1] = <<>>
    BY DEF Aligned
  <2>1. k \in Replica /\ k + 1 \in Replica
    BY Numbers
  <2>2. CASE k = j - 1
    BY <1>4, <2>2
  <2>3. CASE k # j - 1
    <3>1. Waiting(k) /\ k # j
      BY <1>5, <2>1, <2>3
    <3>2. work[k + 1] # Idle /\ work[k + 1].write = work[k].write /\ late[k + 1] = <<>>
      BY <1>3, <3>1 DEF Aligned
    <3>3. k + 1 # j
      BY <1>4, <3>2
    <3>4. work'[k] = work[k]
      BY <1>5, <2>1, <2>3, <3>1
    <3>5. CASE k + 1 = j - 1
      BY <1>4, <3>2, <3>4, <3>5 DEF w
    <3>6. CASE k + 1 # j - 1
      BY <1>4, <1>5, <2>1, <3>2, <3>3, <3>4, <3>6
    <3> QED
      BY <3>5, <3>6
  <2> QED
    BY <2>2, <2>3
<1>11. CommittedHere'
  <2> SUFFICES ASSUME NEW k \in Replica \ (lost' \cup {HEAD}), InCall(k)'
               PROVE  Done(k, work[k].write)'
    BY DEF CommittedHere
  <2>1. CASE k = j
    BY <1>4, <1>5, <1>6, <2>1 DEF InCall, Done, Holds, DoneIn
  <2>2. CASE k = j - 1
    BY <1>3, <1>4, <1>6, <2>2 DEF CommittedHere, InCall, Done, Holds, w
  <2>3. CASE k \notin {j, j - 1}
    BY <1>3, <1>4, <1>5, <1>6, <2>3 DEF CommittedHere, InCall, Done, Holds
  <2> QED
    BY <2>1, <2>2, <2>3
<1>12. CommittedOn'
  <2> SUFFICES ASSUME NEW k \in Replica, Answered(k)', work'[k].ok
               PROVE  /\ \A m \in (k .. N) \ (lost' \cup {HEAD}) :
                           Done(m, work[k].write)'
                      /\ \A m \in k + 1 .. N : work'[m] = Idle /\ late'[m] = <<>>
    BY DEF CommittedOn
  <2>1. CASE k = j
    <3>1. j = N /\ s
      BY <1>5, <2>1
    <3> QED
      BY <1>4, <1>6, <2>1, <3>1, Numbers DEF Done, Holds, DoneIn
  <2>2. CASE k # j
    <3>1. Answered(k) /\ work[k].ok /\ k # j - 1 /\ work'[k] = work[k]
      BY <1>5, <2>2
    <3>2. /\ \A m \in (k .. N) \ (lost \cup {HEAD}) : Done(m, work[k].write)
          /\ \A m \in k + 1 .. N : work[m] = Idle /\ late[m] = <<>>
      BY <1>3, <3>1 DEF CommittedOn
    <3>3. ~(j - 1 \in k + 1 .. N)
      BY <1>4, <3>2, WorkIs, <1>3 DEF InCall
    <3>4. j < k
      BY <2>2, <3>1, <3>3, Numbers DEF Replica
    <3>5. \A m \in k .. N : m \in Replica /\ m # j /\ m # j - 1
      BY <3>4, Numbers DEF Replica
    <3>6. \A m \in k + 1 .. N : m \in k .. N
      BY Numbers
    <3> QED
      BY <1>4, <1>5, <1>6, <3>1, <3>2, <3>5, <3>6 DEF Done, Holds
  <2> QED
    BY <2>1, <2>2
<1> QED
  BY <1>8, <1>9, <1>10, <1>11, <1>12 DEF Inv

LEMMA ServeLateKeeps ==
  ASSUME Inv, NEW j \in Replica, ServeLate(j)
  PROVE  Inv'
<1> DEFINE w == Head(late[j])
           s == Apply(store[j], w).status = "SUCCESS"
<1>1. ServedLate(j)
  BY ServeLateIs
<1>2. Ran(j, w)
  BY <1>1, RunIs DEF ServedLate
<1>3. TypeOK /\ Connected /\ Stores /\ Aligned /\ CommittedHere /\ CommittedOn
  BY DEF Inv, TypeOK
<1>4. /\ late[j] # <<>> /\ UNCHANGED <<link, up, lost>> /\ j \in up
      /\ work[j] = Idle /\ work'[j] # Idle /\ work'[j].write = w
      /\ \A k \in Replica : k # j => late'[k] = late[k]
  BY <1>1, <1>2 DEF ServedLate, Ran
<1>5. \A k \in Replica :
        /\ Calling(k)' => (k = j /\ link[j] /\ j # N /\ s) \/ (k # j /\ Calling(k))
        /\ Waiting(k)' => k # j /\ Waiting(k)
        /\ Answered(k)' /\ work'[k].ok =>
             (k = j /\ j = N /\ s) \/ (k # j /\ Answered(k) /\ work[k].ok)
        /\ k # j => work'[k] = work[k]
  <2> HIDE DEF s
  <2> QED
    BY <1>1, <1>2, <1>4 DEF ServedLate, Ran, Calling, Waiting, Answered, s
<1>6. /\ \A k \in Replica : k # j => store'[k] = store[k]
      /\ Good(store'[j]) /\ (s => DoneIn(store'[j], w))
  BY <1>2 DEF Ran, Applied
<1> HIDE DEF w, s
<1>7. Connected'
  <2>1. \A i \in Replica : InCall(i)' => i # N /\ link'[i]
    BY <1>3, <1>4, <1>5 DEF Connected, InCall
  <2>2. \A i \in Caller : link'[i] => {i, i + 1} \subseteq up'
    BY <1>3, <1>4 DEF Connected
  <2>3. \A i \in Replica \ up' : work'[i] = Idle /\ late'[i] = <<>>
    BY <1>3, <1>4, <1>5 DEF Connected
  <2> QED
    BY <2>1, <2>2, <2>3 DEF Connected
<1>8. TypeOK'
  BY <1>1, <1>2, <1>3, <1>7 DEF TypeOK, ServedLate, Ran
<1>9. Stores'
  BY <1>3, <1>6 DEF Stores
<1>10. Aligned'
  <2> SUFFICES ASSUME NEW k \in Caller, Waiting(k)'
               PROVE  /\ work'[k + 1] # Idle /\ work'[k + 1].write = work'[k].write
                      /\ late'[k + 1] = <<>>
    BY DEF Aligned
  <2>1. k \in Replica /\ k + 1 \in Replica
    BY Numbers
  <2>2. Waiting(k) /\ work'[k] = work[k]
    BY <1>5, <2>1
  <2>3. k + 1 # j
    BY <1>3, <1>4, <2>2 DEF Aligned
  <2> QED
    BY <1>3, <1>4, <1>5, <2>1, <2>2, <2>3 DEF Aligned
<1>11. CommittedHere'
  <2> SUFFICES ASSUME NEW k \in Replica \ (lost' \cup {HEAD}), InCall(k)'
               PROVE  Done(k, work[k].write)'
    BY DEF CommittedHere
  <2>1. CASE k = j
    BY <1>4, <1>5, <1>6, <2>1 DEF InCall, Done, Holds, DoneIn
  <2>2. CASE k # j
    BY <1>3, <1>4, <1>5, <1>6, <2>2 DEF CommittedHere, InCall, Done, Holds
  <2> QED
    BY <2>1, <2>2
<1>12. CommittedOn'
  <2> SUFFICES ASSUME NEW k \in Replica, Answered(k)', work'[k].ok
               PROVE  /\ \A m \in (k .. N) \ (lost' \cup {HEAD}) :
                           Done(m, work[k].write)'
                      /\ \A m \in k + 1 .. N : work'[m] = Idle /\ late'[m] = <<>>
    BY DEF CommittedOn
  <2>1. CASE k = j
    <3>1. j = N /\ s
      BY <1>5, <2>1
    <3> QED
      BY <1>4, <1>6, <2>1, <3>1, Numbers DEF Done, Holds, DoneIn
  <2>2. CASE k # j
    <3>1. Answered(k) /\ work[k].ok /\ work'[k] = work[k]
      BY <1>5, <2>2
    <3>2. /\ \A m \in (k .. N) \ (lost \cup {HEAD}) : Done(m, work[k].write)
          /\ \A m \in k + 1 .. N : work[m] = Idle /\ late[m] = <<>>
      BY <1>3, <3>1 DEF CommittedOn
    <3>3. ~(j \in k + 1 .. N)
      BY <1>4, <3>2
    <3>4. j < k
      BY <2>2, <3>3, Numbers DEF Replica
    <3>5. \A m \in k .. N : m \in Replica /\ m # j
      BY <3>4, Numbers DEF Replica
    <3>6. \A m \in k + 1 .. N : m \in k .. N
      BY Numbers
    <3> QED
      BY <1>4, <1>5, <1>6, <3>1, <3>2, <3>5, <3>6 DEF Done, Holds
  <2> QED
    BY <2>1, <2>2
<1> QED
  BY <1>8, <1>9, <1>10, <1>11, <1>12 DEF Inv

LEMMA AnswerKeeps ==
  ASSUME Inv, NEW j \in Replica, Answer(j)
  PROVE  Inv'
<1>1. HasAnswered(j)
  BY AnswerIs
<1>2. TypeOK /\ Connected /\ Stores /\ Aligned /\ CommittedHere /\ CommittedOn
  BY DEF Inv, TypeOK
<1>3. /\ j # HEAD /\ j - 1 \in Caller /\ Answered(j) /\ work'[j] = Idle
      /\ UNCHANGED <<store, link, late, up, cut, lost>>
      /\ j - 1 \in Replica /\ j - 1 # j /\ (j - 1) + 1 = j
      /\ work[j] # Idle
  <2>1. j # HEAD /\ Answered(j)
    BY <1>1 DEF HasAnswered
  <2>2. j - 1 \in Caller /\ j - 1 \in Replica /\ j - 1 # j /\ (j - 1) + 1 = j
    BY <2>1, Numbers
  <2>3. work[j] # Idle
    BY <1>2, <2>1, WorkIs
  <2> QED
    BY <1>1, <2>1, <2>2, <2>3 DEF HasAnswered
<1>4. \A k \in Replica :
        /\ Calling(k)' => k # j /\ Calling(k) /\ work'[k] = work[k]
        /\ Waiting(k)' => k \notin {j, j - 1} /\ Waiting(k) /\ work'[k] = work[k]
        /\ Answered(k)' /\ work'[k].ok =>
             \/ k = j - 1 /\ Waiting(k) /\ work[j].ok
             \/ k # j /\ Answered(k) /\ work[k].ok
        /\ work[k] = Idle => work'[k] = Idle
        /\ k # j /\ work[k] # Idle => work'[k] # Idle /\ work'[k].write = work[k].write
  <2>1. Idle.pc = "idle"
    BY DEF Idle
  <2>2. work[j - 1] = Idle => ~Waiting(j - 1)
    BY <1>2, <1>3, WorkIs DEF InCall
  <2> QED
    BY <1>1, <1>3, <2>1, <2>2 DEF HasAnswered, Calling, Waiting, Answered
<1>5. Connected'
  <2>1. \A i \in Replica : InCall(i)' => i # N /\ link'[i]
    BY <1>2, <1>3, <1>4 DEF Connected, InCall
  <2>2. \A i \in Replica \ up' : work'[i] = Idle /\ late'[i] = <<>>
    BY <1>2, <1>3, <1>4 DEF Connected
  <2> QED
    BY <1>2, <1>3, <2>1, <2>2 DEF Connected
<1>6. TypeOK'
  BY <1>1, <1>2, <1>5 DEF TypeOK, HasAnswered
<1>7. Aligned'
  <2> SUFFICES ASSUME NEW k \in Caller, Waiting(k)'
               PROVE  /\ work'[k + 1] # Idle /\ work'[k + 1].write = work'[k].write
                      /\ late'[k + 1] = <<>>
    BY DEF Aligned
  <2>1. k \in Replica /\ k + 1 \in Replica
    BY Numbers
  <2>2. Waiting(k) /\ work'[k] = work[k] /\ k # j - 1
    BY <1>4, <2>1
  <2>3. k + 1 # j
    BY <1>3, <2>1, <2>2, Numbers
  <2> QED
    BY <1>2, <1>3, <1>4, <2>1, <2>2, <2>3 DEF Aligned
<1>8. CommittedHere'
  BY <1>2, <1>3, <1>4 DEF CommittedHere, InCall, Done, Holds
<1>9. CommittedOn'
  <2> SUFFICES ASSUME NEW k \in Replica, Answered(k)', work'[k].ok
               PROVE  /\ \A m \in (k .. N) \ (lost \cup {HEAD}) :
                           Done(m, work'[k].write)
                      /\ \A m \in k + 1 .. N : work'[m] = Idle /\ late[m] = <<>>
    BY <1>3 DEF CommittedOn, Done, Holds
  <2>1. CASE k = j - 1 /\ Waiting(k) /\ work[j].ok
    <3>1. /\ \A m \in (j .. N) \ (lost \cup {HEAD}) : Done(m, work[j].write)
          /\ \A m \in j + 1 .. N : work[m] = Idle /\ late[m] = <<>>
      BY <1>2, <1>3, <2>1 DEF CommittedOn
    <3>2. work[j].write = work[k].write /\ late[j] = <<>>
      BY <1>2, <1>3, <2>1 DEF Aligned
    <3>3. work'[k].write = work[k].write
      BY <1>1, <2>1 DEF HasAnswered
    <3>4. k \notin lost \cup {HEAD} => Done(k, work[k].write)
      BY <1>2, <2>1 DEF CommittedHere, InCall
    <3>5. \A m \in k .. N : m = k \/ m \in j .. N
      BY <1>3, <2>1, Numbers
    <3>6. \A m \in k + 1 .. N : m = j \/ m \in j + 1 .. N
      BY <1>3, <2>1, Numbers
    <3>7. \A m \in j + 1 .. N : m \in Replica
      BY Numbers DEF Replica
    <3> QED
      BY <1>3, <1>4, <3>1, <3>2, <3>3, <3>4, <3>5, <3>6, <3>7
  <2>2. CASE k # j /\ Answered(k) /\ work[k].ok
    <3>1. work'[k].write = work[k].write
      BY <1>2, <1>4, <2>2, WorkIs
    <3>2. /\ \A m \in (k .. N) \ (lost \cup {HEAD}) : Done(m, work[k].write)
          /\ \A m \in k + 1 .. N : work[m] = Idle /\ late[m] = <<>>
      BY <1>2, <2>2 DEF CommittedOn
    <3>3. \A m \in k + 1 .. N : m \in Replica
      BY Numbers DEF Replica
    <3> QED
      BY <1>4, <3>1, <3>2, <3>3
  <2> QED
    BY <1>4, <2>1, <2>2
<1> QED
  BY <1>2, <1>3, <1>6, <1>7, <1>8, <1>9 DEF Inv, Stores

LEMMA FinishKeeps ==
  ASSUME Inv, Finish
  PROVE  Inv'
<1>1. Finished
  BY FinishIs
<1>2. TypeOK /\ Connected /\ Stores /\ Aligned /\ CommittedHere /\ CommittedOn
  BY DEF Inv, TypeOK
<1>3. /\ UNCHANGED <<link, late, up, cut, lost>>
      /\ \A k \in Replica : k # HEAD => work'[k] = work[k] /\ store'[k] = store[k]
      /\ Good(store'[HEAD]) /\ work'[HEAD] = Idle
  BY <1>1 DEF Finished
<1>4. \A k \in Replica :
        /\ Calling(k)' => k # HEAD /\ Calling(k)
        /\ Waiting(k)' => k # HEAD /\ Waiting(k)
        /\ Answered(k)' => k # HEAD /\ Answered(k)
  <2>1. Idle.pc = "idle"
    BY DEF Idle
  <2> QED
    BY <1>3, <2>1 DEF Calling, Waiting, Answered
<1>5. Connected'
  BY <1>2, <1>3, <1>4 DEF Connected, InCall
<1>6. TypeOK'
  BY <1>1, <1>2, <1>5 DEF TypeOK, Finished
<1>7. Aligned'
  <2>1. \A k \in Caller : k \in Replica /\ k + 1 \in Replica /\ k + 1 # HEAD
    BY Numbers DEF Caller
  <2> QED
    BY <1>2, <1>3, <1>4, <2>1 DEF Aligned
<1>8. CommittedHere'
  BY <1>2, <1>3, <1>4 DEF CommittedHere, InCall, Done, Holds
<1>9. CommittedOn'
  <2> SUFFICES ASSUME NEW k \in Replica, Answered(k)', work'[k].ok
               PROVE  /\ \A m \in (k .. N) \ (lost' \cup {HEAD}) :
                           Done(m, work[k].write)'
                      /\ \A m \in k + 1 .. N : work'[m] = Idle /\ late'[m] = <<>>
    BY DEF CommittedOn
  <2>1. Answered(k) /\ k # HEAD /\ work'[k] = work[k]
    BY <1>3, <1>4
  <2>2. \A m \in k .. N : m \in Replica /\ m # HEAD
    BY <2>1, Numbers DEF Replica
  <2>3. \A m \in k + 1 .. N : m \in k .. N
    BY Numbers
  <2> QED
    BY <1>2, <1>3, <2>1, <2>2, <2>3 DEF CommittedOn, Done, Holds
<1> QED
  BY <1>2, <1>3, <1>6, <1>7, <1>8, <1>9 DEF Inv, Stores

LEMMA DisconnectKeeps ==
  ASSUME Inv, NEW i \in Caller, Disconnect(i)
  PROVE  Inv'
<1>1. Disconnected(i)
  BY DisconnectIs
<1>2. TypeOK /\ Connected /\ Stores /\ Aligned /\ CommittedHere /\ CommittedOn
  BY DEF Inv, TypeOK
<1>3. i \in Replica /\ i + 1 \in Replica
  BY Numbers
<1>4. /\ UNCHANGED <<store, up, lost>>
      /\ \A k \in Caller : link'[k] <=> k # i /\ link[k]
      /\ \A k \in Replica : k # i + 1 \/ ~Calling(i) => late'[k] = late[k]
      /\ link' \in [Caller -> BOOLEAN] /\ {i, i + 1} \subseteq up
  BY <1>1, <1>2 DEF Disconnected, TypeOK, Connected
<1>5. \A k \in Replica :
        /\ Calling(k)' => k # i /\ Calling(k)
        /\ Waiting(k)' => k # i /\ Waiting(k)
        /\ Answered(k)' /\ work'[k].ok => Answered(k) /\ work[k].ok
        /\ work'[k].write = work[k].write
        /\ work'[k] = Idle <=> work[k] = Idle
  <2>1. CASE InCall(i)
    <3>1. work[i] # Idle
      BY <1>2, <1>3, <2>1, WorkIs
    <3> QED
      BY <1>1, <1>3, <2>1, <3>1 DEF Disconnected, Calling, Waiting, Answered
  <2>2. CASE ~InCall(i)
    <3>1. \A k \in Replica : work'[k] = work[k]
      BY <1>1, <2>2 DEF Disconnected
    <3> QED
      BY <1>3, <2>2, <3>1 DEF InCall, Calling, Waiting, Answered
  <2> QED
    BY <2>1, <2>2
<1>6. Connected'
  <2>1. \A k \in Replica : InCall(k)' => k # N /\ link'[k]
    BY <1>2, <1>4, <1>5, Numbers DEF Connected, InCall
  <2>2. \A k \in Caller : link'[k] => {k, k + 1} \subseteq up'
    BY <1>2, <1>4 DEF Connected
  <2>3. \A k \in Replica \ up' : work'[k] = Idle /\ late'[k] = <<>>
    BY <1>2, <1>4, <1>5 DEF Connected
  <2> QED
    BY <2>1, <2>2, <2>3 DEF Connected
<1>7. TypeOK'
  BY <1>1, <1>2, <1>4, <1>6 DEF TypeOK, Disconnected
<1>8. Aligned'
  <2> SUFFICES ASSUME NEW k \in Caller, Waiting(k)'
               PROVE  /\ work'[k + 1] # Idle /\ work'[k + 1].write = work'[k].write
                      /\ late'[k + 1] = <<>>
    BY DEF Aligned
  <2>1. k \in Replica /\ k + 1 \in Replica
    BY Numbers
  <2>2. Waiting(k) /\ k # i
    BY <1>5, <2>1
  <2>3. late'[k + 1] = late[k + 1]
    BY <1>4, <2>1, <2>2, Numbers
  <2> QED
    BY <1>2, <1>5, <2>1, <2>2, <2>3 DEF Aligned
<1>9. CommittedHere'
  BY <1>2, <1>4, <1>5 DEF CommittedHere, InCall, Done, Holds
<1>10. CommittedOn'
  <2> SUFFICES ASSUME NEW k \in Replica, Answered(k)', work'[k].ok
               PROVE  /\ \A m \in (k .. N) \ (lost' \cup {HEAD}) :
                           Done(m, work[k].write)'
                      /\ \A m \in k + 1 .. N : work'[m] = Idle /\ late'[m] = <<>>
    BY DEF CommittedOn
  <2>1. /\ \A m \in (k .. N) \ (lost \cup {HEAD}) : Done(m, work[k].write)
        /\ \A m \in k + 1 .. N : work[m] = Idle /\ late[m] = <<>>
    BY <1>2, <1>5 DEF CommittedOn
  <2>2. \A m \in k + 1 .. N : m \in Replica /\ m - 1 \in k .. N /\ m - 1 \in Replica
    BY Numbers DEF Replica
  <2>3. \A m \in k + 1 .. N : late'[m] = late[m]
    <3> SUFFICES ASSUME NEW m \in k + 1 .. N, m = i + 1, Calling(i)
                 PROVE  FALSE
      BY <1>4, <2>2
    <3>1. i = k \/ i \in k + 1 .. N
      BY <1>3, Numbers
    <3>2. work[i] # Idle /\ ~Answered(i)
      BY <1>2, <1>3, WorkIs DEF InCall
    <3> QED
      BY <1>5, <2>1, <3>1, <3>2
  <2> QED
    BY <1>4, <1>5, <2>1, <2>2, <2>3 DEF Done, Holds
<1> QED
  BY <1>2, <1>4, <1>7, <1>8, <1>9, <1>10 DEF Inv, Stores

LEMMA CrashKeeps ==
  ASSUME Inv, NEW j \in Replica, Crash(j)
  PROVE  Inv'
<1>1. Crashed(j)
  BY CrashIs
<1>2. TypeOK /\ Connected /\ Stores /\ Aligned /\ CommittedHere /\ CommittedOn
  BY DEF Inv, TypeOK
<1>3. /\ up' = up \ {j} /\ lost' = lost \cup {j} /\ late'[j] = <<>> /\ work'[j] = Idle
      /\ \A k \in Caller : link'[k] <=> k \notin {j - 1, j} /\ link[k]
      /\ \A k \in Replica : k # j /\ (k # j + 1 \/ ~Calling(j)) => late'[k] = late[k]
      /\ link' \in [Caller -> BOOLEAN]
  <2>1. link \in [Caller -> BOOLEAN]
    BY <1>2 DEF TypeOK
  <2>2. link' = [k \in Caller |-> IF k \in {j - 1, j} THEN FALSE ELSE link[k]]
    BY <1>1 DEF Crashed
  <2>3. \A k \in Replica : k # j /\ (k # j + 1 \/ ~Calling(j)) => late'[k] = late[k]
    BY <1>1, Numbers DEF Crashed
  <2> QED
    BY <1>1, <2>1, <2>2, <2>3 DEF Crashed
<1>4. \A k \in Replica :
        /\ InCall(k)' => k \notin {j - 1, j} /\ InCall(k)
        /\ Waiting(k)' => k \notin {j - 1, j} /\ Waiting(k)
        /\ Answered(k)' /\ work'[k].ok => k # j /\ Answered(k) /\ work[k].ok
        /\ k # j => work'[k].write = work[k].write
        /\ k # j => (work'[k] = Idle <=> work[k] = Idle)
        /\ work[k] = Idle => work'[k] = Idle
  <2> SUFFICES ASSUME NEW k \in Replica
               PROVE  /\ InCall(k)' => k \notin {j - 1, j} /\ InCall(k)
                      /\ Waiting(k)' => k \notin {j - 1, j} /\ Waiting(k)
                      /\ Answered(k)' /\ work'[k].ok => k # j /\ Answered(k) /\ work[k].ok
                      /\ k # j => work'[k].write = work[k].write
                      /\ k # j => (work'[k] = Idle <=> work[k] = Idle)
                      /\ work[k] = Idle => work'[k] = Idle
    OBVIOUS
  <2>1. CASE k = j
    <3>1. Idle.pc = "idle"
      BY DEF Idle
    <3> QED
      BY <1>3, <2>1, <3>1 DEF InCall, Calling, Waiting, Answered
  <2>2. CASE k # j /\ k = j - 1 /\ InCall(k)
    <3>1. work[k] # Idle
      BY <1>2, <2>2, WorkIs
    <3>2. /\ work'[k] # Idle /\ work'[k].pc = "answered"
          /\ work'[k].write = work[k].write /\ ~work'[k].ok
      BY <1>1, <2>2 DEF Crashed
    <3> QED
      BY <2>2, <3>1, <3>2 DEF InCall, Calling, Waiting, Answered
  <2>3. CASE k # j /\ ~(k = j - 1 /\ InCall(k))
    <3>1. work'[k] = work[k]
      BY <1>1, <2>3 DEF Crashed
    <3> QED
      BY <2>3, <3>1 DEF InCall, Calling, Waiting, Answered
  <2> QED
    BY <2>1, <2>2, <2>3
<1>5. /\ store' \in [Replica -> AnyGraph] /\ Good(store'[j])
      /\ \A k \in Replica : k # j => store'[k] = store[k]
  <2>1. EmptyGraph \in AnyGraph /\ Good(EmptyGraph)
    <3>1. DOMAIN EmptyGraph = {} /\ EmptyGraph \in [{} -> SUBSET Id]
      BY DEF EmptyGraph
    <3>2. EmptyGraph \in AnyGraph
      BY <3>1 DEF AnyGraph
    <3> QED
      BY <3>1, <3>2 DEF Good, WellFormed, NoDangling, Symmetric, Irreflexive
  <2>2. store' = [store EXCEPT ![j] = EmptyGraph] /\ store \in [Replica -> AnyGraph]
    BY <1>1, <1>2 DEF Crashed, TypeOK
  <2> QED
    BY <2>1, <2>2
<1>6. Connected'
  <2>1. \A k \in Replica : InCall(k)' => k # N /\ link'[k]
    BY <1>2, <1>3, <1>4, Numbers DEF Connected
  <2>2. \A k \in Caller : link'[k] => {k, k + 1} \subseteq up'
    <3> SUFFICES ASSUME NEW k \in Caller, link'[k]
                 PROVE  k # j /\ k + 1 # j /\ {k, k + 1} \subseteq up
      BY <1>3
    <3> QED
      BY <1>2, <1>3, Numbers DEF Connected
  <2>3. \A k \in Replica \ up' : work'[k] = Idle /\ late'[k] = <<>>
    <3> SUFFICES ASSUME NEW k \in Replica \ up', k # j
                 PROVE  work'[k] = Idle /\ late'[k] = <<>>
      BY <1>3
    <3>1. k \notin up /\ work[k] = Idle /\ late[k] = <<>>
      BY <1>2, <1>3 DEF Connected
    <3>2. ~(k = j + 1 /\ Calling(j))
      BY <1>2, <3>1, Numbers DEF Connected, InCall
    <3> QED
      BY <1>3, <1>4, <3>1, <3>2
  <2> QED
    BY <2>1, <2>2, <2>3 DEF Connected
<1>7. TypeOK'
  BY <1>1, <1>2, <1>3, <1>5, <1>6 DEF TypeOK, Crashed
<1>8. Stores'
  BY <1>2, <1>5 DEF Stores
<1>9. Aligned'
  <2> SUFFICES ASSUME NEW k \in Caller, Waiting(k)'
               PROVE  /\ work'[k + 1] # Idle /\ work'[k + 1].write = work'[k].write
                      /\ late'[k + 1] = <<>>
    BY DEF Aligned
  <2>1. k \in Replica /\ k + 1 \in Replica
    BY Numbers
  <2>2. Waiting(k) /\ k # j - 1 /\ k # j
    BY <1>4, <2>1
  <2>3. k + 1 # j /\ k + 1 # j + 1
    BY <2>1, <2>2, Numbers
  <2> QED
    BY <1>2, <1>3, <1>4, <2>1, <2>2, <2>3 DEF Aligned
<1>10. CommittedHere'
  BY <1>2, <1>3, <1>4, <1>5 DEF CommittedHere, Done, Holds
<1>11. CommittedOn'
  <2> SUFFICES ASSUME NEW k \in Replica, Answered(k)', work'[k].ok
               PROVE  /\ \A m \in (k .. N) \ (lost' \cup {HEAD}) :
                           Done(m, work[k].write)'
                      /\ \A m \in k + 1 .. N : work'[m] = Idle /\ late'[m] = <<>>
    BY DEF CommittedOn
  <2>1. Answered(k) /\ work[k].ok /\ k # j /\ work'[k].write = work[k].write
    BY <1>4
  <2>2. /\ \A m \in (k .. N) \ (lost \cup {HEAD}) : Done(m, work[k].write)
        /\ \A m \in k + 1 .. N : work[m] = Idle /\ late[m] = <<>>
    BY <1>2, <2>1 DEF CommittedOn
  <2>3. \A m \in k .. N : m \in Replica
    BY Numbers DEF Replica
  <2>4. \A m \in k + 1 .. N : m \in Replica
    BY Numbers DEF Replica
  <2>5. \A m \in k + 1 .. N : late'[m] = <<>>
    <3> SUFFICES ASSUME NEW m \in k + 1 .. N, m # j, m = j + 1, Calling(j)
                 PROVE  FALSE
      BY <1>3, <2>2, <2>4
    <3>1. j = k \/ j \in k + 1 .. N
      BY Numbers
    <3>2. work[j] # Idle
      BY <1>2, WorkIs DEF InCall
    <3> QED
      BY <2>1, <2>2, <3>1, <3>2
  <2> QED
    BY <1>3, <1>4, <1>5, <2>1, <2>2, <2>3, <2>4, <2>5 DEF Done, Holds
<1> QED
  BY <1>7, <1>8, <1>9, <1>10, <1>11 DEF Inv

LEMMA RestartKeeps ==
  ASSUME Inv, NEW j \in Replica, Restart(j)
  PROVE  Inv'
<1>1. TypeOK /\ Connected /\ Stores /\ Aligned /\ CommittedHere /\ CommittedOn
  BY DEF Inv, TypeOK
<1>2. /\ UNCHANGED <<store, work, late, cut, lost>> /\ up' = up \cup {j}
      /\ j # N => j + 1 \in up
      /\ \A k \in Caller : link'[k] <=> k = j \/ link[k]
      /\ link' \in [Caller -> BOOLEAN]
  BY <1>1 DEF Restart, TypeOK
<1>3. \A k \in Replica : /\ InCall(k)' <=> InCall(k)
                         /\ Waiting(k)' <=> Waiting(k)
                         /\ Answered(k)' <=> Answered(k)
                         /\ \A w : Done(k, w)' <=> Done(k, w)
  BY <1>2 DEF InCall, Calling, Waiting, Answered, Done, Holds
<1>4. Connected'
  BY <1>1, <1>2, <1>3, Numbers DEF Connected
<1>5. TypeOK'
  BY <1>1, <1>2, <1>4 DEF TypeOK
<1> QED
  BY <1>1, <1>2, <1>3, <1>5, Numbers
  DEF Inv, Stores, Aligned, CommittedHere, CommittedOn, Done, Holds

-----------------------------------------------------------------------------
LEMMA InitInv == Init => Inv
<1> SUFFICES ASSUME Init PROVE Inv
  OBVIOUS
<1>1. EmptyGraph \in AnyGraph /\ Good(EmptyGraph)
  <2>1. DOMAIN EmptyGraph = {} /\ EmptyGraph \in [{} -> SUBSET Id]
    BY DEF EmptyGraph
  <2>2. EmptyGraph \in AnyGraph
    BY <2>1 DEF AnyGraph
  <2> QED
    BY <2>1, <2>2 DEF Good, WellFormed, NoDangling, Symmetric, Irreflexive
<1>2. Idle \in AnyWork /\ Idle.pc = "idle"
  BY DEF AnyWork, Idle
<1>3. \A i \in Replica : work[i] = Idle /\ ~InCall(i) /\ ~Waiting(i) /\ ~Answered(i)
  BY <1>2 DEF Init, InCall, Calling, Waiting, Answered
<1>4. Connected
  BY <1>3, Numbers DEF Init, Connected
<1>5. TypeOK
  <2>1. store \in [Replica -> AnyGraph] /\ work \in [Replica -> AnyWork]
    BY <1>1, <1>2 DEF Init
  <2>2. link \in [Caller -> BOOLEAN] /\ late \in [Replica -> Seq(AnyWrite)]
    BY DEF Init
  <2> QED
    BY <1>4, <2>1, <2>2 DEF TypeOK, Init
<1>6. Stores
  BY <1>1 DEF Init, Stores
<1>7. Aligned /\ CommittedHere /\ CommittedOn
  BY <1>3, Numbers DEF Aligned, CommittedHere, CommittedOn
<1> QED
  BY <1>5, <1>6, <1>7 DEF Inv

\* The head is asked for writes of the types the rest of the chain expects.
LEMMA Writes ==
  ASSUME NEW a \in Id, NEW b \in Id
  PROVE  /\ Write("addNode", a, a) \in AnyWrite
         /\ Write("addEdge", a, b) \in AnyWrite
         /\ Write("removeEdge", a, b) \in AnyWrite
BY DEF Write, AnyWrite, WriteOp

LEMMA StepInv == Inv /\ [Next]_vars => Inv'
<1> SUFFICES ASSUME Inv, [Next]_vars PROVE Inv'
  OBVIOUS
<1>1. CASE UNCHANGED vars
  <2>1. UNCHANGED <<store, work, link, late, up, lost>>
    BY <1>1 DEF vars
  <2> QED
    BY <2>1 DEF Inv, TypeOK, Connected, Stores, Aligned, CommittedHere,
      CommittedOn, Done, Holds, InCall, Calling, Waiting, Answered
<1>2. CASE \E n \in Id : add_node(n)
  BY <1>2, Writes, RequestKeeps DEF add_node
<1>3. CASE \E a, b \in Id : add_edge(a, b) \/ remove_edge(a, b)
  BY <1>3, Writes, RequestKeeps DEF add_edge, remove_edge
<1>4. CASE \E j \in Replica : Thread(j) \/ Crash(j) \/ Restart(j)
  BY <1>4, ServeKeeps, ServeLateKeeps, AnswerKeeps, CrashKeeps, RestartKeeps
  DEF Thread
<1>5. CASE Finish
  BY <1>5, FinishKeeps
<1>6. CASE \E i \in Caller : Disconnect(i)
  BY <1>6, DisconnectKeeps
<1> QED
  BY <1>1, <1>2, <1>3, <1>4, <1>5, <1>6 DEF Next

\* In all states of the chain the types are right, only connections between
\* processes that run work, and only those have calls in them.
THEOREM TypeAlways == Spec => []TypeOK
<1>1. Inv => TypeOK
  BY DEF Inv
<1> QED
  BY InitInv, StepInv, <1>1, PTL DEF Spec

\* Of some replicas one is the last.
LEMMA LastReplica ==
  ASSUME NEW S \in SUBSET Replica, S # {}
  PROVE  \E k \in S : \A m \in S : m <= k
<1>1. PICK M : M = {k .. N : k \in S}
  OBVIOUS
<1>2. N \in Nat /\ \A k \in S : k \in Nat /\ k <= N
  BY ChainAssumption DEF Replica
<1>3. M \subseteq FiniteSubsetsOf(Nat) /\ M # {}
  <2>1. ASSUME NEW k \in S
        PROVE  k .. N \in FiniteSubsetsOf(Nat)
    <3>1. k \in Int /\ N \in Int /\ k .. N \subseteq Nat
      BY <1>2
    <3>2. IsFiniteSet(k .. N)
      BY <3>1, FS_Interval
    <3> QED
      BY <3>1, <3>2 DEF FiniteSubsetsOf
  <2> QED
    BY <1>1, <2>1
<1>4. PICK x \in M : \A y \in M : ~(<<y, x>> \in StrictSubsetOrdering(Nat))
  BY <1>3, FS_StrictSubsetOrderingWellFounded, WFMin
<1>5. PICK k \in S : x = k .. N
  BY <1>1
<1>6. ASSUME NEW m \in S, k < m
      PROVE  FALSE
  <2>1. m .. N \in M
    BY <1>1
  <2>2. /\ m .. N \subseteq k .. N /\ k \notin m .. N /\ k \in k .. N
        /\ k .. N \subseteq Nat
    BY <1>2, <1>6
  <2>3. <<m .. N, k .. N>> \in StrictSubsetOrdering(Nat)
    BY <2>2 DEF StrictSubsetOrdering
  <2> QED
    BY <1>4, <1>5, <2>1, <2>3
<1>7. \A m \in S : ~(k < m) /\ m \in Nat /\ k \in Nat
  BY <1>2, <1>6
<1>8. \A m \in S : m <= k
  BY <1>7
<1> QED
  BY <1>8

\* In a chain of any length the replicas never all wait for one another: of
\* those from i on the last one that is in a call has a successor that runs and
\* is not in a call itself.
THEOREM StuckNever == Spec => []NeverStuck
<1>1. ASSUME Inv, NEW i \in Replica, work[i] # Idle, ~Answered(i)
      PROVE  \E j \in i + 1 .. N : Answered(j) \/ CanServe(j)
  <2>1. /\ N \in Nat /\ \A k \in Replica : k \in Nat /\ 1 <= k /\ k <= N
        /\ \A k \in Nat : 1 <= k /\ k <= N => k \in Replica
        /\ HEAD = 1
    BY ChainAssumption DEF Replica, HEAD
  <2>2. \A k \in Replica : work[k] = Idle \/ InCall(k) \/ Answered(k)
    BY <1>1 DEF Inv, TypeOK, AnyWork, InCall, Calling, Waiting, Answered
  <2>3. PICK S : S = {k \in Replica : InCall(k) /\ i <= k}
    OBVIOUS
  <2>4. i \in S /\ S \in SUBSET Replica
    BY <1>1, <2>1, <2>2, <2>3
  <2>5. PICK k \in S : \A m \in S : m <= k
    BY <2>4, LastReplica
  <2>6. /\ k \in Replica /\ InCall(k) /\ i <= k /\ k # N /\ link[k]
    BY <1>1, <2>3 DEF Inv, TypeOK, Connected
  <2>7. /\ k \in Caller /\ k + 1 \in i + 1 .. N /\ k + 1 \in Replica /\ k + 1 # HEAD
        /\ (k + 1) - 1 = k
    <3>1. k \in Nat /\ 1 <= k /\ k <= N /\ i \in Nat
      BY <2>1, <2>6
    <3> QED
      BY <2>1, <2>6, <3>1 DEF Caller
  <2>8. k + 1 \in up
    BY <1>1, <2>6, <2>7 DEF Inv, TypeOK, Connected
  <2>9. ~InCall(k + 1)
    <3>1. SUFFICES ASSUME InCall(k + 1)
                   PROVE  FALSE
      OBVIOUS
    <3>2. i <= k + 1 /\ ~(k + 1 <= k)
      BY <2>1, <2>6
    <3> QED
      BY <2>3, <2>5, <2>7, <3>1, <3>2
  <2>10. CASE work[k + 1] = Idle
    <3>1. ~Waiting(k)
      BY <1>1, <2>7, <2>10 DEF Inv, Aligned
    <3>2. Calling((k + 1) - 1)
      BY <2>6, <2>7, <3>1 DEF InCall
    <3>3. CanServe(k + 1)
      BY <2>7, <2>8, <2>10, <3>2 DEF CanServe
    <3> QED
      BY <2>7, <3>3
  <2> QED
    BY <2>2, <2>7, <2>9, <2>10
<1>2. Inv => NeverStuck
  BY <1>1 DEF NeverStuck
<1> QED
  BY InitInv, StepInv, <1>2, PTL DEF Spec

\* However long the chain, a write the head is told has succeeded is on every
\* replica that has kept its store.
THEOREM CommittedAlways == Spec => []AnsweredMeansCommitted
<1>1. Inv => AnsweredMeansCommitted
  <2> SUFFICES ASSUME Inv, Answered(HEAD), work[HEAD].ok,
                      NEW j \in Replica \ (lost \cup {HEAD})
               PROVE  Done(j, work[HEAD].write)
    BY DEF AnsweredMeansCommitted
  <2>1. j \in (HEAD .. N) \ (lost \cup {HEAD})
    BY DEF Replica, HEAD
  <2> QED
    BY <2>1, Numbers DEF Inv, CommittedOn
<1> QED
  BY InitInv, StepInv, <1>1, PTL DEF Spec

-----------------------------------------------------------------------------
\* StrandedForGood: the steps of the head, of the second replica and of the
\* third each leave a stranded element stranded, or the second drops it.

LEMMA StrandedServe ==
  ASSUME Inv, NEW j \in Replica, Serve(j), NEW e, Stranded(e)
  PROVE  Stranded(e)' \/ ~Holds(2, e)'
<1> DEFINE w == work[j - 1].write
<1>1. Served(j)
  BY ServeIs
<1>2. Ran(j, w)
  BY <1>1, RunIs DEF Served
<1>3. /\ j # HEAD /\ j - 1 \in Caller /\ Calling(j - 1) /\ j - 1 # j /\ j \in Nat
      /\ work[j] = Idle /\ work'[j].write = w /\ HEAD = 1 /\ HEAD \in Replica
      /\ 2 \in Replica
  BY <1>1, <1>2, Numbers DEF Served, Ran
<1>4. store'[HEAD] = store[HEAD]
  BY <1>2, <1>3 DEF Ran
<1>5. CASE j = 2
  <2> USE <1>5
  <2>1. work'[HEAD].write = w /\ work[HEAD].write = w /\ work[HEAD] # Idle
        /\ ~Answered(HEAD)' /\ w \in AnyWrite
    BY <1>1, <1>3, WorkIs DEF Served, Answered, InCall, Inv
  <2>2. SUFFICES ASSUME Holds(2, e)' PROVE Stranded(e)'
    OBVIOUS
  <2>3. CASE About(w) = e
    <3>1. Apply(store[2], w).status # "SUCCESS"
      <4>1. Apply(store[2], w).status = "SUCCESS" => e \notin Elements(store'[2])
        BY <1>2, <2>3 DEF Ran, Applied, DoneIn, Stranded, Holds
      <4> QED
        BY <2>2, <4>1 DEF Holds
    <3>2. Answered(2)' /\ ~work'[2].ok
      BY <1>1, <1>2, <3>1 DEF Served, Ran, Answered
    <3> QED
      BY <1>3, <1>4, <2>1, <2>2, <3>2 DEF Stranded, Holds
  <2>4. CASE About(w) # e
    BY <1>3, <1>4, <2>1, <2>2, <2>4 DEF Stranded, Busy, Holds
  <2> QED
    BY <2>3, <2>4
<1>6. CASE j # 2
  <2>1. work'[HEAD] = work[HEAD] /\ store'[2] = store[2]
    BY <1>1, <1>2, <1>3, <1>6 DEF Served, Ran
  <2>2. Busy(e) /\ Waiting(HEAD) => work'[2] = work[2]
    <3> SUFFICES ASSUME Answered(2) PROVE work'[2] = work[2]
      BY DEF Stranded
    <3>1. j - 1 # 2
      BY <1>3, WorkIs DEF Inv, InCall
    <3> QED
      BY <1>1, <1>3, <1>6, <3>1 DEF Served
  <2> QED
    BY <1>4, <2>1, <2>2 DEF Stranded, Busy, Holds, Answered, Waiting
<1> QED
  BY <1>5, <1>6

LEMMA StrandedServeLate ==
  ASSUME Inv, NEW j \in Replica, ServeLate(j), NEW e, Stranded(e)
  PROVE  Stranded(e)' \/ ~Holds(2, e)'
<1> DEFINE w == Head(late[j])
<1>1. ServedLate(j)
  BY ServeLateIs
<1>2. Ran(j, w)
  BY <1>1, RunIs DEF ServedLate
<1>3. j # HEAD /\ work[j] = Idle /\ HEAD \in Replica /\ 2 \in Replica /\ ~Answered(j)
  BY <1>1, <1>2, Numbers, WorkIs DEF ServedLate, Ran, Inv
<1>4. store'[HEAD] = store[HEAD] /\ work'[HEAD] = work[HEAD]
  BY <1>1, <1>2, <1>3 DEF Ran, ServedLate
<1>5. Busy(e) /\ Waiting(HEAD) => work'[2] = work[2]
  BY <1>1, <1>3 DEF Stranded, ServedLate
<1> QED
  BY <1>4, <1>5 DEF Stranded, Busy, Holds, Answered, Waiting

LEMMA StrandedAnswer ==
  ASSUME Inv, NEW j \in Replica, Answer(j), NEW e, Stranded(e)
  PROVE  Stranded(e)'
<1>1. HasAnswered(j)
  BY AnswerIs
<1>2. HEAD \in Replica /\ 2 \in Replica /\ HEAD = 1 /\ j - 1 # j /\ j \in Nat
  BY Numbers
<1>3. j # HEAD /\ store' = store
  BY <1>1 DEF HasAnswered
<1>4. CASE j = 2
  <2>1. CASE Waiting(HEAD)
    <3>1. work'[HEAD].pc = "answered" /\ work'[HEAD].write = work[HEAD].write
          /\ work'[HEAD].ok = work[2].ok /\ work[HEAD] # Idle
      BY <1>1, <1>2, <1>4, <2>1, WorkIs DEF HasAnswered, Inv, InCall
    <3>2. Busy(e) => ~work[2].ok
      BY <2>1 DEF Stranded
    <3> QED
      BY <1>3, <3>1, <3>2 DEF Stranded, Busy, Holds, Waiting, Answered
  <2>2. CASE ~Waiting(HEAD)
    <3>1. work'[HEAD] = work[HEAD]
      BY <1>1, <1>2, <1>4, <2>2 DEF HasAnswered
    <3> QED
      BY <1>3, <2>2, <3>1 DEF Stranded, Busy, Holds, Waiting, Answered
  <2> QED
    BY <2>1, <2>2
<1>5. CASE j # 2
  <2>1. work'[HEAD] = work[HEAD]
    BY <1>1, <1>2, <1>3, <1>5 DEF HasAnswered
  <2>2. Busy(e) /\ Waiting(HEAD) => work'[2] = work[2]
    <3> SUFFICES ASSUME Answered(2) PROVE work'[2] = work[2]
      BY DEF Stranded
    <3>1. ~Waiting(2)
      BY <1>2, WorkIs DEF Inv, InCall
    <3> QED
      BY <1>1, <1>2, <1>5, <3>1 DEF HasAnswered
  <2> QED
    BY <1>3, <2>1, <2>2 DEF Stranded, Busy, Holds, Waiting, Answered
<1> QED
  BY <1>4, <1>5

LEMMA StrandedFinish ==
  ASSUME Inv, Finish, NEW e, Stranded(e)
  PROVE  Stranded(e)'
<1>1. Finished
  BY FinishIs
<1>2. work'[HEAD] = Idle /\ store'[2] = store[2] /\ work[HEAD] # Idle
  BY <1>1, Numbers, WorkIs DEF Finished, Inv
<1>3. e \notin Elements(store'[HEAD])
  BY <1>1, <1>2 DEF Finished, Applied, Stranded, Busy, Holds
<1> QED
  BY <1>2, <1>3 DEF Stranded, Busy, Holds

LEMMA StrandedDisconnect ==
  ASSUME Inv, NEW i \in Caller, Disconnect(i), NEW e, Stranded(e)
  PROVE  Stranded(e)'
<1>1. Disconnected(i)
  BY DisconnectIs
<1>2. HEAD \in Replica /\ 2 \in Replica /\ HEAD = 1 /\ i \in Replica
  BY Numbers
<1>3. store' = store
  BY <1>1 DEF Disconnected
<1>4. CASE i = HEAD /\ InCall(HEAD)
  BY <1>1, <1>2, <1>3, <1>4, WorkIs
  DEF Disconnected, Stranded, Busy, Holds, Waiting, Answered
<1>5. CASE ~(i = HEAD /\ InCall(HEAD))
  <2>1. work'[HEAD] = work[HEAD]
    BY <1>1, <1>2, <1>5 DEF Disconnected
  <2>2. Busy(e) /\ Waiting(HEAD) => work'[2] = work[2]
    <3> SUFFICES ASSUME Answered(2) PROVE work'[2] = work[2]
      BY DEF Stranded
    <3>1. ~InCall(2)
      BY <1>2, WorkIs DEF Inv
    <3> QED
      BY <1>1, <1>2, <3>1 DEF Disconnected
  <2> QED
    BY <1>3, <2>1, <2>2 DEF Stranded, Busy, Holds, Waiting, Answered
<1> QED
  BY <1>4, <1>5

LEMMA StrandedCrash ==
  ASSUME Inv, NEW j \in Replica, Crash(j), NEW e, Stranded(e)
  PROVE  Stranded(e)' \/ ~Holds(2, e)'
<1>1. Crashed(j)
  BY CrashIs
<1>2. HEAD \in Replica /\ 2 \in Replica /\ HEAD = 1 /\ j \in Nat
  BY Numbers
<1>3. store \in [Replica -> AnyGraph] /\ store' = [store EXCEPT ![j] = EmptyGraph]
  BY <1>1 DEF Crashed, Inv, TypeOK
<1>4. ~(e \in Elements(EmptyGraph))
  BY DEF Elements, EmptyGraph, Links
<1>5. CASE j = HEAD
  <2>1. work'[HEAD] = Idle /\ store'[2] = store[2] /\ store'[HEAD] = EmptyGraph
    BY <1>1, <1>2, <1>3, <1>5 DEF Crashed
  <2> QED
    BY <1>4, <2>1 DEF Stranded, Busy, Holds
<1>6. CASE j = 2
  BY <1>2, <1>3, <1>4, <1>6 DEF Holds
<1>7. CASE j \notin {HEAD, 2}
  <2>1. store'[HEAD] = store[HEAD] /\ store'[2] = store[2]
    BY <1>2, <1>3, <1>7
  <2>2. work'[HEAD] = work[HEAD]
    BY <1>1, <1>2, <1>7 DEF Crashed
  <2>3. Busy(e) /\ Waiting(HEAD) => work'[2] = work[2]
    <3> SUFFICES ASSUME Answered(2) PROVE work'[2] = work[2]
      BY DEF Stranded
    <3>1. ~InCall(2)
      BY <1>2, WorkIs DEF Inv
    <3> QED
      BY <1>1, <1>2, <1>7, <3>1 DEF Crashed
  <2> QED
    BY <2>1, <2>2, <2>3 DEF Stranded, Busy, Holds, Waiting, Answered
<1> QED
  BY <1>5, <1>6, <1>7

LEMMA StrandedRequest ==
  ASSUME Inv, NEW w \in AnyWrite, Request(w), NEW e, Stranded(e)
  PROVE  Stranded(e)'
<1>1. Requested(w)
  BY RequestIs
<1> QED
  BY <1>1 DEF Requested, Stranded, Busy, Holds, Waiting, Answered

\* For every length of the chain: what a write that was cut off has left in the
\* second replica the head never gets, whatever is written later; the difference
\* ends only when the second replica loses it again, by a crash or a removal.
THEOREM StrandedAlways == Spec => StrandedForGood
<1> DEFINE Stays == \A e \in Elements(store[2]) :
                      Stranded(e) => Stranded(e)' \/ ~Holds(2, e)'
<1>1. Inv /\ [Next]_vars => [Stays]_vars
  <2> SUFFICES ASSUME Inv, Next, NEW e, Stranded(e)
               PROVE  Stranded(e)' \/ ~Holds(2, e)'
    BY DEF vars
  <2>1. CASE \E n \in Id : add_node(n)
    BY <2>1, Writes, StrandedRequest DEF add_node
  <2>2. CASE \E a, b \in Id : add_edge(a, b) \/ remove_edge(a, b)
    BY <2>2, Writes, StrandedRequest DEF add_edge, remove_edge
  <2>3. ASSUME NEW j \in Replica, Thread(j)
        PROVE  Stranded(e)' \/ ~Holds(2, e)'
    BY <2>3, StrandedServe, StrandedServeLate, StrandedAnswer DEF Thread
  <2>4. ASSUME NEW j \in Replica, Restart(j)
        PROVE  Stranded(e)'
    BY <2>4 DEF Restart, Stranded, Busy, Holds, Waiting, Answered
  <2>5. CASE Finish
    BY <2>5, StrandedFinish
  <2>6. CASE \E i \in Caller : Disconnect(i)
    BY <2>6, StrandedDisconnect
  <2> QED
    BY <2>1, <2>2, <2>3, <2>4, <2>5, <2>6, StrandedCrash DEF Next
<1> HIDE DEF Stays
<1>2. Inv /\ [Next]_vars => Inv'
  BY StepInv
<1>3. Spec => [][Stays]_vars
  BY InitInv, <1>1, <1>2, PTL DEF Spec
<1> QED
  BY <1>3 DEF StrandedForGood, Stays

-----------------------------------------------------------------------------
\* That the replicas agree: the invariant says which replicas have run the write
\* that is under way, and that those it has not reached still agree about it.

Kept == Replica \ lost

Agree(S, e) == \A i, j \in S : Holds(i, e) <=> Holds(j, e)

\* Those that the write k carries on has not reached; the head is the last.
Untried(k) == Kept \cap ({HEAD} \cup k + 1 .. N)

Cut(w) == About(w) \in cut

\* A process that does not run has lost its store.
DownAreLost == \A j \in Replica : j \notin up => j \in lost

\* Unless it was cut off, a write is carried on by all from the head down to
\* where it is, and does not come late.
InOrder ==
  /\ \A j, k \in Replica : work[j] # Idle /\ ~Cut(work[j].write) /\ k < j =>
                             Waiting(k) /\ work[k].write = work[j].write
  /\ \A j \in Replica : \A n \in DOMAIN late[j] : Cut(late[j][n])

\* A connection is opened when its caller starts, and the caller has an empty
\* store then; so whom a replica with its store still reaches has its store.
LinkedAreKept ==
  \A i, j \in Replica :
    i < j /\ i \notin lost /\ (\A k \in i .. j - 1 : link[k]) => j \notin lost

\* The head is the last to add a node.
HeadLeast == \A j \in Kept : DOMAIN store[HEAD] \subseteq DOMAIN store[j]

\* The head asks only for edges between its nodes.
HeadAsked ==
  work[HEAD] # Idle /\ work[HEAD].write.op # "addNode" =>
    About(work[HEAD].write) \subseteq DOMAIN store[HEAD]

\* Nobody commits an edge from a node to itself.
Proper ==
  \A j \in Replica : (InCall(j) /\ j # HEAD) \/ (Answered(j) /\ work[j].ok) =>
    (work[j].write.op # "addNode" => work[j].write.a # work[j].write.b)

AgreeElsewhere == \A e : e \notin cut /\ ~Busy(e) => Agree(Kept, e)

\* While k calls: if any that it has reached has its store, the others do not
\* have yet what the write does.
AgreeAhead ==
  \A k \in Replica : Calling(k) /\ ~Cut(work[k].write) =>
    /\ Agree(Untried(k), About(work[k].write))
    /\ (\E m \in 2 .. k : m \notin lost) =>
         \A u \in Untried(k) : ~Done(u, work[k].write)

\* A write that fails without being cut off has changed no store.
AgreeAfterFailure ==
  \A k \in Replica : Answered(k) /\ ~work[k].ok /\ ~Cut(work[k].write) =>
    Agree(Kept, About(work[k].write))

AInv ==
  /\ Inv
  /\ DownAreLost /\ InOrder /\ LinkedAreKept
  /\ HeadLeast /\ HeadAsked /\ Proper
  /\ AgreeElsewhere /\ AgreeAhead /\ AgreeAfterFailure

-----------------------------------------------------------------------------
LEMMA ServeAgrees ==
  ASSUME AInv, NEW j \in Replica, Serve(j)
  PROVE  AInv'
<1> DEFINE w == work[j - 1].write
           e == About(w)
           s == Apply(store[j], w).status = "SUCCESS"
<1>1. Served(j)
  BY ServeIs DEF AInv
<1>2. Ran(j, w)
  BY <1>1, RunIs DEF Served, AInv
<1>3. Inv /\ Connected /\ TypeOK
  BY DEF AInv, Inv, TypeOK
<1>4. /\ j # HEAD /\ j - 1 \in Caller /\ Calling(j - 1)
      /\ UNCHANGED <<link, late, up, lost>>
      /\ work[j] = Idle /\ work'[j] # Idle /\ work'[j].write = w
      /\ work'[j - 1] # Idle /\ work'[j - 1].write = w /\ work'[j - 1].pc = "waiting"
      /\ w \in AnyWrite
  BY <1>1, <1>2 DEF Served, Ran
<1>5. /\ j - 1 \in Replica /\ j - 1 # j /\ j \in Nat /\ j - 1 \in Nat /\ j > 1 /\ j =< N
      /\ HEAD = 1 /\ HEAD \in Replica
  BY <1>4, Numbers DEF Replica
<1>6. \A k \in Replica \ {j, j - 1} : work'[k] = work[k]
  BY <1>1 DEF Served
<1>7. /\ Applied(store[j], w, Apply(store[j], w))
      /\ store'[j] = Apply(store[j], w).nodes
      /\ \A k \in Replica : k # j => store'[k] = store[k]
      /\ DOMAIN store[j] \subseteq DOMAIN store'[j]
      /\ ~s => store'[j] = store[j]
      /\ s <=> Valid(store[j], w) /\ ~DoneIn(store[j], w)
  BY <1>2 DEF Ran, Applied
<1>8. \A k \in Replica : \A x : k # j \/ x # e => (Holds(k, x)' <=> Holds(k, x))
  BY <1>7 DEF Applied, Holds
<1>9. /\ cut \subseteq cut' /\ (s /\ j # N /\ ~link[j] => e \in cut')
      /\ cut' \subseteq cut \cup {e}
  BY <1>1 DEF Served, Run
<1>10. /\ Calling(j)' <=> j # N /\ link[j] /\ s
       /\ ~Waiting(j)' /\ ~Calling(j - 1)' /\ Waiting(j - 1)' /\ ~Answered(j - 1)'
       /\ Answered(j)' <=> ~Calling(j)'
       /\ work'[j].ok <=> j = N /\ s
  <2> HIDE DEF s
  <2> QED
    BY <1>1, <1>2, <1>4 DEF Served, Ran, Calling, Waiting, Answered, s
<1> HIDE DEF s
\* The write comes down from the head, unless it was cut off.
<1>11. e \notin cut =>
         /\ \A k \in Replica : k < j - 1 => Waiting(k) /\ work[k].write = w
         /\ work[HEAD] # Idle /\ work[HEAD].write = w
  <2> SUFFICES ASSUME e \notin cut
               PROVE  /\ \A k \in Replica : k < j - 1 => Waiting(k) /\ work[k].write = w
                      /\ work[HEAD] # Idle /\ work[HEAD].write = w
    OBVIOUS
  <2>1. work[j - 1] # Idle
    BY <1>3, <1>4, <1>5, WorkIs DEF InCall
  <2>2. \A k \in Replica : k < j - 1 => Waiting(k) /\ work[k].write = w
    BY <1>5, <2>1 DEF AInv, InOrder, Cut
  <2>3. HEAD = j - 1 \/ HEAD < j - 1
    BY <1>5
  <2>4. HEAD < j - 1 => work[HEAD] # Idle
    BY <1>3, <1>5, <2>2, WorkIs DEF InCall
  <2> QED
    BY <1>5, <2>1, <2>2, <2>3, <2>4
\* Nobody else has just called with it, or answered.
<1>12. \A k \in Replica : /\ k # j - 1 /\ (Calling(k) \/ Answered(k))
                          /\ ~Cut(work[k].write)
                          => About(work[k].write) # e
  <2> SUFFICES ASSUME NEW k \in Replica, k # j - 1, Calling(k) \/ Answered(k),
                      e \notin cut, About(work[k].write) = e
               PROVE  FALSE
    BY DEF Cut
  <2>1. k \in Nat /\ (k < j - 1 \/ j - 1 < k)
    BY <1>5, Numbers
  <2>2. work[k] # Idle /\ ~Waiting(k)
    BY <1>3, WorkIs DEF InCall
  <2>3. ~Waiting(j - 1)
    BY <1>3, <1>4, <1>5, WorkIs
  <2> QED
    BY <1>5, <1>11, <2>1, <2>2, <2>3 DEF AInv, InOrder, Cut
<1>13. DownAreLost' /\ LinkedAreKept'
  BY <1>4 DEF AInv, DownAreLost, LinkedAreKept
<1>14. InOrder'
  <2>1. ASSUME NEW a \in Replica, NEW b \in Replica, work'[a] # Idle,
               About(work'[a].write) \notin cut', b < a
        PROVE  Waiting(b)' /\ work'[b].write = work'[a].write
    <3>1. a \in Nat /\ b \in Nat
      BY Numbers
    <3>2. CASE a = j \/ a = j - 1
      <4>1. e \notin cut /\ work'[a].write = w
        BY <1>4, <1>9, <2>1, <3>2
      <4>2. CASE b = j - 1
        BY <1>4, <1>10, <4>1, <4>2
      <4>3. CASE b # j - 1
        <5>1. b < j - 1
          BY <1>5, <2>1, <3>1, <3>2, <4>3
        <5>2. work'[b] = work[b]
          BY <1>5, <1>6, <3>1, <5>1
        <5> QED
          BY <1>11, <4>1, <5>1, <5>2 DEF Waiting
      <4> QED
        BY <4>2, <4>3
    <3>3. CASE a # j /\ a # j - 1
      <4>1. work'[a] = work[a]
        BY <1>6, <3>3
      <4>2. Waiting(b) /\ work[b].write = work[a].write
        BY <1>9, <2>1, <4>1 DEF AInv, InOrder, Cut
      <4>3. b # j /\ b # j - 1
        BY <1>3, <1>4, <1>5, <4>2, WorkIs DEF InCall
      <4> QED
        BY <1>6, <4>1, <4>2, <4>3 DEF Waiting
    <3> QED
      BY <3>2, <3>3
  <2> QED
    BY <1>4, <1>9, <2>1 DEF AInv, InOrder, Cut
<1>15. HeadLeast' /\ HeadAsked'
  <2>1. store'[HEAD] = store[HEAD]
    BY <1>4, <1>5, <1>7
  <2>2. \A k \in Replica : DOMAIN store[k] \subseteq DOMAIN store'[k]
    BY <1>7
  <2>3. \/ work'[HEAD].write = work[HEAD].write /\ work[HEAD] # Idle
        \/ work'[HEAD] = work[HEAD]
    <3>1. work[j - 1] # Idle
      BY <1>3, <1>4, <1>5, WorkIs DEF InCall
    <3> QED
      BY <1>4, <1>5, <1>6, <3>1
  <2> QED
    BY <1>4, <2>1, <2>2, <2>3 DEF AInv, HeadLeast, HeadAsked, Kept
<1>16. Proper'
  <2> SUFFICES ASSUME NEW k \in Replica,
                      (InCall(k)' /\ k # HEAD) \/ (Answered(k)' /\ work'[k].ok),
                      work'[k].write.op # "addNode"
               PROVE  work'[k].write.a # work'[k].write.b
    BY DEF Proper
  <2>1. CASE k = j
    BY <1>4, <1>7, <1>10, <2>1 DEF InCall, Valid
  <2>2. CASE k = j - 1
    BY <1>4, <1>5, <1>10, <2>2 DEF AInv, Proper, InCall
  <2>3. CASE k \notin {j, j - 1}
    BY <1>6, <2>3 DEF AInv, Proper, InCall, Calling, Waiting, Answered
  <2> QED
    BY <2>1, <2>2, <2>3
<1>17. AgreeElsewhere'
  <2> SUFFICES ASSUME NEW x, x \notin cut', ~Busy(x)', NEW a \in Kept, NEW b \in Kept
               PROVE  Holds(a, x)' <=> Holds(b, x)'
    BY <1>4 DEF AgreeElsewhere, Agree, Kept
  <2>1. Busy(x)' <=> Busy(x)
    <3>1. work[j - 1] # Idle
      BY <1>3, <1>4, <1>5, WorkIs DEF InCall
    <3> QED
      BY <1>4, <1>5, <1>6, <3>1 DEF Busy
  <2>2. x \notin cut
    BY <1>9
  <2>3. x # e
    BY <1>11, <2>1, <2>2 DEF Busy
  <2> QED
    BY <1>8, <2>1, <2>2, <2>3 DEF AInv, AgreeElsewhere, Agree, Kept
<1>18. AgreeAhead'
  <2> SUFFICES ASSUME NEW k \in Replica, Calling(k)', About(work'[k].write) \notin cut'
               PROVE  /\ Agree(Untried(k), About(work[k].write))'
                      /\ (\E m \in 2 .. k : m \notin lost') =>
                           \A u \in Untried(k)' : ~Done(u, work[k].write)'
    BY DEF AgreeAhead, Cut
  <2>1. CASE k = j
    <3>1. e \notin cut /\ s
      BY <1>4, <1>9, <1>10, <2>1
    <3>2. /\ Agree(Untried(j - 1), e)
          /\ (\E m \in 2 .. j - 1 : m \notin lost) =>
               \A u \in Untried(j - 1) : ~Done(u, w)
      BY <1>4, <1>5, <3>1 DEF AInv, AgreeAhead, Cut
    <3>3. \A u \in Untried(j)' : u \in Untried(j - 1) /\ u # j
      BY <1>4, <1>5, Numbers DEF Untried, Kept
    <3>4. \A u \in Untried(j)' : /\ Holds(u, e)' <=> Holds(u, e)
                                 /\ Done(u, w)' <=> Done(u, w)
      <4>1. \A u \in Untried(j)' : u \in Replica /\ store'[u] = store[u]
        BY <1>7, <3>3 DEF Untried, Kept
      <4> QED
        BY <1>4, <4>1 DEF Done, Holds
    <3>5. Agree(Untried(j), e)'
      BY <1>4, <3>2, <3>3, <3>4 DEF Agree
    <3>6. ASSUME \E m \in 2 .. j : m \notin lost, NEW u \in Untried(j)'
          PROVE  ~Done(u, w)
      <4>1. CASE j \notin lost
        <5>1. j \in Untried(j - 1)
          BY <1>5, <4>1, Numbers DEF Untried, Kept
        <5>2. ~DoneIn(store[j], w)
          BY <1>7, <3>1
        <5> QED
          BY <3>2, <3>3, <3>6, <5>1, <5>2 DEF Agree, Done, DoneIn, Holds
      <4>2. CASE j \in lost
        BY <1>5, <3>2, <3>3, <3>6, <4>2
      <4> QED
        BY <4>1, <4>2
    <3> QED
      BY <1>4, <2>1, <3>4, <3>5, <3>6
  <2>2. CASE k # j
    <3>1. k # j - 1
      BY <1>10
    <3>2. work'[k] = work[k] /\ Calling(k) /\ ~Cut(work[k].write)
      BY <1>6, <1>9, <2>2, <3>1 DEF Calling, Cut
    <3>3. About(work[k].write) # e
      BY <1>12, <3>1, <3>2
    <3>4. /\ Agree(Untried(k), About(work[k].write))
          /\ (\E m \in 2 .. k : m \notin lost) =>
               \A u \in Untried(k) : ~Done(u, work[k].write)
      BY <3>2 DEF AInv, AgreeAhead
    <3>5. Untried(k)' = Untried(k) /\ Untried(k) \subseteq Replica
      BY <1>4 DEF Untried, Kept
    <3>6. \A u \in Replica :
            /\ Holds(u, About(work[k].write))' <=> Holds(u, About(work[k].write))
            /\ Done(u, work[k].write)' <=> Done(u, work[k].write)
      BY <1>8, <3>2, <3>3 DEF Done, Holds
    <3> QED
      BY <1>4, <3>2, <3>4, <3>5, <3>6 DEF Agree, Holds
  <2> QED
    BY <2>1, <2>2
<1>19. AgreeAfterFailure'
  <2> SUFFICES ASSUME NEW k \in Replica, Answered(k)', ~work'[k].ok,
                      About(work'[k].write) \notin cut',
                      NEW a \in Kept, NEW b \in Kept
               PROVE  Holds(a, About(work[k].write))' <=> Holds(b, About(work[k].write))'
    BY <1>4 DEF AgreeAfterFailure, Cut, Agree, Kept
  <2>1. CASE k = j
    <3>1. e \notin cut /\ ~s
      BY <1>4, <1>9, <1>10, <2>1
    <3>2. /\ Agree(Untried(j - 1), e)
          /\ (\E m \in 2 .. j - 1 : m \notin lost) =>
               \A u \in Untried(j - 1) : ~Done(u, w)
      BY <1>4, <1>5, <3>1 DEF AInv, AgreeAhead, Cut
    <3>3. ASSUME NEW m \in 2 .. j - 1, m \notin lost
          PROVE  FALSE
      <4>1. m \in Replica /\ m < j /\ m # HEAD /\ m \in Nat
        BY <1>5, Numbers DEF Replica
      <4>2. \A n \in m .. j - 1 : link[n]
        <5> SUFFICES ASSUME NEW n \in m .. j - 1 PROVE link[n]
          OBVIOUS
        <5>1. n \in Replica /\ (n = j - 1 \/ n < j - 1)
          BY <1>5, <4>1, Numbers DEF Replica
        <5>2. InCall(n)
          BY <1>4, <1>11, <3>1, <5>1 DEF InCall
        <5> QED
          BY <1>3, <5>1, <5>2 DEF Connected
      <4>3. j \notin lost
        BY <3>3, <4>1, <4>2 DEF AInv, LinkedAreKept
      <4>4. j \in Untried(j - 1)
        BY <1>5, <4>3, Numbers DEF Untried, Kept
      <4>5. ~DoneIn(store[j], w)
        BY <3>2, <3>3, <4>4 DEF Done, DoneIn, Holds
      <4>6. w.op # "addNode" => w.a # w.b
        <5>1. InCall(m) /\ work[m].write = w
          BY <1>4, <1>5, <1>11, <3>1, <4>1 DEF InCall
        <5> QED
          BY <4>1, <5>1 DEF AInv, Proper
      <4>7. w.op # "addNode" => About(w) \subseteq DOMAIN store[j]
        BY <1>11, <3>1, <4>3 DEF AInv, HeadAsked, HeadLeast, Kept
      <4> QED
        BY <1>7, <3>1, <4>5, <4>6, <4>7 DEF Valid
    <3>4. \A u \in Kept : u \in Untried(j - 1)
      <4> SUFFICES ASSUME NEW u \in Kept, u # HEAD, ~(u \in (j - 1) + 1 .. N)
                   PROVE  FALSE
        BY DEF Untried
      <4>1. u \in 2 .. j - 1 /\ u \notin lost
        BY <1>5, Numbers DEF Kept, Replica
      <4> QED
        BY <3>3, <4>1
    <3>5. \A u \in Kept : Holds(u, e)' <=> Holds(u, e)
      <4>1. \A u \in Replica : store'[u] = store[u]
        BY <1>7, <3>1
      <4> QED
        BY <1>4, <4>1 DEF Holds, Kept
    <3> QED
      BY <1>4, <2>1, <3>2, <3>4, <3>5 DEF Agree
  <2>2. CASE k # j
    <3>1. k # j - 1
      BY <1>10
    <3>2. work'[k] = work[k] /\ Answered(k) /\ ~Cut(work[k].write)
      BY <1>6, <1>9, <2>2, <3>1 DEF Answered, Cut
    <3>3. About(work[k].write) # e
      BY <1>12, <3>1, <3>2
    <3> QED
      BY <1>8, <3>2, <3>3 DEF AInv, AgreeAfterFailure, Agree, Kept
  <2> QED
    BY <2>1, <2>2
<1>20. Inv'
  BY ServeKeeps DEF AInv
<1> QED
  BY <1>13, <1>14, <1>15, <1>16, <1>17, <1>18, <1>19, <1>20 DEF AInv

LEMMA RequestAgrees ==
  ASSUME AInv, NEW w \in AnyWrite, Request(w)
  PROVE  AInv'
<1>1. Requested(w)
  BY RequestIs DEF AInv
<1>2. Inv /\ TypeOK /\ HEAD \in Replica /\ HEAD = 1 /\ \A k \in Replica : k \in Nat /\ 1 =< k
  BY Numbers DEF AInv, Inv, Replica
<1>3. /\ UNCHANGED <<store, link, late, up, cut, lost>> /\ work[HEAD] = Idle
      /\ \A k \in Replica : k # HEAD => work'[k] = work[k]
      /\ work'[HEAD] # Idle /\ work'[HEAD].write = w /\ ~work'[HEAD].ok
      /\ ~Waiting(HEAD)'
  BY <1>1 DEF Requested, Waiting
\* Nobody is at work on a write that was not cut off.
<1>4. \A k \in Replica : work[k] # Idle => Cut(work[k].write)
  <2> SUFFICES ASSUME NEW k \in Replica, work[k] # Idle, ~Cut(work[k].write)
               PROVE  FALSE
    OBVIOUS
  <2>1. HEAD < k
    BY <1>2, <1>3
  <2>2. Waiting(HEAD)
    BY <1>2, <2>1 DEF AInv, InOrder
  <2> QED
    BY <1>2, <1>3, <2>2, WorkIs DEF InCall
<1>5. \A x : ~Busy(x)
  BY <1>3 DEF Busy
<1>6. \A x : x \notin cut => Agree(Kept, x)
  BY <1>5 DEF AInv, AgreeElsewhere
<1>7. \A x : Agree(Kept, x)' <=> Agree(Kept, x)
  BY <1>3 DEF Agree, Kept, Holds
<1>8. DownAreLost' /\ LinkedAreKept' /\ HeadLeast'
  BY <1>3 DEF AInv, DownAreLost, LinkedAreKept, HeadLeast, Kept
<1>9. InOrder'
  <2>1. ASSUME NEW a \in Replica, NEW b \in Replica, work'[a] # Idle,
               About(work'[a].write) \notin cut', b < a
        PROVE  FALSE
    <3>1. a # HEAD
      BY <1>2, <2>1
    <3>2. work'[a] = work[a] /\ cut' = cut
      BY <1>3, <3>1
    <3> QED
      BY <1>4, <2>1, <3>2 DEF Cut
  <2> QED
    BY <1>3, <2>1 DEF AInv, InOrder, Cut
<1>10. HeadAsked'
  BY <1>3 DEF HeadAsked, Request, About
<1>11. Proper'
  BY <1>3 DEF AInv, Proper, InCall, Calling, Waiting, Answered
<1>12. AgreeElsewhere'
  BY <1>3, <1>6, <1>7 DEF AgreeElsewhere
<1>13. AgreeAhead'
  <2> SUFFICES ASSUME NEW k \in Replica, Calling(k)', About(work'[k].write) \notin cut'
               PROVE  /\ Agree(Untried(k), About(work[k].write))'
                      /\ ~\E m \in 2 .. k : m \notin lost'
    BY DEF AgreeAhead, Cut
  <2>1. k = HEAD
    <3> SUFFICES ASSUME k # HEAD PROVE FALSE
      OBVIOUS
    <3>1. Calling(k) /\ ~Cut(work[k].write)
      BY <1>3 DEF Calling, Cut
    <3> QED
      BY <1>2, <1>4, <3>1, WorkIs DEF InCall
  <2>2. Agree(Kept, About(w))'
    BY <1>3, <1>6, <1>7, <2>1 DEF Cut
  <2> QED
    BY <1>2, <1>3, <2>1, <2>2 DEF Agree, Untried
<1>14. AgreeAfterFailure'
  BY <1>3, <1>6, <1>7 DEF AgreeAfterFailure, Cut, Agree
<1>15. Inv'
  BY RequestKeeps DEF AInv
<1> QED
  BY <1>8, <1>9, <1>10, <1>11, <1>12, <1>13, <1>14, <1>15 DEF AInv

LEMMA ServeLateAgrees ==
  ASSUME AInv, NEW j \in Replica, ServeLate(j)
  PROVE  AInv'
<1> DEFINE w == Head(late[j])
           s == Apply(store[j], w).status = "SUCCESS"
<1>1. ServedLate(j)
  BY ServeLateIs DEF AInv
<1>2. Ran(j, w)
  BY <1>1, RunIs DEF ServedLate, AInv
<1>3. Inv /\ TypeOK /\ HEAD \in Replica /\ \A k \in Replica : k \in Nat
  BY Numbers DEF AInv, Inv
<1>4. late[j] \in Seq(AnyWrite) /\ late[j] # <<>>
  BY <1>1, <1>3 DEF TypeOK, ServedLate
<1>5. /\ Cut(w)
      /\ \A n \in DOMAIN late'[j] : Cut(late'[j][n])
  BY <1>1, <1>4 DEF ServedLate, AInv, InOrder
<1>6. PICK v : v = w
  OBVIOUS
<1>7. About(v) \in cut
  BY <1>5, <1>6 DEF Cut
<1>8. /\ j # HEAD /\ UNCHANGED <<link, up, lost>>
      /\ \A k \in Replica : k # j => work'[k] = work[k] /\ late'[k] = late[k]
      /\ work[j] = Idle /\ work'[j] # Idle /\ work'[j].write = v
      /\ cut \subseteq cut'
  BY <1>1, <1>2, <1>6 DEF ServedLate, Ran, Run
<1>9. /\ \A k \in Replica : k # j => store'[k] = store[k]
      /\ DOMAIN store[j] \subseteq DOMAIN store'[j]
      /\ \A x : x # About(v) => (x \in Elements(store'[j]) <=> x \in Elements(store[j]))
      /\ s => Valid(store[j], v)
      /\ InCall(j)' \/ (Answered(j)' /\ work'[j].ok) => s
  <2> HIDE DEF w
  <2>1. /\ \A k \in Replica : k # j => store'[k] = store[k]
        /\ DOMAIN store[j] \subseteq DOMAIN store'[j]
        /\ \A x : x # About(w) => (x \in Elements(store'[j]) <=> x \in Elements(store[j]))
        /\ s => Valid(store[j], w)
    BY <1>2 DEF Ran, Applied
  <2>2. work'[j] = CarryOn(j, w)
    BY <1>1 DEF ServedLate, w
  <2> HIDE DEF s
  <2>3. InCall(j)' \/ (Answered(j)' /\ work'[j].ok) => s
    BY <1>2, <2>2 DEF Ran, InCall, Calling, Waiting, Answered, s
  <2> QED
    BY <1>6, <2>1, <2>3
<1> HIDE DEF w, s
<1>10. \A k, x : k \in Replica /\ x \notin cut => (Holds(k, x)' <=> Holds(k, x))
  BY <1>7, <1>9 DEF Holds
<1>11. DownAreLost' /\ LinkedAreKept'
  BY <1>8 DEF AInv, DownAreLost, LinkedAreKept
<1>12. InOrder'
  <2>1. ASSUME NEW a \in Replica, NEW b \in Replica, work'[a] # Idle,
               About(work'[a].write) \notin cut', b < a
        PROVE  Waiting(b)' /\ work'[b].write = work'[a].write
    <3>1. a # j
      BY <1>7, <1>8, <2>1
    <3>2. Waiting(b) /\ work[b].write = work[a].write /\ work'[a] = work[a]
      BY <1>8, <2>1, <3>1 DEF AInv, InOrder, Cut
    <3>3. b # j
      BY <1>3, <1>8, <3>2, WorkIs DEF InCall
    <3> QED
      BY <1>8, <3>2, <3>3 DEF Waiting
  <2>2. ASSUME NEW a \in Replica, NEW n \in DOMAIN late'[a]
        PROVE  About(late'[a][n]) \in cut'
    BY <1>5, <1>8 DEF AInv, InOrder, Cut
  <2> QED
    BY <2>1, <2>2 DEF InOrder, Cut
<1>13. HeadLeast' /\ HeadAsked'
  BY <1>3, <1>8, <1>9 DEF AInv, HeadLeast, HeadAsked, Kept
<1>14. Proper'
  <2>1. CASE InCall(j)' \/ (Answered(j)' /\ work'[j].ok)
    <3>1. v.op # "addNode" => v.a # v.b
      BY <1>9, <2>1 DEF Valid
    <3> QED
      BY <1>8, <3>1 DEF AInv, Proper, InCall, Calling, Waiting, Answered
  <2>2. CASE ~(InCall(j)' \/ (Answered(j)' /\ work'[j].ok))
    BY <1>8, <2>2 DEF AInv, Proper, InCall, Calling, Waiting, Answered
  <2> QED
    BY <2>1, <2>2
<1>15. AgreeElsewhere'
  <2> SUFFICES ASSUME NEW x, x \notin cut, ~Busy(x), NEW a \in Kept, NEW b \in Kept
               PROVE  Holds(a, x)' <=> Holds(b, x)'
    BY <1>3, <1>8 DEF AgreeElsewhere, Agree, Kept, Busy
  <2> QED
    BY <1>10 DEF AInv, AgreeElsewhere, Agree, Kept
<1>16. AgreeAhead'
  <2> SUFFICES ASSUME NEW k \in Replica, Calling(k)', About(work'[k].write) \notin cut'
               PROVE  /\ Agree(Untried(k), About(work[k].write))'
                      /\ (\E m \in 2 .. k : m \notin lost') =>
                           \A u \in Untried(k)' : ~Done(u, work[k].write)'
    BY DEF AgreeAhead, Cut
  <2>1. k # j
    BY <1>7, <1>8
  <2>2. work'[k] = work[k] /\ Calling(k) /\ ~Cut(work[k].write)
    BY <1>8, <2>1 DEF Calling, Cut
  <2>3. /\ Agree(Untried(k), About(work[k].write))
        /\ (\E m \in 2 .. k : m \notin lost) =>
             \A u \in Untried(k) : ~Done(u, work[k].write)
    BY <2>2 DEF AInv, AgreeAhead
  <2>4. Untried(k)' = Untried(k) /\ Untried(k) \subseteq Replica
    BY <1>8 DEF Untried, Kept
  <2>5. \A u \in Replica :
          /\ Holds(u, About(work[k].write))' <=> Holds(u, About(work[k].write))
          /\ Done(u, work[k].write)' <=> Done(u, work[k].write)
    BY <1>10, <2>2 DEF Done, Holds, Cut
  <2> QED
    BY <1>8, <2>2, <2>3, <2>4, <2>5 DEF Agree, Holds
<1>17. AgreeAfterFailure'
  <2> SUFFICES ASSUME NEW k \in Replica, Answered(k)', ~work'[k].ok,
                      About(work'[k].write) \notin cut',
                      NEW a \in Kept, NEW b \in Kept
               PROVE  Holds(a, About(work[k].write))' <=> Holds(b, About(work[k].write))'
    BY <1>8 DEF AgreeAfterFailure, Cut, Agree, Kept
  <2>1. k # j
    BY <1>7, <1>8
  <2>2. work'[k] = work[k] /\ Answered(k) /\ ~Cut(work[k].write)
    BY <1>8, <2>1 DEF Answered, Cut
  <2>3. Agree(Kept, About(work[k].write))
    BY <2>1, <2>2 DEF AInv, AgreeAfterFailure
  <2> QED
    BY <1>10, <2>2, <2>3 DEF Agree, Kept, Holds, Cut
<1>18. Inv'
  BY ServeLateKeeps DEF AInv
<1> QED
  BY <1>11, <1>12, <1>13, <1>14, <1>15, <1>16, <1>17, <1>18 DEF AInv

LEMMA AnswerAgrees ==
  ASSUME AInv, NEW j \in Replica, Answer(j)
  PROVE  AInv'
<1>1. HasAnswered(j)
  BY AnswerIs DEF AInv
<1>2. Inv /\ TypeOK /\ Aligned
  BY DEF AInv, Inv
<1>3. /\ j # HEAD /\ j - 1 \in Caller /\ Answered(j) /\ work'[j] = Idle
      /\ UNCHANGED <<store, link, late, up, cut, lost>>
  BY <1>1 DEF HasAnswered
<1>4. j - 1 \in Replica /\ j - 1 # j /\ (j - 1) + 1 = j /\ j - 1 < j /\ j \in Nat /\ j - 1 \in Nat
      /\ HEAD \in Replica /\ \A k \in Replica : k \in Nat
  BY <1>3, Numbers
<1>5. work[j] # Idle /\ ~Waiting(j) /\ ~InCall(j)
  BY <1>2, <1>3, WorkIs DEF InCall
<1>6. \A k \in Replica :
        /\ InCall(k)' => k # j /\ InCall(k) /\ work'[k] = work[k]
        /\ Calling(k)' => k # j /\ Calling(k) /\ work'[k] = work[k]
        /\ Answered(k)' => k # j /\ ((k = j - 1 /\ Waiting(k)) \/ work'[k] = work[k])
        /\ k # j /\ (k # j - 1 \/ ~Waiting(k)) => work'[k] = work[k]
        /\ work'[k] # Idle => k # j /\ work[k] # Idle /\ work'[k].write = work[k].write
        /\ k # j /\ work[k] # Idle => work'[k] # Idle
        /\ k = j - 1 /\ Waiting(k) => work'[k].ok = work[j].ok
  <2>1. Idle.pc = "idle"
    BY DEF Idle
  <2>2. work[j - 1] = Idle => ~Waiting(j - 1)
    BY <1>2, <1>4, WorkIs DEF InCall
  <2> QED
    BY <1>1, <1>3, <1>4, <2>1, <2>2
    DEF HasAnswered, InCall, Calling, Waiting, Answered
<1>7. Waiting(j - 1) => work[j].write = work[j - 1].write
  BY <1>2, <1>3, <1>4 DEF Aligned
<1>8. DownAreLost' /\ LinkedAreKept' /\ HeadLeast'
  BY <1>3 DEF AInv, DownAreLost, LinkedAreKept, HeadLeast, Kept
<1>9. \A x : Busy(x)' <=> Busy(x)
  BY <1>3, <1>4, <1>6 DEF Busy
<1>10. InOrder'
  <2>1. ASSUME NEW a \in Replica, NEW b \in Replica, work'[a] # Idle,
               About(work'[a].write) \notin cut', b < a
        PROVE  Waiting(b)' /\ work'[b].write = work'[a].write
    <3>1. work[a] # Idle /\ ~Cut(work[a].write) /\ work'[a].write = work[a].write /\ a # j
      BY <1>3, <1>6, <2>1 DEF Cut
    <3>2. \A k \in Replica : k < a => Waiting(k) /\ work[k].write = work[a].write
      BY <3>1 DEF AInv, InOrder
    <3>3. a < j
      <4>1. ~(j < a)
        BY <1>5, <3>2
      <4>2. a \in Nat /\ j \in Nat /\ a # j
        BY <1>4, <3>1
      <4> QED
        BY <4>1, <4>2
    <3>4. b # j /\ b # j - 1
      BY <1>4, <2>1, <3>3
    <3>5. work'[b] = work[b]
      BY <1>6, <3>4
    <3> QED
      BY <2>1, <3>1, <3>2, <3>5 DEF Waiting
  <2> QED
    BY <1>3, <2>1 DEF AInv, InOrder, Cut
<1>11. HeadAsked'
  BY <1>3, <1>4, <1>6 DEF AInv, HeadAsked
<1>12. Proper'
  <2> SUFFICES ASSUME NEW k \in Replica,
                      (InCall(k)' /\ k # HEAD) \/ (Answered(k)' /\ work'[k].ok),
                      work'[k].write.op # "addNode"
               PROVE  work'[k].write.a # work'[k].write.b
    BY DEF Proper
  <2>1. CASE work'[k] = work[k]
    BY <2>1 DEF AInv, Proper, InCall, Calling, Waiting, Answered
  <2>2. CASE work'[k] # work[k]
    <3>1. k = j - 1 /\ Waiting(k) /\ Answered(k)' /\ work[j].ok
      BY <1>6, <2>2
    <3>2. work'[k].write = work[j].write
      BY <1>1, <1>7, <3>1 DEF HasAnswered
    <3> QED
      BY <1>3, <3>1, <3>2 DEF AInv, Proper
  <2> QED
    BY <2>1, <2>2
<1>13. AgreeElsewhere'
  BY <1>3, <1>9 DEF AInv, AgreeElsewhere, Agree, Kept, Holds
<1>14. AgreeAhead'
  <2> SUFFICES ASSUME NEW k \in Replica, Calling(k)', About(work'[k].write) \notin cut'
               PROVE  /\ Agree(Untried(k), About(work[k].write))'
                      /\ (\E m \in 2 .. k : m \notin lost') =>
                           \A u \in Untried(k)' : ~Done(u, work[k].write)'
    BY DEF AgreeAhead, Cut
  <2>1. work'[k] = work[k] /\ Calling(k) /\ ~Cut(work[k].write)
    BY <1>3, <1>6 DEF Cut
  <2> QED
    BY <1>3, <2>1 DEF AInv, AgreeAhead, Agree, Untried, Kept, Done, Holds
<1>15. AgreeAfterFailure'
  <2> SUFFICES ASSUME NEW k \in Replica, Answered(k)', ~work'[k].ok,
                      About(work'[k].write) \notin cut
               PROVE  Agree(Kept, About(work'[k].write))
    BY <1>3 DEF AgreeAfterFailure, Cut, Agree, Kept, Holds
  <2>1. CASE work'[k] = work[k]
    BY <2>1 DEF AInv, AgreeAfterFailure, Answered, Cut
  <2>2. CASE work'[k] # work[k]
    <3>1. k = j - 1 /\ Waiting(k) /\ ~work[j].ok
      BY <1>6, <2>2
    <3>2. work'[k].write = work[j].write
      BY <1>1, <1>7, <3>1 DEF HasAnswered
    <3> QED
      BY <1>3, <3>1, <3>2 DEF AInv, AgreeAfterFailure, Cut
  <2> QED
    BY <2>1, <2>2
<1>16. Inv'
  BY AnswerKeeps DEF AInv
<1> QED
  BY <1>8, <1>10, <1>11, <1>12, <1>13, <1>14, <1>15, <1>16 DEF AInv

LEMMA FinishAgrees ==
  ASSUME AInv, Finish
  PROVE  AInv'
<1> DEFINE w == work[HEAD].write
<1>1. Finished
  BY FinishIs DEF AInv
<1>2. Inv /\ TypeOK /\ CommittedOn /\ Stores
  BY DEF AInv, Inv
<1>3. HEAD \in Replica /\ HEAD = 1 /\ \A k \in Replica : k \in Nat /\ 1 =< k /\ k =< N
  BY Numbers DEF Replica
<1>4. /\ Answered(HEAD) /\ work'[HEAD] = Idle
      /\ \A k \in Replica : k # HEAD => work'[k] = work[k] /\ store'[k] = store[k]
      /\ UNCHANGED <<link, late, up, cut, lost>>
  BY <1>1 DEF Finished
<1>5. PICK v : v = w /\ v \in AnyWrite
  BY <1>2, <1>3, <1>4, WorkIs DEF Finished
<1>6. /\ work[HEAD] # Idle /\ ~Waiting(HEAD) /\ ~Calling(HEAD)
  BY <1>2, <1>3, <1>4, WorkIs DEF InCall
<1>7. \A x : ~Busy(x)' /\ (Busy(x) <=> x = About(v))
  BY <1>4, <1>5, <1>6 DEF Busy
<1>8. \A k \in Replica : k # HEAD /\ work[k] # Idle => Cut(work[k].write)
  BY <1>3, <1>6 DEF AInv, InOrder
<1>9. \A k \in Replica : \A x : k # HEAD \/ x # About(v) => (Holds(k, x)' <=> Holds(k, x))
  BY <1>1, <1>4, <1>5 DEF Finished, Applied, Holds
<1>10. /\ ~work[HEAD].ok => store'[HEAD] = store[HEAD]
       /\ store'[HEAD] # store[HEAD] => DoneIn(store'[HEAD], v)
       /\ work[HEAD].ok /\ Valid(store[HEAD], v) => DoneIn(store'[HEAD], v)
       /\ Good(store'[HEAD]) /\ Good(store[HEAD])
  <2>1. DoneIn(store[HEAD], v) /\ store'[HEAD] = store[HEAD] => DoneIn(store'[HEAD], v)
    OBVIOUS
  <2> QED
    BY <1>1, <1>2, <1>3, <1>5, <2>1 DEF Finished, Applied, Stores
<1>11. work[HEAD].ok => \A k \in Kept : k # HEAD => Done(k, v)
  <2> SUFFICES ASSUME work[HEAD].ok, NEW k \in Kept, k # HEAD
               PROVE  Done(k, w)
    BY <1>5 DEF Done
  <2>1. k \in (HEAD .. N) \ (lost \cup {HEAD})
    BY <1>3, Numbers DEF Kept, Replica
  <2> QED
    BY <1>2, <1>3, <1>4, <2>1 DEF CommittedOn
<1>12. DownAreLost' /\ LinkedAreKept'
  BY <1>4 DEF AInv, DownAreLost, LinkedAreKept
<1>13. InOrder'
  <2>1. ASSUME NEW a \in Replica, work'[a] # Idle, About(work'[a].write) \notin cut'
        PROVE  FALSE
    BY <1>4, <1>8, <2>1 DEF Cut
  <2> QED
    BY <1>4, <2>1 DEF AInv, InOrder, Cut
<1>14. HeadLeast'
  <2> SUFFICES ASSUME NEW j \in Kept, j # HEAD, NEW n \in DOMAIN store'[HEAD],
                      n \notin DOMAIN store[HEAD]
               PROVE  n \in DOMAIN store[j]
    BY <1>3, <1>4 DEF AInv, HeadLeast, Kept
  <2>1. {n} \in Elements(store'[HEAD])
    BY DEF Elements
  <2>2. {n} \notin Elements(store[HEAD])
    BY <1>10, LinksArePairs DEF Elements
  <2>3. {n} = About(v) /\ work[HEAD].ok /\ DoneIn(store'[HEAD], v)
    BY <1>3, <1>9, <1>10, <2>1, <2>2 DEF Holds
  <2>4. {n} \in Elements(store[j])
    BY <1>11, <2>1, <2>3 DEF Done, DoneIn, Holds
  <2>5. Good(store[j])
    BY <1>2 DEF Stores, Kept
  <2> QED
    BY <2>4, <2>5, LinksArePairs DEF Elements
<1>15. HeadAsked'
  BY <1>4 DEF HeadAsked
<1>16. Proper'
  <2>1. Idle.pc = "idle"
    BY DEF Idle
  <2> QED
    BY <1>4, <2>1 DEF AInv, Proper, InCall, Calling, Waiting, Answered
<1>17. AgreeElsewhere'
  <2> SUFFICES ASSUME NEW x, x \notin cut, NEW a \in Kept, NEW b \in Kept
               PROVE  Holds(a, x)' <=> Holds(b, x)'
    BY <1>4 DEF AgreeElsewhere, Agree, Kept
  <2>1. CASE x # About(v)
    BY <1>7, <1>9, <2>1 DEF AInv, AgreeElsewhere, Agree, Kept
  <2>2. CASE x = About(v) /\ ~work[HEAD].ok
    <3>1. Agree(Kept, x)
      BY <1>3, <1>4, <1>5, <2>2 DEF AInv, AgreeAfterFailure, Cut
    <3>2. \A k \in Replica : store'[k] = store[k]
      BY <1>4, <1>10, <2>2
    <3> QED
      BY <3>1, <3>2 DEF Agree, Kept, Holds
  <2>3. CASE x = About(v) /\ work[HEAD].ok
    <3>1. ASSUME HEAD \notin lost PROVE DoneIn(store'[HEAD], v)
      BY <1>3, <1>4, <1>5, <1>6, <1>10, <2>3
      DEF AInv, Proper, HeadAsked, Valid
    <3>2. \A k \in Kept : Done(k, v)'
      BY <1>4, <1>11, <2>3, <3>1 DEF Kept, Done, DoneIn, Holds
    <3> QED
      BY <2>3, <3>2 DEF Done, Kept
  <2> QED
    BY <2>1, <2>2, <2>3
<1>18. AgreeAhead' /\ AgreeAfterFailure'
  <2>1. Idle.pc = "idle"
    BY DEF Idle
  <2>2. \A k \in Replica : Calling(k)' \/ Answered(k)' =>
                             Cut(work[k].write) /\ work'[k] = work[k]
    <3> SUFFICES ASSUME NEW k \in Replica, Calling(k)' \/ Answered(k)'
                 PROVE  Cut(work[k].write) /\ work'[k] = work[k]
      OBVIOUS
    <3>1. k # HEAD /\ work'[k] = work[k] /\ (Calling(k) \/ Answered(k))
      BY <1>4, <2>1 DEF Calling, Answered
    <3> QED
      BY <1>2, <1>8, <3>1, WorkIs DEF InCall
  <2> QED
    BY <1>4, <2>2 DEF AgreeAhead, AgreeAfterFailure, Cut
<1>19. Inv'
  BY FinishKeeps DEF AInv
<1> QED
  BY <1>12, <1>13, <1>14, <1>15, <1>16, <1>17, <1>18, <1>19 DEF AInv

LEMMA DisconnectAgrees ==
  ASSUME AInv, NEW i \in Caller, Disconnect(i)
  PROVE  AInv'
<1>1. Disconnected(i)
  BY DisconnectIs DEF AInv
<1>2. Inv /\ TypeOK /\ HEAD \in Replica /\ i \in Replica /\ i + 1 \in Replica
      /\ \A k \in Replica : k \in Nat
  BY Numbers DEF AInv, Inv
<1>3. /\ UNCHANGED <<store, up, lost>>
      /\ \A k \in Caller : link'[k] => link[k]
      /\ \A k \in Replica : k # i + 1 => late'[k] = late[k]
      /\ late'[i + 1] # late[i + 1] =>
           Calling(i) /\ late'[i + 1] = Append(late[i + 1], work[i].write)
      /\ cut \subseteq cut' /\ (InCall(i) => About(work[i].write) \in cut')
  BY <1>1, <1>2 DEF Disconnected, CutOff, TypeOK
<1>4. \A k \in Replica :
        /\ k # i \/ ~InCall(i) => work'[k] = work[k]
        /\ InCall(k)' => InCall(k) /\ work'[k] = work[k]
        /\ Calling(k)' => Calling(k) /\ work'[k] = work[k]
        /\ work'[k].write = work[k].write
        /\ work'[k] = Idle <=> work[k] = Idle
        /\ Answered(k)' /\ (work'[k].ok \/ About(work[k].write) \notin cut') =>
             Answered(k) /\ work'[k] = work[k]
  <2>1. CASE InCall(i)
    <3>1. work[i] # Idle
      BY <1>2, <2>1, WorkIs
    <3> QED
      BY <1>1, <1>2, <1>3, <2>1, <3>1 DEF Disconnected, InCall, Calling, Waiting, Answered
  <2>2. CASE ~InCall(i)
    <3>1. \A k \in Replica : work'[k] = work[k]
      BY <1>1, <2>2 DEF Disconnected
    <3> QED
      BY <1>2, <2>2, <3>1 DEF InCall, Calling, Waiting, Answered
  <2> QED
    BY <2>1, <2>2
<1>5. DownAreLost' /\ HeadLeast'
  BY <1>3 DEF AInv, DownAreLost, HeadLeast, Kept
<1>6. LinkedAreKept'
  <2> SUFFICES ASSUME NEW a \in Replica, NEW b \in Replica, a < b, a \notin lost,
                      \A k \in a .. b - 1 : link'[k]
               PROVE  b \notin lost
    BY <1>3 DEF LinkedAreKept
  <2>1. \A k \in a .. b - 1 : k \in Caller
    BY Numbers DEF Replica, Caller
  <2> QED
    BY <1>3, <2>1 DEF AInv, LinkedAreKept
<1>7. InOrder'
  <2>1. ASSUME NEW a \in Replica, NEW b \in Replica, work'[a] # Idle,
               About(work'[a].write) \notin cut', b < a
        PROVE  Waiting(b)' /\ work'[b].write = work'[a].write
    <3>1. work[a] # Idle /\ work'[a].write = work[a].write /\ ~Cut(work[a].write)
      BY <1>3, <1>4, <2>1 DEF Cut
    <3>2. Waiting(b) /\ work[b].write = work[a].write
      BY <2>1, <3>1 DEF AInv, InOrder
    <3>3. b # i
      BY <1>3, <2>1, <3>1, <3>2 DEF InCall
    <3> QED
      BY <1>4, <3>1, <3>2, <3>3 DEF Waiting
  <2>2. ASSUME NEW a \in Replica, NEW n \in DOMAIN late'[a]
        PROVE  About(late'[a][n]) \in cut'
    <3>1. \A k \in Replica : \A m \in DOMAIN late[k] : About(late[k][m]) \in cut'
      BY <1>3 DEF AInv, InOrder, Cut
    <3>2. CASE late'[a] = late[a]
      BY <3>1, <3>2
    <3>3. CASE late'[a] # late[a]
      <4>1. a = i + 1 /\ Calling(i) /\ late'[a] = Append(late[a], work[i].write)
        BY <1>3, <3>3
      <4>2. late[a] \in Seq(AnyWrite) /\ work[i].write \in AnyWrite
        BY <1>2, <4>1, WorkIs DEF TypeOK, InCall
      <4>3. late'[a][n] = work[i].write \/ (n \in DOMAIN late[a] /\ late'[a][n] = late[a][n])
        BY <4>1, <4>2
      <4> QED
        BY <1>3, <3>1, <4>1, <4>3 DEF InCall
    <3> QED
      BY <3>2, <3>3
  <2> QED
    BY <2>1, <2>2 DEF InOrder, Cut
<1>8. HeadAsked'
  BY <1>2, <1>3, <1>4 DEF AInv, HeadAsked
<1>9. Proper'
  BY <1>4 DEF AInv, Proper
<1>10. AgreeElsewhere'
  <2>1. \A x : Busy(x)' <=> Busy(x)
    BY <1>2, <1>4 DEF Busy
  <2> QED
    BY <1>3, <2>1 DEF AInv, AgreeElsewhere, Agree, Kept, Holds
<1>11. AgreeAhead'
  <2> SUFFICES ASSUME NEW k \in Replica, Calling(k)', About(work'[k].write) \notin cut'
               PROVE  /\ Agree(Untried(k), About(work[k].write))'
                      /\ (\E m \in 2 .. k : m \notin lost') =>
                           \A u \in Untried(k)' : ~Done(u, work[k].write)'
    BY DEF AgreeAhead, Cut
  <2>1. work'[k] = work[k] /\ Calling(k) /\ ~Cut(work[k].write)
    BY <1>3, <1>4 DEF Cut
  <2> QED
    BY <1>3, <2>1 DEF AInv, AgreeAhead, Agree, Untried, Kept, Done, Holds
<1>12. AgreeAfterFailure'
  <2> SUFFICES ASSUME NEW k \in Replica, Answered(k)', ~work'[k].ok,
                      About(work'[k].write) \notin cut'
               PROVE  Agree(Kept, About(work'[k].write))
    BY <1>3 DEF AgreeAfterFailure, Cut, Agree, Kept, Holds
  <2>1. work'[k] = work[k] /\ Answered(k) /\ ~Cut(work[k].write)
    BY <1>3, <1>4 DEF Cut
  <2> QED
    BY <2>1 DEF AInv, AgreeAfterFailure
<1>13. Inv'
  BY DisconnectKeeps DEF AInv
<1> QED
  BY <1>5, <1>6, <1>7, <1>8, <1>9, <1>10, <1>11, <1>12, <1>13 DEF AInv

LEMMA CrashAgrees ==
  ASSUME AInv, NEW j \in Replica, Crash(j)
  PROVE  AInv'
<1>1. Crashed(j)
  BY CrashIs DEF AInv
<1>2. Inv /\ TypeOK /\ Connected /\ CommittedOn /\ HEAD \in Replica /\ HEAD = 1
      /\ \A k \in Replica : k \in Nat /\ 1 =< k
  BY Numbers DEF AInv, Inv, TypeOK, Replica
<1>3. /\ up' = up \ {j} /\ lost' = lost \cup {j} /\ late'[j] = <<>> /\ work'[j] = Idle
      /\ \A k \in Replica : k # j => store'[k] = store[k]
      /\ store'[j] = EmptyGraph
      /\ \A k \in Replica : k # j /\ k # j + 1 => late'[k] = late[k]
  BY <1>1, <1>2 DEF Crashed, TypeOK
<1>4. \A k \in Caller : link'[k] <=> k \notin {j - 1, j} /\ link[k]
  BY <1>1 DEF Crashed
<1>5. /\ cut \subseteq cut'
      /\ \A k \in Caller : k \in {j - 1, j} /\ InCall(k) => About(work[k].write) \in cut'
  BY <1>1 DEF Crashed, CutOff
<1>6. \A k \in Replica : InCall(k) => k \in Caller
  BY <1>2, Numbers DEF Connected
<1>7. \A k \in Replica :
        /\ k # j /\ ~(k = j - 1 /\ InCall(k)) => work'[k] = work[k]
        /\ InCall(k)' => k # j /\ InCall(k) /\ work'[k] = work[k]
        /\ Calling(k)' => k # j /\ Calling(k) /\ work'[k] = work[k]
        /\ k # j => work'[k].write = work[k].write
        /\ k # j => (work'[k] = Idle <=> work[k] = Idle)
        /\ Answered(k)' => k # j
        /\ Answered(k)' /\ (work'[k].ok \/ About(work[k].write) \notin cut') =>
             Answered(k) /\ work'[k] = work[k]
  <2> SUFFICES ASSUME NEW k \in Replica
               PROVE  /\ k # j /\ ~(k = j - 1 /\ InCall(k)) => work'[k] = work[k]
                      /\ InCall(k)' => k # j /\ InCall(k) /\ work'[k] = work[k]
                      /\ Calling(k)' => k # j /\ Calling(k) /\ work'[k] = work[k]
                      /\ k # j => work'[k].write = work[k].write
                      /\ k # j => (work'[k] = Idle <=> work[k] = Idle)
                      /\ Answered(k)' => k # j
                      /\ Answered(k)' /\ (work'[k].ok \/ About(work[k].write) \notin cut') =>
                           Answered(k) /\ work'[k] = work[k]
    OBVIOUS
  <2>1. CASE k = j
    <3>1. Idle.pc = "idle"
      BY DEF Idle
    <3> QED
      BY <1>3, <2>1, <3>1 DEF InCall, Calling, Waiting, Answered
  <2>2. CASE k # j /\ k = j - 1 /\ InCall(k)
    <3>1. work[k] # Idle /\ About(work[k].write) \in cut'
      BY <1>2, <1>5, <1>6, <2>2, WorkIs
    <3>2. /\ work'[k] # Idle /\ work'[k].pc = "answered"
          /\ work'[k].write = work[k].write /\ ~work'[k].ok
      BY <1>1, <2>2 DEF Crashed
    <3> QED
      BY <2>2, <3>1, <3>2 DEF InCall, Calling, Waiting, Answered
  <2>3. CASE k # j /\ ~(k = j - 1 /\ InCall(k))
    <3>1. work'[k] = work[k]
      BY <1>1, <2>3 DEF Crashed
    <3> QED
      BY <2>3, <3>1 DEF InCall, Calling, Waiting, Answered
  <2> QED
    BY <2>1, <2>2, <2>3
<1>8. /\ \A k \in Kept' : k \in Kept /\ k # j /\ k \in Replica
      /\ \A k \in Kept' : \A x : Holds(k, x)' <=> Holds(k, x)
  BY <1>3 DEF Kept, Holds
<1>9. DownAreLost'
  BY <1>3 DEF AInv, DownAreLost
<1>10. LinkedAreKept'
  <2> SUFFICES ASSUME NEW a \in Replica, NEW b \in Replica, a < b, a \notin lost',
                      \A k \in a .. b - 1 : link'[k]
               PROVE  b \notin lost'
    BY DEF LinkedAreKept
  <2>1. \A k \in a .. b - 1 : k \in Caller
    BY Numbers DEF Replica, Caller
  <2>2. b \notin lost
    BY <1>3, <1>4, <2>1 DEF AInv, LinkedAreKept
  <2>3. b - 1 \in a .. b - 1
    BY <1>2
  <2>4. b # j
    BY <1>4, <2>1, <2>3
  <2> QED
    BY <1>3, <2>2, <2>4
<1>11. InOrder'
  <2>1. ASSUME NEW a \in Replica, NEW b \in Replica, work'[a] # Idle,
               About(work'[a].write) \notin cut', b < a
        PROVE  Waiting(b)' /\ work'[b].write = work'[a].write
    <3>1. a # j /\ work[a] # Idle /\ work'[a].write = work[a].write /\ ~Cut(work[a].write)
      BY <1>3, <1>5, <1>7, <2>1 DEF Cut
    <3>2. Waiting(b) /\ work[b].write = work[a].write
      BY <2>1, <3>1 DEF AInv, InOrder
    <3>3. b # j /\ b # j - 1
      BY <1>5, <1>6, <2>1, <3>1, <3>2 DEF InCall
    <3> QED
      BY <1>7, <3>1, <3>2, <3>3 DEF Waiting
  <2>2. ASSUME NEW a \in Replica, NEW n \in DOMAIN late'[a]
        PROVE  About(late'[a][n]) \in cut'
    <3>1. \A k \in Replica : \A m \in DOMAIN late[k] : About(late[k][m]) \in cut'
      BY <1>5 DEF AInv, InOrder, Cut
    <3>2. CASE late'[a] = late[a]
      BY <3>1, <3>2
    <3>3. CASE late'[a] # late[a] /\ a # j
      <4>1. a = j + 1 /\ j # N
        BY <1>2, <1>3, <3>3, Numbers DEF Replica
      <4>2. Calling(j) /\ late'[a] = Append(late[a], work[j].write)
        BY <1>1, <3>3, <4>1 DEF Crashed
      <4>3. late[a] \in Seq(AnyWrite) /\ work[j].write \in AnyWrite
        BY <1>2, <4>2, WorkIs DEF TypeOK, InCall
      <4>4. late'[a][n] = work[j].write \/ (n \in DOMAIN late[a] /\ late'[a][n] = late[a][n])
        BY <4>2, <4>3
      <4>5. About(work[j].write) \in cut'
        BY <1>5, <1>6, <4>2 DEF InCall
      <4> QED
        BY <3>1, <4>4, <4>5
    <3>4. CASE a = j
      BY <1>3, <3>4
    <3> QED
      BY <3>2, <3>3, <3>4
  <2> QED
    BY <2>1, <2>2 DEF InOrder, Cut
<1>12. HeadLeast'
  <2>1. DOMAIN EmptyGraph = {}
    BY DEF EmptyGraph
  <2> QED
    BY <1>2, <1>3, <1>8, <2>1 DEF AInv, HeadLeast
<1>13. HeadAsked'
  BY <1>2, <1>3, <1>7 DEF AInv, HeadAsked
<1>14. Proper'
  BY <1>7 DEF AInv, Proper
<1>15. AgreeElsewhere'
  <2> SUFFICES ASSUME NEW x, x \notin cut', ~Busy(x)'
               PROVE  Agree(Kept', x)
    BY <1>8 DEF AgreeElsewhere, Agree
  <2>1. x \notin cut
    BY <1>5
  <2>2. CASE ~Busy(x)
    BY <1>8, <2>1, <2>2 DEF AInv, AgreeElsewhere, Agree
  <2>3. CASE Busy(x)
    <3>1. j = HEAD
      BY <1>2, <1>7, <2>3 DEF Busy
    <3>2. work[HEAD] # Idle /\ About(work[HEAD].write) = x
      BY <2>3 DEF Busy
    <3>3. Answered(HEAD)
      <4>1. ~InCall(HEAD)
        BY <1>2, <1>5, <1>6, <3>1, <3>2
      <4> QED
        BY <1>2, <3>2, <4>1, WorkIs
    <3>4. CASE ~work[HEAD].ok
      BY <1>2, <1>8, <2>1, <3>2, <3>3, <3>4 DEF AInv, AgreeAfterFailure, Agree, Cut
    <3>5. CASE work[HEAD].ok
      <4>1. \A k \in Kept' : k \in (HEAD .. N) \ (lost \cup {HEAD})
        BY <1>2, <1>8, <3>1, Numbers DEF Kept, Replica
      <4>2. \A k \in Kept' : Done(k, work[HEAD].write)
        BY <1>2, <3>3, <3>5, <4>1 DEF CommittedOn
      <4> QED
        BY <3>2, <4>2 DEF Done, Agree
    <3> QED
      BY <3>4, <3>5
  <2> QED
    BY <2>2, <2>3
<1>16. AgreeAhead'
  <2> SUFFICES ASSUME NEW k \in Replica, Calling(k)', About(work'[k].write) \notin cut'
               PROVE  /\ Agree(Untried(k), About(work[k].write))'
                      /\ (\E m \in 2 .. k : m \notin lost') =>
                           \A u \in Untried(k)' : ~Done(u, work[k].write)'
    BY DEF AgreeAhead, Cut
  <2>1. work'[k] = work[k] /\ Calling(k) /\ ~Cut(work[k].write)
    BY <1>5, <1>7 DEF Cut
  <2>2. /\ Agree(Untried(k), About(work[k].write))
        /\ (\E m \in 2 .. k : m \notin lost) =>
             \A u \in Untried(k) : ~Done(u, work[k].write)
    BY <2>1 DEF AInv, AgreeAhead
  <2>3. \A u \in Untried(k)' : u \in Untried(k) /\ u \in Kept'
    BY <1>8 DEF Untried
  <2>4. \A u \in Untried(k)' :
          /\ Holds(u, About(work[k].write))' <=> Holds(u, About(work[k].write))
          /\ Done(u, work[k].write)' <=> Done(u, work[k].write)
    BY <1>8, <2>1, <2>3 DEF Done, Holds
  <2>5. lost \subseteq lost'
    BY <1>3
  <2> QED
    BY <2>1, <2>2, <2>3, <2>4, <2>5 DEF Agree
<1>17. AgreeAfterFailure'
  <2> SUFFICES ASSUME NEW k \in Replica, Answered(k)', ~work'[k].ok,
                      About(work'[k].write) \notin cut'
               PROVE  Agree(Kept', About(work'[k].write))
    BY <1>8 DEF AgreeAfterFailure, Cut, Agree
  <2>1. work'[k] = work[k] /\ Answered(k) /\ ~Cut(work[k].write)
    BY <1>5, <1>7 DEF Cut
  <2> QED
    BY <1>8, <2>1 DEF AInv, AgreeAfterFailure, Agree
<1>18. Inv'
  BY CrashKeeps DEF AInv
<1> QED
  BY <1>9, <1>10, <1>11, <1>12, <1>13, <1>14, <1>15, <1>16, <1>17, <1>18 DEF AInv

LEMMA RestartAgrees ==
  ASSUME AInv, NEW j \in Replica, Restart(j)
  PROVE  AInv'
<1>1. Inv /\ TypeOK /\ \A k \in Replica : k \in Nat
  BY Numbers DEF AInv, Inv
<1>2. /\ UNCHANGED <<store, work, late, cut, lost>> /\ up' = up \cup {j} /\ j \in lost
      /\ \A k \in Caller : link'[k] <=> k = j \/ link[k]
  BY <1>1 DEF Restart, AInv, DownAreLost
<1>3. LinkedAreKept'
  <2> SUFFICES ASSUME NEW a \in Replica, NEW b \in Replica, a < b, a \notin lost,
                      \A k \in a .. b - 1 : link'[k]
               PROVE  b \notin lost
    BY <1>2 DEF LinkedAreKept
  <2>1. \A k \in a .. b - 1 : k \in Caller
    BY Numbers DEF Replica, Caller
  <2>2. CASE j \in a .. b - 1
    <3>1. a < j
      BY <1>1, <1>2, <2>2
    <3>2. \A k \in a .. j - 1 : k \in a .. b - 1 /\ k # j
      BY <1>1, <2>2
    <3>3. \A k \in a .. j - 1 : link[k]
      BY <1>2, <2>1, <3>2
    <3> QED
      BY <1>2, <3>1, <3>3 DEF AInv, LinkedAreKept
  <2>3. CASE j \notin a .. b - 1
    BY <1>2, <2>1, <2>3 DEF AInv, LinkedAreKept
  <2> QED
    BY <2>2, <2>3
<1>4. Inv'
  BY RestartKeeps DEF AInv
<1>5. DownAreLost' /\ InOrder' /\ HeadLeast' /\ HeadAsked' /\ Proper'
  BY <1>2 DEF AInv, DownAreLost, InOrder, HeadLeast, HeadAsked, Proper, Kept, Cut,
    InCall, Calling, Waiting, Answered
<1>6. AgreeElsewhere' /\ AgreeAhead' /\ AgreeAfterFailure'
  BY <1>2 DEF AInv, AgreeElsewhere, AgreeAhead, AgreeAfterFailure, Agree, Kept, Untried,
    Cut, Busy, Done, Holds, Calling, Answered
<1> QED
  BY <1>3, <1>4, <1>5, <1>6 DEF AInv

-----------------------------------------------------------------------------
LEMMA InitAInv == Init => AInv
<1> SUFFICES ASSUME Init PROVE AInv
  OBVIOUS
<1>1. Idle.pc = "idle"
  BY DEF Idle
<1>2. \A i \in Replica : work[i] = Idle /\ ~InCall(i) /\ ~Calling(i) /\ ~Answered(i)
  BY <1>1 DEF Init, InCall, Calling, Waiting, Answered
<1>3. HEAD \in Replica
  BY Numbers
<1>4. DownAreLost /\ InOrder /\ LinkedAreKept /\ Proper /\ HeadAsked
  BY <1>2, <1>3 DEF Init, DownAreLost, InOrder, LinkedAreKept, Proper, HeadAsked
<1>5. HeadLeast /\ AgreeElsewhere
  BY <1>3 DEF Init, HeadLeast, AgreeElsewhere, Agree, Kept, Holds
<1>6. AgreeAhead /\ AgreeAfterFailure
  BY <1>2 DEF AgreeAhead, AgreeAfterFailure
<1> QED
  BY <1>4, <1>5, <1>6, InitInv DEF AInv

LEMMA StepAInv == AInv /\ [Next]_vars => AInv'
<1> SUFFICES ASSUME AInv, [Next]_vars PROVE AInv'
  OBVIOUS
<1>1. CASE UNCHANGED vars
  <2>1. UNCHANGED <<store, work, link, late, up, cut, lost>>
    BY <1>1 DEF vars
  <2>2. Inv'
    BY <1>1, StepInv DEF AInv
  <2>3. DownAreLost' /\ LinkedAreKept' /\ InOrder' /\ HeadLeast' /\ HeadAsked' /\ Proper'
    BY <2>1 DEF AInv, DownAreLost, LinkedAreKept, InOrder, HeadLeast, HeadAsked, Proper,
      Kept, Cut, InCall, Calling, Waiting, Answered
  <2>4. AgreeElsewhere' /\ AgreeAhead' /\ AgreeAfterFailure'
    BY <2>1 DEF AInv, AgreeElsewhere, AgreeAhead, AgreeAfterFailure, Agree, Kept,
      Untried, Cut, Busy, Done, Holds, Calling, Answered
  <2> QED
    BY <2>2, <2>3, <2>4 DEF AInv
<1>2. CASE \E n \in Id : add_node(n)
  BY <1>2, Writes, RequestAgrees DEF add_node
<1>3. CASE \E a, b \in Id : add_edge(a, b) \/ remove_edge(a, b)
  BY <1>3, Writes, RequestAgrees DEF add_edge, remove_edge
<1>4. CASE \E j \in Replica : Thread(j) \/ Crash(j) \/ Restart(j)
  BY <1>4, ServeAgrees, ServeLateAgrees, AnswerAgrees, CrashAgrees, RestartAgrees
  DEF Thread
<1>5. CASE Finish
  BY <1>5, FinishAgrees
<1>6. CASE \E i \in Caller : Disconnect(i)
  BY <1>6, DisconnectAgrees
<1> QED
  BY <1>1, <1>2, <1>3, <1>4, <1>5, <1>6 DEF Next

\* However long the chain: replicas that have kept their stores differ at most
\* in the write under way and in writes that were cut off.
THEOREM AgreeAlways == Spec => []ReplicasAgree
<1>1. AInv => ReplicasAgree
  BY DEF AInv, AgreeElsewhere, Agree, Kept, ReplicasAgree, Holds
<1> QED
  BY InitAInv, StepAInv, <1>1, PTL DEF Spec

-----------------------------------------------------------------------------
\* How much is left to do, as a number of steps: for each replica k the steps
\* that its call can still take, there and further down, and those of the calls
\* that wait for it.

PerCall(k)  == 2 * (N - k) + 2
AtWork(k, c) == IF c.pc = "calling" THEN 2 * (N - k) + 1
                ELSE IF c = Idle THEN 0 ELSE 1

Weight == [k \in Replica |-> AtWork(k, work[k]) + Len(late[k]) * PerCall(k)]

Owed(R, W) == UNION {{k} \X (1 .. W[k]) : k \in R}
Debt == Cardinality(Owed(Replica, Weight))

LEMMA OwedFinite ==
  ASSUME NEW R \in SUBSET Replica, NEW W \in [Replica -> Nat]
  PROVE  IsFiniteSet(Owed(R, W)) /\ Cardinality(Owed(R, W)) \in Nat
<1> DEFINE Part(k) == {k} \X (1 .. W[k])
           Parts == {Part(k) : k \in R}
           f == [k \in R |-> Part(k)]
<1>1. IsFiniteSet(Replica)
  BY ChainAssumption, FS_Interval DEF Replica
<1>2. IsFiniteSet(R)
  BY <1>1, FS_Subset
<1>3. f \in Surjection(R, Parts)
  BY DEF Surjection
<1>4. IsFiniteSet(Parts)
  BY <1>2, <1>3, FS_Surjection
<1>5. \A T \in Parts : IsFiniteSet(T)
  <2>1. ASSUME NEW k \in R PROVE IsFiniteSet(Part(k))
    <3>1. IsFiniteSet({k})
      BY FS_Singleton
    <3>2. IsFiniteSet(1 .. W[k])
      BY FS_Interval
    <3> QED
      BY <3>1, <3>2, FS_Product
  <2> QED
    BY <2>1
<1>6. IsFiniteSet(UNION Parts)
  BY <1>4, <1>5, FS_UNION
<1> QED
  BY <1>6, FS_CardinalityType DEF Owed

LEMMA OwedAdd ==
  ASSUME NEW R \in SUBSET Replica, NEW a \in Replica \ R, NEW W \in [Replica -> Nat]
  PROVE  Cardinality(Owed(R \cup {a}, W)) = Cardinality(Owed(R, W)) + W[a]
<1> DEFINE P == {a} \X (1 .. W[a])
<1>1. IsFiniteSet(P) /\ Cardinality(P) = W[a]
  <2>1. IsFiniteSet({a}) /\ Cardinality({a}) = 1
    BY FS_Singleton
  <2>2. IsFiniteSet(1 .. W[a]) /\ Cardinality(1 .. W[a]) = W[a]
    BY FS_Interval
  <2>3. IsFiniteSet(P) /\ Cardinality(P) = Cardinality({a}) * Cardinality(1 .. W[a])
    BY <2>1, <2>2, FS_Product
  <2> QED
    BY <2>1, <2>2, <2>3
<1>2. Owed(R \cup {a}, W) = Owed(R, W) \cup P
  BY DEF Owed
<1>3. Owed(R, W) \cap P = {}
  BY DEF Owed
<1> HIDE DEF P
<1>4. Cardinality(Owed(R, W) \cup P) = Cardinality(Owed(R, W)) + Cardinality(P) - 0
  BY <1>1, <1>3, OwedFinite, FS_Union, FS_EmptySet
<1>5. Cardinality(Owed(R, W)) + Cardinality(P) - 0 = Cardinality(Owed(R, W)) + W[a]
  BY <1>1, OwedFinite
<1> QED
  BY <1>2, <1>4, <1>5, Zenon

LEMMA OwedLess ==
  ASSUME NEW R \in SUBSET Replica, NEW V \in [Replica -> Nat],
         NEW W \in [Replica -> Nat], \A k \in R : V[k] <= W[k]
  PROVE  Cardinality(Owed(R, V)) <= Cardinality(Owed(R, W))
<1>1. \A k \in R : 1 .. V[k] \subseteq 1 .. W[k]
  OBVIOUS
<1>2. Owed(R, V) \subseteq Owed(R, W)
  BY <1>1 DEF Owed
<1> QED
  BY <1>2, OwedFinite, FS_Subset

LEMMA OneOwed ==
  ASSUME NEW V \in [Replica -> Nat], NEW W \in [Replica -> Nat], NEW a \in Replica,
         \A k \in Replica \ {a} : V[k] <= W[k], V[a] < W[a]
  PROVE  Cardinality(Owed(Replica, V)) < Cardinality(Owed(Replica, W))
<1> DEFINE R == Replica \ {a}
<1>1. R \in SUBSET Replica /\ a \in Replica \ R /\ R \cup {a} = Replica
  OBVIOUS
<1> HIDE DEF R
<1>2. Cardinality(Owed(R, V)) <= Cardinality(Owed(R, W))
  BY <1>1, OwedLess DEF R
<1>3. /\ Cardinality(Owed(Replica, V)) = Cardinality(Owed(R, V)) + V[a]
      /\ Cardinality(Owed(Replica, W)) = Cardinality(Owed(R, W)) + W[a]
  BY <1>1, OwedAdd
<1>4. Cardinality(Owed(R, V)) \in Nat /\ Cardinality(Owed(R, W)) \in Nat
  BY <1>1, OwedFinite
<1> QED
  BY <1>2, <1>3, <1>4

LEMMA TwoOwed ==
  ASSUME NEW V \in [Replica -> Nat], NEW W \in [Replica -> Nat],
         NEW a \in Replica, NEW b \in Replica, a # b,
         \A k \in Replica \ {a, b} : V[k] <= W[k]
  PROVE  LET v == V[a] + V[b]
             w == W[a] + W[b]
         IN  /\ v < w => Cardinality(Owed(Replica, V)) < Cardinality(Owed(Replica, W))
             /\ v <= w => Cardinality(Owed(Replica, V)) <= Cardinality(Owed(Replica, W))
<1> DEFINE R == Replica \ {a, b}
           S == R \cup {a}
<1>1. /\ R \in SUBSET Replica /\ a \in Replica \ R
      /\ S \in SUBSET Replica /\ b \in Replica \ S /\ S \cup {b} = Replica
  OBVIOUS
<1>2. Cardinality(Owed(R, V)) <= Cardinality(Owed(R, W))
  BY <1>1, OwedLess
<1>3. /\ Cardinality(Owed(S, V)) = Cardinality(Owed(R, V)) + V[a]
      /\ Cardinality(Owed(S, W)) = Cardinality(Owed(R, W)) + W[a]
  BY <1>1, OwedAdd
<1> HIDE DEF S
<1>4. /\ Cardinality(Owed(Replica, V)) = Cardinality(Owed(S, V)) + V[b]
      /\ Cardinality(Owed(Replica, W)) = Cardinality(Owed(S, W)) + W[b]
  BY <1>1, OwedAdd
<1> HIDE DEF R
<1>5. Cardinality(Owed(R, V)) \in Nat /\ Cardinality(Owed(R, W)) \in Nat
  BY <1>1, OwedFinite
<1> QED
  BY <1>2, <1>3, <1>4, <1>5

\* What the weights are made of.
LEMMA WeightParts ==
  ASSUME NEW k \in Replica, NEW c \in AnyWork, NEW q \in Seq(AnyWrite)
  PROVE  /\ PerCall(k) \in Nat /\ PerCall(k) > 1
         /\ k # N => PerCall(k) = PerCall(k + 1) + 2
         /\ AtWork(k, c) \in Nat /\ AtWork(k, c) < PerCall(k)
         /\ c.pc = "calling" => AtWork(k, c) = PerCall(k) - 1
         /\ c.pc # "calling" => AtWork(k, c) = IF c = Idle THEN 0 ELSE 1
         /\ AtWork(k, c) = 0 <=> c = Idle
         /\ Len(q) * PerCall(k) \in Nat
         /\ \A e : Len(Append(q, e)) * PerCall(k) = Len(q) * PerCall(k) + PerCall(k)
         /\ q # <<>> => Len(q) * PerCall(k) = Len(Tail(q)) * PerCall(k) + PerCall(k)
<1>1. k \in Nat /\ N \in Nat /\ 1 <= k /\ k <= N
  BY ChainAssumption DEF Replica
<1>2. /\ PerCall(k) \in Nat /\ PerCall(k) > 1
      /\ k # N => PerCall(k) = PerCall(k + 1) + 2
  BY <1>1 DEF PerCall
<1>3. /\ AtWork(k, c) \in Nat /\ AtWork(k, c) < PerCall(k)
      /\ c.pc = "calling" => AtWork(k, c) = PerCall(k) - 1
      /\ c.pc # "calling" => AtWork(k, c) = IF c = Idle THEN 0 ELSE 1
      /\ AtWork(k, c) = 0 <=> c = Idle
  BY <1>1 DEF AtWork, PerCall, Idle
<1>4. /\ Len(q) \in Nat /\ \A e : Len(Append(q, e)) = Len(q) + 1
      /\ q # <<>> => Len(Tail(q)) \in Nat /\ Len(q) = Len(Tail(q)) + 1
  OBVIOUS
<1>5. /\ \A m, n \in Nat : m * n \in Nat
      /\ \A m, n \in Nat : (m + 1) * n = m * n + n
  OBVIOUS
<1>6. Len(q) * PerCall(k) \in Nat
  BY <1>2, <1>4, <1>5
<1>7. \A e : Len(Append(q, e)) * PerCall(k) = Len(q) * PerCall(k) + PerCall(k)
  BY <1>2, <1>4, <1>5
<1>8. q # <<>> => Len(q) * PerCall(k) = Len(Tail(q)) * PerCall(k) + PerCall(k)
  BY <1>2, <1>4, <1>5
<1> QED
  BY <1>2, <1>3, <1>6, <1>7, <1>8

\* Before and after a step.
LEMMA WeightIs ==
  ASSUME Inv, Inv'
  PROVE  /\ Weight \in [Replica -> Nat] /\ Weight' \in [Replica -> Nat]
         /\ \A k \in Replica :
              /\ Weight[k] = AtWork(k, work[k]) + Len(late[k]) * PerCall(k)
              /\ Weight'[k] = AtWork(k, work'[k]) + Len(late'[k]) * PerCall(k)
              /\ work[k] \in AnyWork /\ late[k] \in Seq(AnyWrite)
              /\ work'[k] \in AnyWork /\ late'[k] \in Seq(AnyWrite)
<1>1. \A k \in Replica : /\ work[k] \in AnyWork /\ late[k] \in Seq(AnyWrite)
                         /\ work'[k] \in AnyWork /\ late'[k] \in Seq(AnyWrite)
  BY DEF Inv, TypeOK
<1>2. \A k \in Replica : /\ AtWork(k, work[k]) + Len(late[k]) * PerCall(k) \in Nat
                         /\ AtWork(k, work'[k]) + Len(late'[k]) * PerCall(k) \in Nat
  <2> SUFFICES ASSUME NEW k \in Replica
               PROVE  /\ AtWork(k, work[k]) + Len(late[k]) * PerCall(k) \in Nat
                      /\ AtWork(k, work'[k]) + Len(late'[k]) * PerCall(k) \in Nat
    OBVIOUS
  <2>1. AtWork(k, work[k]) \in Nat /\ Len(late[k]) * PerCall(k) \in Nat
    BY <1>1, WeightParts
  <2>2. AtWork(k, work'[k]) \in Nat /\ Len(late'[k]) * PerCall(k) \in Nat
    BY <1>1, WeightParts
  <2> QED
    BY <2>1, <2>2
<1> QED
  BY <1>1, <1>2 DEF Weight

LEMMA NoMoreWeight ==
  ASSUME Inv, Inv', NEW k \in Replica, late'[k] = late[k],
         AtWork(k, work'[k]) <= AtWork(k, work[k])
  PROVE  Weight'[k] <= Weight[k]
<1>1. AtWork(k, work'[k]) \in Nat /\ AtWork(k, work[k]) \in Nat
      /\ Len(late[k]) * PerCall(k) \in Nat
  BY WeightIs, WeightParts
<1>2. /\ Weight[k] = AtWork(k, work[k]) + Len(late[k]) * PerCall(k)
      /\ Weight'[k] = AtWork(k, work'[k]) + Len(late[k]) * PerCall(k)
  BY WeightIs
<1> QED
  BY <1>1, <1>2

LEMMA ServePays ==
  ASSUME Inv, Inv', NEW j \in Replica, Serve(j)
  PROVE  Debt' < Debt
<1> DEFINE i == j - 1
<1>1. Served(j) /\ Ran(j, work[i].write)
  BY ServeIs, RunIs DEF Served
<1>2. i \in Replica /\ i # N /\ i # j /\ i + 1 = j
  <2>1. j # HEAD /\ i \in Caller /\ j \in Nat
    BY <1>1, Numbers DEF Served
  <2> QED
    BY <2>1, Numbers
<1>3. work[j] = Idle /\ late[j] = <<>> /\ late' = late
  BY <1>1 DEF Served, Ran
<1>4. work[i].pc = "calling" /\ work'[i].pc = "waiting" /\ work'[i] # Idle
  BY <1>1 DEF Served, Calling
<1>5. \A k \in Replica \ {j, i} : work'[k] = work[k]
  BY <1>1 DEF Served
<1> HIDE DEF i
<1>6. /\ AtWork(i, work[i]) = PerCall(j) + 1 /\ AtWork(i, work'[i]) = 1
      /\ AtWork(j, work[j]) = 0 /\ AtWork(j, work'[j]) < PerCall(j)
      /\ PerCall(j) \in Nat /\ AtWork(j, work'[j]) \in Nat
  <2>1. AtWork(i, work[i]) = PerCall(i) - 1 /\ PerCall(i) = PerCall(j) + 2
        /\ PerCall(j) \in Nat
    BY <1>2, <1>4, WeightIs, WeightParts
  <2>2. AtWork(i, work'[i]) = 1
    BY <1>2, <1>4, WeightIs, WeightParts
  <2>3. AtWork(j, work[j]) = 0 /\ AtWork(j, work'[j]) < PerCall(j)
        /\ AtWork(j, work'[j]) \in Nat
    BY <1>3, WeightIs, WeightParts
  <2> QED
    BY <2>1, <2>2, <2>3
<1>7. Len(late[i]) * PerCall(i) \in Nat /\ Len(late[j]) * PerCall(j) \in Nat
  BY <1>2, WeightIs, WeightParts
<1>8. Weight'[i] + Weight'[j] < Weight[i] + Weight[j]
  <2>1. /\ Weight[i] = AtWork(i, work[i]) + Len(late[i]) * PerCall(i)
        /\ Weight'[i] = AtWork(i, work'[i]) + Len(late[i]) * PerCall(i)
        /\ Weight[j] = AtWork(j, work[j]) + Len(late[j]) * PerCall(j)
        /\ Weight'[j] = AtWork(j, work'[j]) + Len(late[j]) * PerCall(j)
    BY <1>2, <1>3, WeightIs
  <2> QED
    BY <1>6, <1>7, <2>1
<1>9. \A k \in Replica \ {i, j} : Weight'[k] <= Weight[k]
  <2> SUFFICES ASSUME NEW k \in Replica \ {i, j} PROVE Weight'[k] <= Weight[k]
    OBVIOUS
  <2>1. AtWork(k, work'[k]) <= AtWork(k, work[k]) /\ late'[k] = late[k]
    BY <1>3, <1>5, WeightIs, WeightParts
  <2> QED
    BY <2>1, NoMoreWeight
<1> QED
  BY <1>2, <1>8, <1>9, WeightIs, TwoOwed DEF Debt

LEMMA ServeLatePays ==
  ASSUME Inv, Inv', NEW j \in Replica, ServeLate(j)
  PROVE  Debt' < Debt
<1>1. ServedLate(j) /\ work[j] = Idle
  BY ServeLateIs DEF ServedLate, Run
<1>2. /\ AtWork(j, work[j]) = 0
      /\ AtWork(j, work'[j]) \in Nat /\ AtWork(j, work'[j]) < PerCall(j)
      /\ PerCall(j) \in Nat
  BY <1>1, WeightIs, WeightParts
<1>3. /\ Len(late[j]) * PerCall(j) = Len(late'[j]) * PerCall(j) + PerCall(j)
      /\ Len(late'[j]) * PerCall(j) \in Nat
  BY <1>1, WeightIs, WeightParts DEF ServedLate
<1>4. Weight'[j] < Weight[j]
  BY <1>2, <1>3, WeightIs
<1>5. ASSUME NEW k \in Replica \ {j} PROVE Weight'[k] <= Weight[k]
  <2>1. work'[k] = work[k] /\ late'[k] = late[k]
    BY <1>1 DEF ServedLate
  <2>2. AtWork(k, work'[k]) <= AtWork(k, work[k])
    BY <2>1, WeightIs, WeightParts
  <2> QED
    BY <2>1, <2>2, NoMoreWeight
<1> QED
  BY <1>4, <1>5, WeightIs, OneOwed DEF Debt

LEMMA AnswerPays ==
  ASSUME Inv, Inv', NEW j \in Replica, Answer(j)
  PROVE  Debt' < Debt
<1>1. HasAnswered(j)
  BY AnswerIs
<1>2. \A k \in Replica : k # j =>
        work'[k] = work[k] \/ /\ work[k].pc = "waiting" /\ work'[k].pc = "answered"
                              /\ work[k] # Idle /\ work'[k] # Idle
  BY <1>1 DEF HasAnswered, Waiting, Idle
<1>3. work[j].pc = "answered" /\ work[j] # Idle /\ work'[j] = Idle /\ late' = late
  BY <1>1 DEF HasAnswered, Answered, Idle
<1>4. AtWork(j, work[j]) = 1 /\ AtWork(j, work'[j]) = 0
  BY <1>3, WeightIs, WeightParts
<1>5. \A k \in Replica : Len(late[k]) * PerCall(k) \in Nat
  BY WeightIs, WeightParts
<1>6. Weight'[j] < Weight[j]
  BY <1>3, <1>4, <1>5, WeightIs
<1>7. ASSUME NEW k \in Replica \ {j} PROVE Weight'[k] <= Weight[k]
  <2>1. CASE work'[k] = work[k]
    <3>1. AtWork(k, work'[k]) <= AtWork(k, work[k])
      BY <2>1, WeightIs, WeightParts
    <3> QED
      BY <1>3, <3>1, NoMoreWeight
  <2>2. CASE work'[k] # work[k]
    <3>1. AtWork(k, work[k]) = 1 /\ AtWork(k, work'[k]) = 1
      BY <1>2, <2>2 DEF AtWork
    <3> QED
      BY <1>3, <3>1, NoMoreWeight
  <2> QED
    BY <2>1, <2>2
<1> QED
  BY <1>6, <1>7, WeightIs, OneOwed DEF Debt

LEMMA FinishPays ==
  ASSUME Inv, Inv', Finish
  PROVE  Debt' < Debt
<1>1. Finished /\ HEAD \in Replica
  BY FinishIs, Numbers
<1>2. /\ work[HEAD].pc = "answered" /\ work[HEAD] # Idle /\ work'[HEAD] = Idle
      /\ late' = late /\ \A k \in Replica \ {HEAD} : work'[k] = work[k]
  BY <1>1 DEF Finished, Answered, Idle
<1>3. AtWork(HEAD, work[HEAD]) = 1 /\ AtWork(HEAD, work'[HEAD]) = 0
  BY <1>1, <1>2, WeightIs, WeightParts
<1>4. Len(late[HEAD]) * PerCall(HEAD) \in Nat
  BY <1>1, WeightIs, WeightParts
<1>5. Weight'[HEAD] < Weight[HEAD]
  BY <1>1, <1>2, <1>3, <1>4, WeightIs
<1>6. ASSUME NEW k \in Replica \ {HEAD} PROVE Weight'[k] <= Weight[k]
  <2>1. AtWork(k, work'[k]) <= AtWork(k, work[k])
    BY <1>2, WeightIs, WeightParts
  <2> QED
    BY <1>2, <2>1, NoMoreWeight
<1> QED
  BY <1>1, <1>5, <1>6, WeightIs, OneOwed DEF Debt

\* A call whose connection breaks costs its caller no more than it did.
LEMMA FailedCostsLess ==
  ASSUME Inv, Inv', NEW k \in Replica,
         \/ work'[k] = work[k]
         \/ InCall(k) /\ work'[k].pc = "answered"
  PROVE  AtWork(k, work'[k]) <= AtWork(k, work[k])
<1>1. work[k] \in AnyWork /\ work'[k] \in AnyWork /\ <<>> \in Seq(AnyWrite)
  BY WeightIs
<1>2. CASE work'[k] = work[k]
  <2>1. AtWork(k, work[k]) \in Nat
    BY <1>1, WeightParts
  <2> QED
    BY <1>2, <2>1
<1>3. CASE InCall(k) /\ work'[k].pc = "answered"
  <2>1. AtWork(k, work'[k]) = 1
    BY <1>3 DEF AtWork, Idle
  <2>2. work[k] # Idle
    BY <1>3 DEF InCall, Calling, Waiting, Idle
  <2>3. AtWork(k, work[k]) \in Nat /\ AtWork(k, work[k]) # 0
    BY <1>1, <2>2, WeightParts
  <2> QED
    BY <2>1, <2>3
<1> QED
  BY <1>2, <1>3

\* The call that i was in is now one that the replica after i runs late: that
\* costs it what it would have cost i.
LEMMA LateInstead ==
  ASSUME Inv, Inv', NEW i \in Replica, i # N, Calling(i),
         AtWork(i, work'[i]) <= 1,
         Len(late'[i]) * PerCall(i) <= Len(late[i]) * PerCall(i),
         AtWork(i + 1, work'[i + 1]) <= AtWork(i + 1, work[i + 1]),
         late'[i + 1] = Append(late[i + 1], work[i].write)
  PROVE  Weight'[i] + Weight'[i + 1] <= Weight[i] + Weight[i + 1]
<1> DEFINE j == i + 1
<1>1. j \in Replica
  BY Numbers
<1>2. /\ AtWork(i, work[i]) = PerCall(j) + 1 /\ PerCall(j) \in Nat
      /\ AtWork(i, work'[i]) \in Nat
      /\ Len(late[i]) * PerCall(i) \in Nat /\ Len(late'[i]) * PerCall(i) \in Nat
  <2>1. work[i].pc = "calling"
    BY DEF Calling
  <2>2. PerCall(i) = PerCall(j) + 2 /\ PerCall(j) \in Nat
        /\ AtWork(i, work[i]) = PerCall(i) - 1
    BY <1>1, <2>1, WeightIs, WeightParts
  <2>3. /\ AtWork(i, work'[i]) \in Nat
        /\ Len(late[i]) * PerCall(i) \in Nat /\ Len(late'[i]) * PerCall(i) \in Nat
    BY WeightIs, WeightParts
  <2> QED
    BY <2>2, <2>3
<1>3. /\ AtWork(j, work[j]) \in Nat /\ AtWork(j, work'[j]) \in Nat
      /\ Len(late[j]) * PerCall(j) \in Nat
  BY <1>1, WeightIs, WeightParts
<1>4. Len(late'[j]) * PerCall(j) = Len(late[j]) * PerCall(j) + PerCall(j)
  <2>1. late[j] \in Seq(AnyWrite) /\ work[j] \in AnyWork
    BY <1>1, WeightIs
  <2>2. Len(Append(late[j], work[i].write)) * PerCall(j)
          = Len(late[j]) * PerCall(j) + PerCall(j)
    BY <1>1, <2>1, WeightParts
  <2> QED
    BY <2>2
<1>5. /\ Weight[i] = AtWork(i, work[i]) + Len(late[i]) * PerCall(i)
      /\ Weight'[i] = AtWork(i, work'[i]) + Len(late'[i]) * PerCall(i)
      /\ Weight[j] = AtWork(j, work[j]) + Len(late[j]) * PerCall(j)
      /\ Weight'[j] = AtWork(j, work'[j]) + Len(late'[j]) * PerCall(j)
  BY <1>1, WeightIs
<1> DEFINE p == Len(late[i]) * PerCall(i)
           q == Len(late'[i]) * PerCall(i)
           r == Len(late[j]) * PerCall(j)
           x == AtWork(j, work[j])
           y == AtWork(j, work'[j])
           z == AtWork(i, work'[i])
<1>6. /\ PerCall(j) \in Nat /\ p \in Nat /\ q \in Nat /\ r \in Nat
      /\ x \in Nat /\ y \in Nat /\ z \in Nat
      /\ z <= 1 /\ y <= x /\ q <= p
  BY <1>2, <1>3
<1>7. /\ Weight[i] = (PerCall(j) + 1) + p /\ Weight'[i] = z + q
      /\ Weight[j] = x + r /\ Weight'[j] = y + (r + PerCall(j))
  BY <1>2, <1>4, <1>5
<1> HIDE DEF p, q, r, x, y, z
<1>8. (z + q) + (y + (r + PerCall(j))) <= ((PerCall(j) + 1) + p) + (x + r)
  BY <1>6
<1> QED
  BY <1>7, <1>8

LEMMA DisconnectAddsNothing ==
  ASSUME Inv, Inv', NEW i \in Caller, Disconnect(i)
  PROVE  Debt' <= Debt
<1>1. Disconnected(i)
  BY DisconnectIs
<1>2. i \in Replica /\ i + 1 \in Replica /\ i # N /\ i # i + 1
  BY Numbers
<1>3. \A k \in Replica : AtWork(k, work'[k]) <= AtWork(k, work[k])
  BY <1>1, FailedCostsLess DEF Disconnected
<1>4. \A k \in Replica \ {i + 1} : late'[k] = late[k]
  BY <1>1 DEF Disconnected
<1>5. \A k \in Replica \ {i + 1} : Weight'[k] <= Weight[k]
  BY <1>3, <1>4, NoMoreWeight
<1>6. CASE late'[i + 1] = late[i + 1]
  <2>1. \A k \in Replica : Weight'[k] <= Weight[k]
    BY <1>2, <1>3, <1>5, <1>6, NoMoreWeight
  <2> QED
    BY <2>1, WeightIs, OwedLess DEF Debt
<1>7. CASE late'[i + 1] # late[i + 1]
  <2>1. Calling(i) /\ late'[i + 1] = Append(late[i + 1], work[i].write)
    BY <1>1, <1>7 DEF Disconnected
  <2>2. AtWork(i, work'[i]) <= 1
    BY <1>1, <1>2, <2>1 DEF Disconnected, InCall, AtWork
  <2>3. Len(late'[i]) * PerCall(i) <= Len(late[i]) * PerCall(i)
    <3>1. late'[i] = late[i]
      BY <1>2, <1>4
    <3>2. Len(late[i]) * PerCall(i) \in Nat
      BY <1>2, WeightIs, WeightParts
    <3> QED
      BY <3>1, <3>2
  <2>4. Weight'[i] + Weight'[i + 1] <= Weight[i] + Weight[i + 1]
    BY <1>2, <1>3, <2>1, <2>2, <2>3, LateInstead
  <2>5. \A k \in Replica \ {i, i + 1} : Weight'[k] <= Weight[k]
    BY <1>5
  <2> QED
    BY <1>2, <2>4, <2>5, WeightIs, TwoOwed DEF Debt
<1> QED
  BY <1>6, <1>7

LEMMA CrashAddsNothing ==
  ASSUME Inv, Inv', NEW j \in Replica, Crash(j)
  PROVE  Debt' <= Debt
<1>1. Crashed(j) /\ j \in Nat
  BY CrashIs, Numbers
<1>2. \A k \in Replica \ {j} : AtWork(k, work'[k]) <= AtWork(k, work[k])
  BY <1>1, FailedCostsLess DEF Crashed
<1>3. AtWork(j, work'[j]) = 0 /\ Len(late'[j]) * PerCall(j) = 0
  <2>1. AtWork(j, work'[j]) = 0
    BY <1>1, WeightIs, WeightParts DEF Crashed
  <2>2. Len(late'[j]) = 0
    BY <1>1 DEF Crashed
  <2>3. PerCall(j) \in Nat
    BY WeightIs, WeightParts
  <2> QED
    BY <2>1, <2>2, <2>3
<1>4. Weight'[j] <= Weight[j]
  BY <1>3, WeightIs
<1>5. \A k \in Replica \ {j, j + 1} : Weight'[k] <= Weight[k]
  BY <1>1, <1>2, NoMoreWeight DEF Crashed
<1>6. CASE j = N \/ late'[j + 1] = late[j + 1]
  <2>1. ASSUME NEW k \in Replica PROVE Weight'[k] <= Weight[k]
    <3>1. CASE k = j + 1
      <4>1. late'[k] = late[k] /\ k # j
        BY <1>1, <1>6, <3>1, Numbers DEF Replica
      <4> QED
        BY <1>2, <4>1, NoMoreWeight
    <3> QED
      BY <1>4, <1>5, <3>1
  <2> QED
    BY <2>1, WeightIs, OwedLess DEF Debt
<1>7. CASE j # N /\ late'[j + 1] # late[j + 1]
  <2>1. Calling(j) /\ late'[j + 1] = Append(late[j + 1], work[j].write)
    BY <1>1, <1>7 DEF Crashed
  <2>2. j + 1 \in Replica /\ j # j + 1
    BY <1>1, <1>7, Numbers
  <2>3. AtWork(j, work'[j]) <= 1
    BY <1>3
  <2>4. Len(late'[j]) * PerCall(j) <= Len(late[j]) * PerCall(j)
    <3>1. Len(late[j]) * PerCall(j) \in Nat
      BY WeightIs, WeightParts
    <3> QED
      BY <1>3, <3>1
  <2>5. Weight'[j] + Weight'[j + 1] <= Weight[j] + Weight[j + 1]
    BY <1>2, <1>7, <2>1, <2>2, <2>3, <2>4, LateInstead
  <2> QED
    BY <1>5, <2>2, <2>5, WeightIs, TwoOwed DEF Debt
<1> QED
  BY <1>6, <1>7

\* Each step of a thread leaves less to be done, of a natural number, and
\* nothing but a request adds to it: not a crash, not a connection that breaks,
\* not a call that is left to run late.  So between two requests the threads
\* take finitely many steps, however long the chain.
WorkIsDone ==
  /\ Debt \in Nat /\ Debt' \in Nat
  /\ (\E j \in Replica : Thread(j)) \/ Finish => Debt' < Debt
  /\ (\A w \in AnyWrite : ~Request(w)) => Debt' <= Debt

THEOREM ChainAdvances == Spec => [][WorkIsDone]_vars
<1>1. ASSUME Inv, Inv', Next PROVE WorkIsDone
  <2>1. Debt \in Nat /\ Debt' \in Nat
    BY <1>1, WeightIs, OwedFinite DEF Debt
  <2>2. ASSUME \E j \in Replica : Thread(j) PROVE Debt' < Debt
    BY <1>1, <2>2, ServePays, ServeLatePays, AnswerPays DEF Thread
  <2>3. ASSUME Finish PROVE Debt' < Debt
    BY <1>1, <2>3, FinishPays
  <2>4. ASSUME \A w \in AnyWrite : ~Request(w) PROVE Debt' <= Debt
    <3>1. CASE \E n \in Id : add_node(n)
      BY <2>4, <3>1, Writes DEF add_node
    <3>2. CASE \E a, b \in Id : add_edge(a, b) \/ remove_edge(a, b)
      BY <2>4, <3>2, Writes DEF add_edge, remove_edge
    <3>3. CASE \E j \in Replica : Thread(j)
      BY <2>1, <2>2, <3>3
    <3>4. CASE Finish
      BY <2>1, <2>3, <3>4
    <3>5. CASE \E j \in Replica : Crash(j)
      BY <1>1, <3>5, CrashAddsNothing
    <3>6. CASE \E i \in Caller : Disconnect(i)
      BY <1>1, <3>6, DisconnectAddsNothing
    <3>7. CASE \E j \in Replica : Restart(j)
      <4>1. work' = work /\ late' = late
        BY <3>7 DEF Restart
      <4>2. Weight' = Weight
        BY <4>1 DEF Weight
      <4> QED
        BY <2>1, <4>2 DEF Debt
    <3> QED
      BY <1>1, <3>1, <3>2, <3>3, <3>4, <3>5, <3>6, <3>7 DEF Next
  <2> QED
    BY <2>1, <2>2, <2>3, <2>4 DEF WorkIsDone
<1>2. Inv /\ Inv' /\ [Next]_vars => [WorkIsDone]_vars
  BY <1>1
<1> QED
  BY InitInv, StepInv, <1>2, PTL DEF Spec
=============================================================================
