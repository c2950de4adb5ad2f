----------------------- MODULE PartitionedEdgesProofs -----------------------
(***************************************************************************)
(* Proofs about PartitionedEdges, for any partitions, nodes and placement  *)
(* of the nodes.                                                           *)
(***************************************************************************)
EXTENDS PartitionedEdges, TLAPS

HalfIn(g, n, m) == GetEdgePart(g, n, m) = "SUCCESS"

\* The thread of p has had its call answered with true.
OkOn(p, a, b) == Answered(p) /\ Handles(p, a, b) /\ http[p].ok

CallOf(p) == [pc : {"calling", "answered"}, op : {AddPart, RemovePart},
              here : Local(p), far : Far(p), ok : BOOLEAN]

Shape ==
  /\ store = [p \in Partition |-> store[p]]
  /\ http \in [Partition -> {Idle} \cup UNION {CallOf(p) : p \in Partition}]
  /\ \A c \in late : \E p \in Partition : c \in CallOf(p)

\* A call that nobody waits for was given up by a caller whose connection broke
\* or that is dead.
LateIsLost ==
  \A c \in late : {c.here, c.far} \in broken \/ Home[c.here] \in failed

\* Both ends are at work on an edge: that is a race.
BothRace ==
  \A p, q \in Partition, a, b \in Node :
    p # q /\ Handles(p, a, b) /\ Handles(q, a, b) => p \in raced /\ q \in raced

\* Without a race the own half is as it was when the request began.
OwnHalfKept ==
  \A p \in Partition :
    http[p] # Idle /\ (Calling(p) \/ http[p].ok) /\ p \notin raced =>
      (HasHalf(http[p].here, http[p].far) <=> http[p].op = RemovePart)

\* An edge of which nothing was lost: its halves differ when one of its ends is
\* halfway.  Both can be, with the same request, and then have both halves.
Settled ==
  \A a, b \in Node :
    /\ Home[a] # Home[b] /\ {a, b} \notin broken
    /\ {Home[a], Home[b]} \cap failed = {}
    => /\ OkOn(Home[a], a, b) => (HasHalf(b, a) <=> http[Home[a]].op = AddPart)
       /\ OkOn(Home[a], a, b) /\ OkOn(Home[b], a, b) =>
            http[Home[a]].op = http[Home[b]].op
       /\ (HasHalf(a, b) <=> HasHalf(b, a))
            <=> (OkOn(Home[a], a, b) <=> OkOn(Home[b], a, b))

Inv == TypeOK /\ Shape /\ LateIsLost /\ BothRace /\ OwnHalfKept /\ Settled

-----------------------------------------------------------------------------
\* What an update does to one half, and to no other.

LEMMA Ops == AddPart # RemovePart
BY DEF AddPart, RemovePart

LEMMA AddPartIs ==
  ASSUME NEW H, NEW I, NEW g, IsGraph(g, H, I), NEW n \in H, NEW m \in I, n # m
  PROVE  LET r == AddEdgePart(g, n, m)
         IN  /\ IsGraph(r.nodes, H, I)
             /\ DOMAIN r.nodes = DOMAIN g
             /\ r.status = "SUCCESS" <=> HasNode(g, n) /\ ~HalfIn(g, n, m)
             /\ r.status = "SUCCESS" => HalfIn(r.nodes, n, m)
             /\ r.status # "SUCCESS" => r.nodes = g
             /\ \A x, y : x # n \/ y # m => (HalfIn(r.nodes, x, y) <=> HalfIn(g, x, y))
<1> DEFINE h == LinkOneWay(g, n, m)
<1>1. CASE HasNode(g, n) /\ ~HasEdge(g, n, m)
  <2>1. AddEdgePart(g, n, m) = Result("SUCCESS", h)
    BY <1>1 DEF AddEdgePart
  <2>2. h = [x \in DOMAIN g |-> IF x = n THEN g[n] \cup {m} ELSE g[x]]
    BY <1>1 DEF LinkOneWay, IsGraph, HasNode
  <2> HIDE DEF h
  <2>3. IsGraph(h, H, I) /\ DOMAIN h = DOMAIN g
    BY <2>2 DEF IsGraph
  <2>4. \A x, y : HalfIn(h, x, y) <=> HalfIn(g, x, y) \/ (x = n /\ y = m)
    BY <1>1, <2>2 DEF HalfIn, GetEdgePart, HasNode, HasEdge
  <2>5. ~HalfIn(g, n, m)
    BY <1>1 DEF HalfIn, GetEdgePart
  <2> QED
    BY <1>1, <2>1, <2>3, <2>4, <2>5 DEF Result
<1>2. CASE ~(HasNode(g, n) /\ ~HasEdge(g, n, m))
  <2>1. AddEdgePart(g, n, m).nodes = g /\ AddEdgePart(g, n, m).status # "SUCCESS"
    BY <1>2 DEF AddEdgePart, Result
  <2>2. HasNode(g, n) => HalfIn(g, n, m)
    BY <1>2 DEF HalfIn, GetEdgePart
  <2> QED
    BY <2>1, <2>2
<1> QED
  BY <1>1, <1>2

LEMMA RemovePartIs ==
  ASSUME NEW H, NEW I, NEW g, IsGraph(g, H, I), NEW n \in H, NEW m \in I
  PROVE  LET r == RemoveEdgePart(g, n, m)
         IN  /\ IsGraph(r.nodes, H, I)
             /\ DOMAIN r.nodes = DOMAIN g
             /\ r.status = "SUCCESS" <=> HasNode(g, n) /\ HalfIn(g, n, m)
             /\ r.status = "SUCCESS" => ~HalfIn(r.nodes, n, m)
             /\ r.status # "SUCCESS" => r.nodes = g
             /\ \A x, y : x # n \/ y # m => (HalfIn(r.nodes, x, y) <=> HalfIn(g, x, y))
<1> DEFINE h == UnlinkOneWay(g, n, m)
<1>1. CASE HalfIn(g, n, m)
  <2>0. HasNode(g, n)
    BY <1>1 DEF HalfIn, GetEdgePart
  <2>1. RemoveEdgePart(g, n, m) = Result("SUCCESS", h)
    BY <1>1 DEF RemoveEdgePart, HalfIn
  <2>2. h = [x \in DOMAIN g |-> IF x = n THEN g[n] \ {m} ELSE g[x]]
    BY <2>0 DEF UnlinkOneWay, IsGraph, HasNode
  <2> HIDE DEF h
  <2>3. IsGraph(h, H, I) /\ DOMAIN h = DOMAIN g
    BY <2>2 DEF IsGraph
  <2>4. \A x, y : HalfIn(h, x, y) <=> HalfIn(g, x, y) /\ ~(x = n /\ y = m)
    BY <2>2 DEF HalfIn, GetEdgePart, HasNode, HasEdge
  <2> QED
    BY <1>1, <2>0, <2>1, <2>3, <2>4 DEF Result
<1>2. CASE ~HalfIn(g, n, m)
  <2>1. /\ RemoveEdgePart(g, n, m).nodes = g
        /\ RemoveEdgePart(g, n, m).status # "SUCCESS"
    BY <1>2 DEF RemoveEdgePart, HalfIn, Result
  <2> QED
    BY <1>2, <2>1
<1> QED
  BY <1>1, <1>2

\* What either update returns and leaves.
LEMMA ApplyIs ==
  ASSUME NEW H, NEW I, NEW g, IsGraph(g, H, I), NEW n \in H, NEW m \in I, n # m,
         NEW op \in {AddPart, RemovePart}
  PROVE  LET r == Apply(g, op, n, m)
             s == r.status = "SUCCESS"
         IN  /\ IsGraph(r.nodes, H, I)
             /\ DOMAIN r.nodes = DOMAIN g
             /\ s <=> HasNode(g, n) /\ (HalfIn(g, n, m) <=> op = RemovePart)
             /\ s => (HalfIn(r.nodes, n, m) <=> op = AddPart)
             /\ ~s => r.nodes = g
             /\ \A x, y : x # n \/ y # m => (HalfIn(r.nodes, x, y) <=> HalfIn(g, x, y))
<1> DEFINE r == Apply(g, op, n, m)
<1>1. CASE op = AddPart
  <2>1. r = AddEdgePart(g, n, m)
    BY <1>1 DEF Apply
  <2> HIDE DEF r
  <2> QED
    BY <1>1, <2>1, AddPartIs, Ops DEF r
<1>2. CASE op = RemovePart
  <2>1. r = RemoveEdgePart(g, n, m)
    BY <1>2, Ops DEF Apply
  <2> HIDE DEF r
  <2> QED
    BY <1>2, <2>1, RemovePartIs, Ops DEF r
<1> QED
  BY <1>1, <1>2

\* The half at n of the edge to m is changed by op, and with success only if op
\* makes a difference.
Updated(op, n, m, success) ==
  /\ \A p \in Partition : IsGraph(store'[p], Local(p), Node)
  /\ store' = [p \in Partition |-> store'[p]]
  /\ \A x \in Node : HasNode(store'[Home[x]], x) <=> HasNode(store[Home[x]], x)
  /\ success <=> HasNode(store[Home[n]], n) /\ (HasHalf(n, m) <=> op = RemovePart)
  /\ \A a, b \in Node :
       HasHalf(a, b)' <=> IF a = n /\ b = m /\ success THEN op = AddPart
                                                        ELSE HasHalf(a, b)

LEMMA UpdateIs ==
  ASSUME Inv, NEW op \in {AddPart, RemovePart}, NEW n \in Node, NEW m \in Node,
         n # m,
         store' = [store EXCEPT ![Home[n]] = Apply(store[Home[n]], op, n, m).nodes]
  PROVE  Updated(op, n, m, Apply(store[Home[n]], op, n, m).status = "SUCCESS")
<1> DEFINE q == Home[n]
           r == Apply(store[q], op, n, m)
           s == r.status = "SUCCESS"
<1>1. q \in Partition /\ n \in Local(q) /\ \A x \in Node : Home[x] \in Partition
  BY HomeIsPartition DEF Local
<1>2. IsGraph(store[q], Local(q), Node) /\ \A p \in Partition : IsGraph(store[p], Local(p), Node)
  BY <1>1 DEF Inv, TypeOK
<1>3. /\ IsGraph(r.nodes, Local(q), Node)
      /\ DOMAIN r.nodes = DOMAIN store[q]
      /\ s <=> HasNode(store[q], n) /\ (HalfIn(store[q], n, m) <=> op = RemovePart)
      /\ s => (HalfIn(r.nodes, n, m) <=> op = AddPart)
      /\ ~s => r.nodes = store[q]
      /\ \A x, y : x # n \/ y # m => (HalfIn(r.nodes, x, y) <=> HalfIn(store[q], x, y))
  BY <1>1, <1>2, ApplyIs
<1> HIDE DEF r
<1>4. /\ store'[q] = r.nodes
      /\ \A p \in Partition : p # q => store'[p] = store[p]
      /\ store' = [p \in Partition |-> store'[p]]
  BY <1>1 DEF Inv, Shape, r
<1> HIDE DEF q, s
<1>5. \A a, b : HasHalf(a, b) <=> HalfIn(store[Home[a]], a, b)
  BY DEF HasHalf, HalfIn
<1>6. \A a, b : HasHalf(a, b)' <=> HalfIn(store'[Home[a]], a, b)
  BY DEF HasHalf, HalfIn
<1>7. ASSUME NEW a \in Node, NEW b \in Node
      PROVE  HasHalf(a, b)' <=> IF a = n /\ b = m /\ s THEN op = AddPart
                                                       ELSE HasHalf(a, b)
  <2>1. CASE Home[a] # q
    BY <1>1, <1>4, <1>5, <1>6, <2>1 DEF q
  <2>2. CASE Home[a] = q
    BY <1>3, <1>4, <1>5, <1>6, <2>2
  <2> QED
    BY <2>1, <2>2
<1>8. \A x \in Node : HasNode(store'[Home[x]], x) <=> HasNode(store[Home[x]], x)
  BY <1>1, <1>3, <1>4 DEF HasNode
<1>9. \A p \in Partition : IsGraph(store'[p], Local(p), Node)
  BY <1>2, <1>3, <1>4
<1>10. s <=> HasNode(store[Home[n]], n) /\ (HasHalf(n, m) <=> op = RemovePart)
  BY <1>3, <1>5 DEF q
<1> QED
  BY <1>4, <1>7, <1>8, <1>9, <1>10 DEF Updated, s, r, q

-----------------------------------------------------------------------------
\* Of a thread that is at work.
LEMMA CallIs ==
  ASSUME TypeOK, NEW p \in Partition
  PROVE  /\ http[p] = Idle <=> http[p].pc = "idle"
         /\ http[p] # Idle =>
              /\ http[p] \in CallOf(p)
              /\ http[p].here \in Node /\ Home[http[p].here] = p
              /\ http[p].far \in Node /\ Home[http[p].far] # p
              /\ http[p].op \in {AddPart, RemovePart}
              /\ Calling(p) \/ Answered(p)
         /\ ~(Calling(p) /\ Answered(p))
         /\ Calling(p) \/ Answered(p) => http[p] # Idle
<1>1. http[p] \in {Idle} \cup CallOf(p)
  BY DEF TypeOK, CallOf
<1>2. CASE http[p] = Idle
  BY <1>2 DEF Idle, Calling, Answered
<1>3. CASE http[p] \in CallOf(p)
  BY <1>3 DEF CallOf, Local, Far, Idle, Calling, Answered
<1> QED
  BY <1>1, <1>2, <1>3

LEMMA HandlesIs ==
  ASSUME TypeOK, NEW p \in Partition, NEW a \in Node, NEW b \in Node, Home[a] # Home[b]
  PROVE  /\ Handles(p, a, b) => p = Home[a] \/ p = Home[b]
         /\ p = Home[a] => (Handles(p, a, b) <=> /\ http[p] # Idle
                                                 /\ http[p].here = a /\ http[p].far = b)
         /\ p = Home[b] => (Handles(p, a, b) <=> /\ http[p] # Idle
                                                 /\ http[p].here = b /\ http[p].far = a)
BY CallIs DEF Handles

-----------------------------------------------------------------------------
\* Every step keeps the invariant.

\* A request to add a node changes no half.
LEMMA AddNodeHalves ==
  ASSUME Inv, NEW p \in Partition, NEW n \in Local(p),
         store' = [store EXCEPT ![p] = AddNode(store[p], n).nodes]
  PROVE  /\ \A q \in Partition : IsGraph(store'[q], Local(q), Node)
         /\ store' = [q \in Partition |-> store'[q]]
         /\ \A x, y \in Node : HasHalf(x, y)' <=> HasHalf(x, y)
         /\ \A x \in Node : HasNode(store[Home[x]], x) => HasNode(store'[Home[x]], x)
<1> DEFINE g == store[p]
           h == AddNode(g, n).nodes
<1>1. IsGraph(g, Local(p), Node) /\ n \in Node /\ \A q \in Partition : IsGraph(store[q], Local(q), Node)
  BY DEF Inv, TypeOK, Local
<1>2. /\ IsGraph(h, Local(p), Node) /\ DOMAIN g \subseteq DOMAIN h
      /\ \A x, y : HalfIn(h, x, y) <=> HalfIn(g, x, y)
  <2>1. CASE HasNode(g, n)
    BY <1>1, <2>1 DEF AddNode, Result
  <2>2. CASE ~HasNode(g, n)
    <3>1. h = [m \in DOMAIN g \cup {n} |-> IF m = n THEN {} ELSE g[m]]
      BY <2>2 DEF AddNode, Result
    <3> HIDE DEF h, g
    <3>2. IsGraph(h, Local(p), Node) /\ DOMAIN g \subseteq DOMAIN h
      BY <1>1, <3>1 DEF IsGraph
    <3>3. \A x, y : HalfIn(h, x, y) <=> HalfIn(g, x, y)
      BY <2>2, <3>1 DEF HalfIn, GetEdgePart, HasNode, HasEdge
    <3> QED
      BY <3>2, <3>3
  <2> QED
    BY <2>1, <2>2
<1> HIDE DEF h
<1>3. /\ store'[p] = h /\ \A q \in Partition : q # p => store'[q] = store[q]
      /\ store' = [q \in Partition |-> store'[q]]
  BY DEF Inv, Shape, h
<1>4. \A x \in Node : Home[x] \in Partition
  BY HomeIsPartition
<1>5. ASSUME NEW x \in Node, NEW y \in Node
      PROVE  HasHalf(x, y)' <=> HasHalf(x, y)
  <2>1. HasHalf(x, y)' <=> HalfIn(store'[Home[x]], x, y)
    BY DEF HasHalf, HalfIn
  <2>2. HasHalf(x, y) <=> HalfIn(store[Home[x]], x, y)
    BY DEF HasHalf, HalfIn
  <2> QED
    BY <1>2, <1>3, <1>4, <2>1, <2>2
<1>6. \A x \in Node : HasNode(store[Home[x]], x) => HasNode(store'[Home[x]], x)
  BY <1>2, <1>3, <1>4 DEF HasNode
<1>7. \A q \in Partition : IsGraph(store'[q], Local(q), Node)
  BY <1>1, <1>2, <1>3
<1> QED
  BY <1>3, <1>5, <1>6, <1>7

LEMMA AddNodeKeepsInv ==
  ASSUME Inv, NEW p \in Partition, NEW n \in Local(p), add_node(p, n)
  PROVE  Inv'
<1>1. /\ store' = [store EXCEPT ![p] = AddNode(store[p], n).nodes]
      /\ UNCHANGED <<http, late, up, failed, broken, raced>>
  BY DEF add_node, Inv, Shape
<1>2. /\ \A q \in Partition : IsGraph(store'[q], Local(q), Node)
      /\ store' = [q \in Partition |-> store'[q]]
      /\ \A x, y \in Node : HasHalf(x, y)' <=> HasHalf(x, y)
  BY <1>1, AddNodeHalves
<1>3. TypeOK /\ Shape
  BY DEF Inv
<1>4. TypeOK' /\ Shape'
  BY <1>1, <1>2, <1>3 DEF TypeOK, Shape
<1>5. LateIsLost' /\ BothRace'
  BY <1>1 DEF Inv, LateIsLost, BothRace, Handles
<1>6. OwnHalfKept'
  <2> SUFFICES ASSUME NEW q \in Partition, http[q] # Idle, Calling(q) \/ http[q].ok,
                      q \notin raced
               PROVE  HasHalf(http[q].here, http[q].far)' <=> http[q].op = RemovePart
    BY <1>1 DEF OwnHalfKept, Calling
  <2>1. http[q].here \in Node /\ http[q].far \in Node
    BY <1>3, CallIs
  <2>2. HasHalf(http[q].here, http[q].far) <=> http[q].op = RemovePart
    BY DEF Inv, OwnHalfKept
  <2>3. HasHalf(http[q].here, http[q].far)' <=> HasHalf(http[q].here, http[q].far)
    BY <1>1, <1>2, <2>1
  <2> QED
    BY <2>2, <2>3
<1>7. Settled'
  <2>1. \A q, a, b : OkOn(q, a, b)' <=> OkOn(q, a, b)
    BY <1>1 DEF OkOn, Handles, Answered
  <2> QED
    BY <1>1, <1>2, <2>1 DEF Inv, Settled
<1> QED
  BY <1>4, <1>5, <1>6, <1>7 DEF Inv

LEMMA StartKeepsInv ==
  ASSUME Inv, NEW p \in Partition, NEW here \in Local(p), NEW far \in Far(p),
         NEW op \in {AddPart, RemovePart}, NEW found,
         StartEdge(p, op, here, far, found),
         found = "SUCCESS" <=> op = RemovePart
  PROVE  Inv'
<1> DEFINE c == Call("calling", op, here, far, FALSE)
<1>1. /\ http[p] = Idle /\ http' = [http EXCEPT ![p] = c]
      /\ HasHalf(here, far) <=> op = RemovePart
      /\ UNCHANGED <<store, late, up, failed, broken>>
  BY DEF StartEdge, HasHalf, Local
<1>2. TypeOK /\ Shape
  BY DEF Inv
<1>3. /\ c \in CallOf(p) /\ c # Idle /\ c.pc = "calling" /\ c.op = op
      /\ c.here = here /\ c.far = far /\ c.ok = FALSE
  BY DEF Call, CallOf, Idle
<1>4. here \in Node /\ far \in Node /\ Home[here] = p /\ Home[far] # p /\ Home[far] \in Partition
  BY HomeIsPartition DEF Local, Far
<1> HIDE DEF c
<1>5. http'[p] = c /\ \A q \in Partition : q # p => http'[q] = http[q]
  BY <1>1, <1>2 DEF Shape
<1>6. raced' = IF Handles(Home[far], here, far) THEN raced \cup {p, Home[far]} ELSE raced
  BY DEF StartEdge
<1>7. TypeOK' /\ Shape'
  <2>1. \A q \in Partition : http'[q] \in {Idle} \cup CallOf(q)
    BY <1>2, <1>3, <1>5 DEF TypeOK, CallOf
  <2>2. raced' \subseteq Partition
    BY <1>2, <1>4, <1>6 DEF TypeOK
  <2>3. http' \in [Partition -> {Idle} \cup UNION {CallOf(q) : q \in Partition}]
    BY <1>1, <1>2, <1>3 DEF Shape
  <2> QED
    BY <1>1, <1>2, <2>1, <2>2, <2>3 DEF TypeOK, Shape, CallOf
<1>8. LateIsLost'
  BY <1>1 DEF Inv, LateIsLost
<1>9. \A q, a, b : q \in Partition =>
        /\ q # p => (Handles(q, a, b)' <=> Handles(q, a, b))
        /\ Handles(p, a, b)' <=> {here, far} = {a, b}
  BY <1>3, <1>5 DEF Handles
<1>10. BothRace'
  <2> SUFFICES ASSUME NEW q \in Partition, NEW r \in Partition, NEW a \in Node, NEW b \in Node,
                      q # r, Handles(q, a, b)', Handles(r, a, b)'
               PROVE  q \in raced' /\ r \in raced'
    BY DEF BothRace
  <2>1. CASE q # p /\ r # p
    BY <1>6, <1>9, <2>1 DEF Inv, BothRace
  <2>2. ASSUME NEW t \in Partition, t # p, Handles(t, a, b), {here, far} = {a, b}
        PROVE  t = Home[far] /\ Handles(t, here, far)
    <3>1. Handles(t, here, far)
      BY <2>2 DEF Handles
    <3> QED
      BY <1>2, <1>4, <2>2, <3>1, HandlesIs
  <2>3. CASE q = p
    BY <1>6, <1>9, <2>2, <2>3
  <2>4. CASE r = p
    BY <1>6, <1>9, <2>2, <2>4
  <2> QED
    BY <2>1, <2>3, <2>4
<1>11. OwnHalfKept'
  <2> SUFFICES ASSUME NEW q \in Partition, http'[q] # Idle, Calling(q)' \/ http'[q].ok,
                      q \notin raced'
               PROVE  HasHalf(http'[q].here, http'[q].far) <=> http'[q].op = RemovePart
    BY <1>1 DEF OwnHalfKept, HasHalf
  <2>1. CASE q = p
    BY <1>1, <1>3, <1>5, <2>1
  <2>2. CASE q # p
    BY <1>5, <1>6, <2>2 DEF Inv, OwnHalfKept, Calling
  <2> QED
    BY <2>1, <2>2
<1>12. Settled'
  <2>1. ~Answered(p) /\ ~Answered(p)'
    BY <1>1, <1>3, <1>5 DEF Answered, Idle
  <2>2. \A q, a, b : q \in Partition => (OkOn(q, a, b)' <=> OkOn(q, a, b))
    BY <1>5, <2>1 DEF OkOn, Answered, Handles
  <2>3. \A q, a, b : q \in Partition => (OkOn(q, a, b) => http'[q] = http[q])
    BY <1>5, <2>1 DEF OkOn
  <2>4. \A a, b : HasHalf(a, b)' <=> HasHalf(a, b)
    BY <1>1 DEF HasHalf
  <2>5. \A a \in Node : Home[a] \in Partition
    BY HomeIsPartition
  <2> QED
    BY <1>1, <2>2, <2>3, <2>4, <2>5 DEF Inv, Settled
<1> QED
  BY <1>7, <1>8, <1>10, <1>11, <1>12 DEF Inv

LEMMA ServeKeepsInv ==
  ASSUME Inv, NEW p \in Partition, Serve(p)
  PROVE  Inv'
<1> DEFINE n == http[p].here
           m == http[p].far
           s == Apply(store[Home[m]], http[p].op, m, n).status = "SUCCESS"
<1>1. TypeOK /\ Shape
  BY DEF Inv
<1>2. Calling(p) /\ UNCHANGED <<late, up, failed, broken, raced>>
  BY DEF Serve
<1>3. PICK op \in {AddPart, RemovePart} : op = http[p].op
  BY <1>1, <1>2, CallIs
<1>4. /\ n \in Node /\ m \in Node /\ Home[n] = p /\ Home[m] # p /\ Home[m] \in Partition
      /\ n # m /\ http[p] \in CallOf(p) /\ http[p] # Idle /\ ~Answered(p)
  BY <1>1, <1>2, CallIs, HomeIsPartition
<1>5. store' = [store EXCEPT ![Home[m]] = Apply(store[Home[m]], op, m, n).nodes]
  BY <1>1, <1>3 DEF Serve, FarHalf, Shape
<1>6. Updated(op, m, n, s)
  BY <1>3, <1>4, <1>5, UpdateIs
<1>7. PICK a0 \in Node, b0 \in Node, t \in BOOLEAN : a0 = n /\ b0 = m /\ t = s
  BY <1>4
<1>8. /\ http'[p] \in CallOf(p) /\ http'[p] # Idle /\ http'[p].pc = "answered"
      /\ http'[p].op = op /\ http'[p].here = a0 /\ http'[p].far = b0
      /\ http'[p].ok = t
      /\ \A q \in Partition : q # p => http'[q] = http[q]
      /\ http' \in [Partition -> {Idle} \cup UNION {CallOf(q) : q \in Partition}]
  <2> DEFINE d == [http[p] EXCEPT !.pc = "answered", !.ok = s]
  <2>1. s \in BOOLEAN
    OBVIOUS
  <2> HIDE DEF s
  <2>2. /\ d \in CallOf(p) /\ d.pc = "answered" /\ d.op = http[p].op
        /\ d.here = n /\ d.far = m /\ d.ok = s
    BY <1>4, <2>1 DEF CallOf
  <2>3. http' = [http EXCEPT ![p] = d]
    BY <1>1 DEF Serve, FarHalf, s, Shape
  <2> HIDE DEF d
  <2>4. http'[p] = d /\ \A q \in Partition : q # p => http'[q] = http[q]
    BY <1>1, <2>3 DEF Shape
  <2>5. d # Idle
    BY <2>2 DEF Idle
  <2>6. http' \in [Partition -> {Idle} \cup UNION {CallOf(q) : q \in Partition}]
    BY <1>1, <2>2, <2>3 DEF Shape
  <2> QED
    BY <1>3, <1>7, <2>2, <2>4, <2>5, <2>6
<1>9. /\ t => (HasHalf(b0, a0) <=> op = RemovePart)
      /\ \A a, b \in Node : HasHalf(a, b)' <=> IF a = b0 /\ b = a0 /\ t THEN op = AddPart
                                                                     ELSE HasHalf(a, b)
  BY <1>6, <1>7 DEF Updated
<1>10. \A r, a, b : r \in Partition => (Handles(r, a, b)' <=> Handles(r, a, b))
  <2>1. /\ http[p].pc # "idle" /\ http'[p].pc # "idle"
        /\ http'[p].here = http[p].here /\ http'[p].far = http[p].far
    BY <1>2, <1>7, <1>8 DEF Calling
  <2>2. \A a, b : Handles(p, a, b)' <=> Handles(p, a, b)
    BY <2>1 DEF Handles
  <2>3. \A r, a, b : r \in Partition /\ r # p => (Handles(r, a, b)' <=> Handles(r, a, b))
    BY <1>8 DEF Handles
  <2> QED
    BY <2>2, <2>3
<1>11. TypeOK' /\ Shape'
  <2>1. \A r \in Partition : http'[r] \in {Idle} \cup CallOf(r)
    BY <1>1, <1>8 DEF TypeOK, CallOf
  <2> QED
    BY <1>1, <1>2, <1>6, <1>8, <2>1 DEF TypeOK, Shape, CallOf, Updated
<1>12. LateIsLost' /\ BothRace'
  BY <1>2, <1>10 DEF Inv, LateIsLost, BothRace
<1>13. OwnHalfKept'
  <2> SUFFICES ASSUME NEW r \in Partition, http'[r] # Idle, Calling(r)' \/ http'[r].ok,
                      r \notin raced', NEW x, x = http'[r].here, NEW y, y = http'[r].far
               PROVE  HasHalf(x, y)' <=> http'[r].op = RemovePart
    BY DEF OwnHalfKept, HasHalf
  <2>1. CASE r = p
    <3>1. HasHalf(a0, b0)' <=> HasHalf(a0, b0)
      BY <1>4, <1>7, <1>9
    <3>2. HasHalf(a0, b0) <=> op = RemovePart
      BY <1>2, <1>3, <1>4, <1>7, <2>1 DEF Inv, OwnHalfKept
    <3> QED
      BY <1>8, <2>1, <3>1, <3>2
  <2>2. CASE r # p
    <3>1. /\ http'[r] = http[r] /\ http[r] # Idle /\ r \notin raced
          /\ Calling(r) \/ http[r].ok
          /\ x = http[r].here /\ y = http[r].far
      BY <1>2, <1>8, <2>2 DEF Calling
    <3>2. x \in Node /\ y \in Node /\ http[r].pc # "idle" /\ http[p].pc # "idle"
      BY <1>1, <1>4, <3>1, CallIs
    <3>3. ~(x = b0 /\ y = a0)
      <4> SUFFICES ASSUME x = b0, y = a0 PROVE FALSE
        OBVIOUS
      <4>1. Handles(r, a0, b0) /\ Handles(p, a0, b0)
        BY <1>7, <3>1, <3>2 DEF Handles
      <4> QED
        BY <2>2, <3>1, <4>1 DEF Inv, BothRace
    <3>4. HasHalf(x, y) <=> http[r].op = RemovePart
      BY <3>1 DEF Inv, OwnHalfKept
    <3>5. HasHalf(x, y)' <=> HasHalf(x, y)
      BY <1>9, <3>2, <3>3
    <3> QED
      BY <3>1, <3>4, <3>5
  <2> QED
    BY <2>1, <2>2
<1>14. Settled'
  <2> DEFINE q == Home[b0]
  <2>1. q \in Partition /\ q # p /\ p = Home[a0] /\ http'[q] = http[q]
    BY <1>4, <1>7, <1>8
  <2>2. /\ OkOn(q, a0, b0)' <=> OkOn(q, a0, b0)
        /\ OkOn(p, a0, b0)' <=> t
        /\ ~OkOn(p, a0, b0)
        /\ \A a, b : {a, b} # {a0, b0} => ~OkOn(p, a, b) /\ ~OkOn(p, a, b)'
        /\ \A r, a, b : r \in Partition /\ r # p => (OkOn(r, a, b)' <=> OkOn(r, a, b))
    BY <1>4, <1>7, <1>8, <1>10, <2>1 DEF OkOn, Answered, Handles
  <2>3. \A r, a, b : r \in Partition => (OkOn(r, a, b) <=> OkOn(r, b, a))
    BY DEF OkOn, Handles
  <2>4. \A r, a, b : r \in Partition => (OkOn(r, a, b)' <=> OkOn(r, b, a)')
    BY DEF OkOn, Handles
  <2> HIDE DEF q
  <2> SUFFICES ASSUME NEW a \in Node, NEW b \in Node, Home[a] # Home[b],
                      {a, b} \notin broken, {Home[a], Home[b]} \cap failed = {}
               PROVE  /\ OkOn(Home[a], a, b)' => (HasHalf(b, a)' <=> http'[Home[a]].op = AddPart)
                      /\ OkOn(Home[a], a, b)' /\ OkOn(Home[b], a, b)' =>
                           http'[Home[a]].op = http'[Home[b]].op
                      /\ (HasHalf(a, b)' <=> HasHalf(b, a)')
                           <=> (OkOn(Home[a], a, b)' <=> OkOn(Home[b], a, b)')
    BY <1>2 DEF Settled
  <2>5. /\ OkOn(Home[a], a, b) => (HasHalf(b, a) <=> http[Home[a]].op = AddPart)
        /\ OkOn(Home[b], b, a) => (HasHalf(a, b) <=> http[Home[b]].op = AddPart)
        /\ OkOn(Home[a], a, b) /\ OkOn(Home[b], a, b) =>
             http[Home[a]].op = http[Home[b]].op
        /\ (HasHalf(a, b) <=> HasHalf(b, a))
             <=> (OkOn(Home[a], a, b) <=> OkOn(Home[b], a, b))
    <3>1. {b, a} = {a, b} /\ {Home[b], Home[a]} = {Home[a], Home[b]}
      OBVIOUS
    <3> QED
      BY <3>1 DEF Inv, Settled
  <2>6. /\ Home[a] \in Partition /\ Home[b] \in Partition
        /\ HasHalf(a, b)' <=> IF a = b0 /\ b = a0 /\ t THEN op = AddPart ELSE HasHalf(a, b)
        /\ HasHalf(b, a)' <=> IF b = b0 /\ a = a0 /\ t THEN op = AddPart ELSE HasHalf(b, a)
    BY <1>9, HomeIsPartition
  <2>7. CASE {a, b} # {a0, b0}
    <3>1. ~(a = b0 /\ b = a0) /\ ~(b = b0 /\ a = a0)
      BY <2>7
    <3>2. \A r \in Partition : OkOn(r, a, b)' <=> OkOn(r, a, b)
      BY <2>2, <2>7
    <3>3. \A r \in Partition : OkOn(r, a, b) => http'[r] = http[r]
      BY <1>8, <2>2, <2>7
    <3> QED
      BY <2>5, <2>6, <3>1, <3>2, <3>3
  <2>8. CASE a = a0 /\ b = b0
    <3>1. ~(a = b0 /\ b = a0)
      BY <2>1, <2>8
    <3>2. Home[a] = p /\ Home[b] = q /\ http'[p].op = op
      BY <1>8, <2>1, <2>8 DEF q
    <3>3. (HasHalf(a, b)' <=> HasHalf(a, b)) /\ (HasHalf(b, a)' <=> IF t THEN op = AddPart ELSE HasHalf(b, a))
      BY <2>6, <2>8, <3>1
    <3>4. OkOn(q, a, b) => http[q].op \in {AddPart, RemovePart}
      BY <1>1, <2>1, CallIs DEF OkOn
    <3>5. t => (HasHalf(b, a) <=> op = RemovePart)
      BY <1>9, <2>8
    <3> QED
      BY <2>1, <2>2, <2>3, <2>5, <2>8, <3>2, <3>3, <3>4, <3>5, Ops
  <2>9. CASE a = b0 /\ b = a0
    <3>1. ~(b = b0 /\ a = a0)
      BY <2>1, <2>9
    <3>2. Home[b] = p /\ Home[a] = q /\ http'[p].op = op
      BY <1>8, <2>1, <2>9 DEF q
    <3>3. (HasHalf(b, a)' <=> HasHalf(b, a)) /\ (HasHalf(a, b)' <=> IF t THEN op = AddPart ELSE HasHalf(a, b))
      BY <2>6, <2>9, <3>1
    <3>4. OkOn(q, a, b) => http[q].op \in {AddPart, RemovePart}
      BY <1>1, <2>1, CallIs DEF OkOn
    <3>5. t => (HasHalf(a, b) <=> op = RemovePart)
      BY <1>9, <2>9
    <3>6. /\ OkOn(q, a, b)' <=> OkOn(q, a, b)
          /\ OkOn(p, a, b)' <=> t
          /\ ~OkOn(p, a, b)
          /\ OkOn(q, b, a) <=> OkOn(q, a, b)
      BY <1>4, <1>7, <2>1, <2>2, <2>3, <2>4, <2>9
    <3> QED
      BY <2>1, <2>5, <3>2, <3>3, <3>4, <3>5, <3>6, Ops
  <2> QED
    BY <2>7, <2>8, <2>9
<1> QED
  BY <1>11, <1>12, <1>13, <1>14 DEF Inv

\* A late call changes a half of an edge of which a call was lost, and is a race
\* for the handlers of that edge.
LEMMA ServeLateKeepsInv ==
  ASSUME Inv, NEW c \in late, ServeLate(c)
  PROVE  Inv'
<1>1. TypeOK /\ Shape
  BY DEF Inv
<1>2. UNCHANGED <<http, up, failed, broken>> /\ late' \subseteq late
  BY DEF ServeLate
<1>3. PICK p0 \in Partition : c \in CallOf(p0)
  BY <1>1 DEF Shape
<1>4. PICK n \in Node, m \in Node, op \in {AddPart, RemovePart} :
        n = c.here /\ m = c.far /\ op = c.op /\ Home[n] = p0 /\ Home[m] # p0
  BY <1>3 DEF CallOf, Local, Far
<1> DEFINE s == Apply(store[Home[m]], op, m, n).status = "SUCCESS"
<1>5. store' = [store EXCEPT ![Home[m]] = Apply(store[Home[m]], op, m, n).nodes]
  BY <1>4 DEF ServeLate, FarHalf
<1>6. Updated(op, m, n, s)
  BY <1>4, <1>5, UpdateIs
<1> HIDE DEF s
<1>7. \A a, b \in Node : ~(a = m /\ b = n) => (HasHalf(a, b)' <=> HasHalf(a, b))
  BY <1>6 DEF Updated
<1>8. raced' = raced \cup {p \in Partition : Handles(p, n, m)}
  BY <1>4 DEF ServeLate
<1>9. TypeOK' /\ Shape'
  <2>1. raced' \subseteq Partition
    BY <1>1, <1>8 DEF TypeOK
  <2> QED
    BY <1>1, <1>2, <1>6, <2>1 DEF TypeOK, Shape, CallOf, Updated
<1>10. LateIsLost'
  BY <1>2 DEF Inv, LateIsLost
<1>11. BothRace'
  <2>1. \A r, a, b : r \in Partition => (Handles(r, a, b)' <=> Handles(r, a, b))
    BY <1>2 DEF Handles
  <2> QED
    BY <1>8, <2>1 DEF Inv, BothRace
<1>12. OwnHalfKept'
  <2> SUFFICES ASSUME NEW r \in Partition, http[r] # Idle, Calling(r) \/ http[r].ok,
                      r \notin raced', NEW x, x = http[r].here, NEW y, y = http[r].far
               PROVE  HasHalf(x, y)' <=> http[r].op = RemovePart
    BY <1>2 DEF OwnHalfKept, HasHalf, Calling
  <2>1. x \in Node /\ y \in Node /\ http[r].pc # "idle" /\ r \notin raced /\ ~Handles(r, n, m)
    BY <1>1, <1>8, CallIs
  <2>2. ~(x = m /\ y = n)
    BY <2>1 DEF Handles
  <2>3. HasHalf(x, y) <=> http[r].op = RemovePart
    BY <2>1 DEF Inv, OwnHalfKept
  <2> QED
    BY <1>7, <2>1, <2>2, <2>3
<1>13. Settled'
  <2>1. {n, m} \in broken \/ Home[n] \in failed
    BY <1>4 DEF Inv, LateIsLost
  <2>2. \A a, b \in Node : {a, b} = {n, m} => Home[n] \in {Home[a], Home[b]}
    OBVIOUS
  <2>3. \A a, b \in Node :
          {a, b} \notin broken /\ {Home[a], Home[b]} \cap failed = {} => {a, b} # {n, m}
    BY <2>1, <2>2
  <2>4. \A a, b \in Node :
          {a, b} \notin broken /\ {Home[a], Home[b]} \cap failed = {} =>
            (HasHalf(a, b)' <=> HasHalf(a, b)) /\ (HasHalf(b, a)' <=> HasHalf(b, a))
    BY <1>7, <2>3
  <2>5. \A r, a, b : r \in Partition => (OkOn(r, a, b)' <=> OkOn(r, a, b))
    BY <1>2 DEF OkOn, Answered, Handles
  <2>6. \A a \in Node : Home[a] \in Partition
    BY HomeIsPartition
  <2> QED
    BY <1>2, <2>4, <2>5, <2>6 DEF Inv, Settled
<1> QED
  BY <1>9, <1>10, <1>11, <1>12, <1>13 DEF Inv

-----------------------------------------------------------------------------
\* What the end of a request does to the threads.
LEMMA ReturnIs ==
  ASSUME Inv, NEW p \in Partition, Return(p)
  PROVE  /\ http'[p] = Idle /\ \A r \in Partition : r # p => http'[r] = http[r]
         /\ http' \in [Partition -> {Idle} \cup UNION {CallOf(r) : r \in Partition}]
         /\ raced' = raced \ {p}
         /\ \A a, b : ~Handles(p, a, b)' /\ ~OkOn(p, a, b)'
         /\ \A r, a, b : r \in Partition /\ r # p =>
            (Handles(r, a, b)' <=> Handles(r, a, b)) /\ (OkOn(r, a, b)' <=> OkOn(r, a, b))
         /\ BothRace'
<1>1. TypeOK /\ Shape
  BY DEF Inv
<1>2. /\ http'[p] = Idle /\ \A r \in Partition : r # p => http'[r] = http[r]
      /\ http' \in [Partition -> {Idle} \cup UNION {CallOf(r) : r \in Partition}]
      /\ raced' = raced \ {p}
  BY <1>1 DEF Return, Shape
<1>3. \A a, b : ~Handles(p, a, b)' /\ ~OkOn(p, a, b)'
  BY <1>2 DEF Handles, OkOn, Idle
<1>4. \A r, a, b : r \in Partition /\ r # p =>
            (Handles(r, a, b)' <=> Handles(r, a, b)) /\ (OkOn(r, a, b)' <=> OkOn(r, a, b))
  BY <1>2 DEF Handles, OkOn, Answered
<1>5. BothRace'
  BY <1>2, <1>3, <1>4 DEF Inv, BothRace
<1> QED
  BY <1>2, <1>3, <1>4, <1>5

\* A request that ends with nothing changed: if its call had returned true, the
\* edge counts as broken.
LEMMA GiveUpKeepsInv ==
  ASSUME Inv, NEW p \in Partition, Calling(p) \/ Answered(p), Return(p),
         UNCHANGED <<store, up, failed>>, broken \subseteq broken',
         Answered(p) /\ http[p].ok => {http[p].here, http[p].far} \in broken',
         \A c \in late' : c \in late \/ /\ c = http[p] /\ Calling(p)
                                        /\ Home[c.far] \in up /\ {c.here, c.far} \in broken'
  PROVE  Inv'
<1>1. TypeOK /\ Shape
  BY DEF Inv
<1>2. /\ http'[p] = Idle /\ \A r \in Partition : r # p => http'[r] = http[r]
      /\ http' \in [Partition -> {Idle} \cup UNION {CallOf(r) : r \in Partition}]
      /\ raced' = raced \ {p}
      /\ BothRace'
  BY ReturnIs
<1>3. TypeOK' /\ Shape'
  <2>1. \A r \in Partition : http'[r] \in {Idle} \cup CallOf(r)
    BY <1>1, <1>2 DEF TypeOK, CallOf
  <2>2. \A c \in late' : \E r \in Partition : c \in CallOf(r)
    BY <1>1, CallIs DEF Shape
  <2>3. \A c \in late' : c.pc = "calling" /\ Home[c.far] \in up
    BY <1>1 DEF TypeOK, Calling
  <2> QED
    BY <1>1, <1>2, <2>1, <2>2, <2>3 DEF TypeOK, Shape, CallOf
<1>4. LateIsLost'
  BY DEF Inv, LateIsLost
<1>5. OwnHalfKept'
  BY <1>2 DEF Inv, OwnHalfKept, HasHalf, Calling
<1>6. Settled'
  <2>1. \A a, b \in Node : HasHalf(a, b)' <=> HasHalf(a, b)
    BY DEF HasHalf
  <2>2. \A r, a, b : r \in Partition /\ {a, b} \notin broken' => (OkOn(r, a, b)' <=> OkOn(r, a, b))
    <3>1. \A a, b : {a, b} \notin broken' => ~OkOn(p, a, b)
      BY DEF OkOn, Handles
    <3> QED
      BY <3>1, ReturnIs
  <2>3. \A r, a, b : r \in Partition => (OkOn(r, a, b)' => http'[r] = http[r])
    BY ReturnIs
  <2> SUFFICES ASSUME NEW a \in Node, NEW b \in Node, Home[a] # Home[b],
                      {a, b} \notin broken', {Home[a], Home[b]} \cap failed = {}
               PROVE  /\ OkOn(Home[a], a, b)' => (HasHalf(b, a)' <=> http'[Home[a]].op = AddPart)
                      /\ OkOn(Home[a], a, b)' /\ OkOn(Home[b], a, b)' =>
                           http'[Home[a]].op = http'[Home[b]].op
                      /\ (HasHalf(a, b)' <=> HasHalf(b, a)')
                           <=> (OkOn(Home[a], a, b)' <=> OkOn(Home[b], a, b)')
    BY DEF Settled
  <2>4. Home[a] \in Partition /\ Home[b] \in Partition /\ {a, b} \notin broken
    BY HomeIsPartition
  <2> QED
    BY <2>1, <2>2, <2>3, <2>4 DEF Inv, Settled
<1> QED
  BY <1>2, <1>3, <1>4, <1>5, <1>6 DEF Inv

LEMMA DisconnectKeepsInv ==
  ASSUME Inv, NEW p \in Partition, Disconnect(p)
  PROVE  Inv'
<1>1. broken' = broken \cup {{http[p].here, http[p].far}}
  BY DEF Disconnect
<1>2. Return(p) /\ UNCHANGED <<store, up, failed>> /\ (Calling(p) \/ Answered(p))
  BY DEF Disconnect
<1>3. \A c \in late' : c \in late \/ /\ c = http[p] /\ Calling(p)
                                     /\ Home[c.far] \in up /\ {c.here, c.far} \in broken'
  BY <1>1 DEF Disconnect, Abandoned
<1> QED
  BY <1>1, <1>2, <1>3, GiveUpKeepsInv

\* A process that ends takes its halves along.
LEMMA StopKeepsInv ==
  ASSUME Inv, NEW p \in Partition, Stop(p), UNCHANGED broken
  PROVE  Inv'
<1>1. TypeOK /\ Shape
  BY DEF Inv
<1>2. /\ http'[p] = Idle /\ \A r \in Partition : r # p => http'[r] = http[r]
      /\ http' \in [Partition -> {Idle} \cup UNION {CallOf(r) : r \in Partition}]
      /\ raced' = raced \ {p}
      /\ BothRace'
  BY ReturnIs DEF Stop
<1>3. /\ store'[p] = EmptyGraph /\ \A r \in Partition : r # p => store'[r] = store[r]
      /\ store' = [r \in Partition |-> store'[r]]
      /\ up' = up \ {p} /\ failed' = failed \cup {p}
  BY <1>1 DEF Stop, Shape
<1>4. \A c \in late' : \/ c \in late /\ Home[c.far] # p
                       \/ c = http[p] /\ Calling(p) /\ Home[c.far] \in up
  BY DEF Stop, Abandoned
<1>5. TypeOK' /\ Shape'
  <2>1. \A r \in Partition : http'[r] \in {Idle} \cup CallOf(r)
    BY <1>1, <1>2 DEF TypeOK, CallOf
  <2>2. \A c \in late' : \E r \in Partition : c \in CallOf(r)
    BY <1>1, <1>4, CallIs DEF Shape
  <2>3. \A c \in late' : c.pc = "calling" /\ Home[c.far] \in up'
    BY <1>1, <1>3, <1>4, CallIs DEF TypeOK, Calling
  <2>4. IsGraph(EmptyGraph, Local(p), Node)
    BY DEF IsGraph, EmptyGraph
  <2> QED
    BY <1>1, <1>2, <1>3, <2>1, <2>2, <2>3, <2>4 DEF TypeOK, Shape, CallOf
<1>6. LateIsLost'
  <2>1. Calling(p) => Home[http[p].here] = p
    BY <1>1, CallIs
  <2> QED
    BY <1>3, <1>4, <2>1 DEF Inv, LateIsLost
<1>7. \A a, b \in Node : Home[a] # p => (HasHalf(a, b)' <=> HasHalf(a, b))
  BY <1>3, HomeIsPartition DEF HasHalf
<1>8. OwnHalfKept'
  <2> SUFFICES ASSUME NEW r \in Partition, http'[r] # Idle, Calling(r)' \/ http'[r].ok,
                      r \notin raced', NEW x, x = http'[r].here, NEW y, y = http'[r].far
               PROVE  HasHalf(x, y)' <=> http'[r].op = RemovePart
    BY DEF OwnHalfKept, HasHalf
  <2>1. /\ r # p /\ http'[r] = http[r] /\ http[r] # Idle /\ r \notin raced
        /\ Calling(r) \/ http[r].ok
    BY <1>2 DEF Calling
  <2>2. x \in Node /\ y \in Node /\ Home[x] = r
    BY <1>1, <2>1, CallIs
  <2> QED
    BY <1>7, <2>1, <2>2 DEF Inv, OwnHalfKept
<1>9. Settled'
  <2>1. \A r, a, b : r \in Partition /\ r # p => (OkOn(r, a, b)' <=> OkOn(r, a, b))
    BY ReturnIs DEF Stop
  <2> SUFFICES ASSUME NEW a \in Node, NEW b \in Node, Home[a] # Home[b],
                      {a, b} \notin broken, {Home[a], Home[b]} \cap failed' = {}
               PROVE  /\ OkOn(Home[a], a, b)' => (HasHalf(b, a)' <=> http'[Home[a]].op = AddPart)
                      /\ OkOn(Home[a], a, b)' /\ OkOn(Home[b], a, b)' =>
                           http'[Home[a]].op = http'[Home[b]].op
                      /\ (HasHalf(a, b)' <=> HasHalf(b, a)')
                           <=> (OkOn(Home[a], a, b)' <=> OkOn(Home[b], a, b)')
    BY DEF Settled
  <2>2. /\ Home[a] \in Partition /\ Home[b] \in Partition
        /\ Home[a] # p /\ Home[b] # p /\ {Home[a], Home[b]} \cap failed = {}
    BY <1>3, HomeIsPartition
  <2> QED
    BY <1>2, <1>7, <2>1, <2>2 DEF Inv, Settled
<1> QED
  BY <1>2, <1>5, <1>6, <1>8, <1>9 DEF Inv

LEMMA RestartKeepsInv ==
  ASSUME Inv, NEW p \in Partition, Restart(p)
  PROVE  Inv'
<1>1. /\ UNCHANGED <<store, http, late, failed, broken, raced>>
      /\ up' = up \cup {p}
  BY DEF Restart
<1>2. TypeOK' /\ Shape'
  BY <1>1 DEF Inv, TypeOK, Shape
<1>3. LateIsLost' /\ BothRace'
  BY <1>1 DEF Inv, LateIsLost, BothRace, Handles
<1>4. OwnHalfKept'
  BY <1>1 DEF Inv, OwnHalfKept, HasHalf, Calling
<1>5. Settled'
  <2>1. \A r, a, b : r \in Partition => (OkOn(r, a, b)' <=> OkOn(r, a, b))
    BY <1>1 DEF OkOn, Answered, Handles
  <2>2. \A a, b : HasHalf(a, b)' <=> HasHalf(a, b)
    BY <1>1 DEF HasHalf
  <2>3. \A a \in Node : Home[a] \in Partition
    BY HomeIsPartition
  <2> QED
    BY <1>1, <2>1, <2>2, <2>3 DEF Inv, Settled
<1> QED
  BY <1>2, <1>3, <1>4, <1>5 DEF Inv

\* The end of a request whose own half is updated after the far one.
LEMMA FinishKeepsInv ==
  ASSUME Inv, NEW p \in Partition, Finish(p)
  PROVE  Inv'
<1>1. TypeOK /\ Shape /\ Answered(p)
  BY DEF Inv, Finish
<1>2. CASE ~http[p].ok /\ Return(p) /\ UNCHANGED <<store, late, up, failed>>
  BY <1>1, <1>2, GiveUpKeepsInv DEF Finish
<1>3. CASE WillExit(p) /\ Stop(p)
  BY <1>3, StopKeepsInv DEF Finish
<1>4. CASE /\ http[p].ok /\ ~WillExit(p)
           /\ store' = [store EXCEPT ![p] = OwnHalf(p).nodes]
           /\ Return(p)
           /\ UNCHANGED <<late, up, failed>>
  <2>1. PICK n \in Node, m \in Node, op \in {AddPart, RemovePart} :
          /\ n = http[p].here /\ m = http[p].far /\ op = http[p].op
          /\ Home[n] = p /\ Home[m] # p /\ http[p] # Idle
    BY <1>1, CallIs
  <2> DEFINE q == Home[m]
  <2>2. q \in Partition /\ q # p /\ n # m
    BY <2>1, HomeIsPartition
  <2>3. Apply(store[Home[n]], op, n, m).status = "SUCCESS"
    BY <1>1, <1>4, <2>1 DEF WillExit, OwnHalf
  <2>4. store' = [store EXCEPT ![Home[n]] = Apply(store[Home[n]], op, n, m).nodes]
    BY <1>4, <2>1 DEF OwnHalf
  <2>5. Updated(op, n, m, TRUE)
    <3>1. Updated(op, n, m, Apply(store[Home[n]], op, n, m).status = "SUCCESS")
      BY <2>2, <2>4, UpdateIs
    <3> QED
      BY <2>3, <3>1
  <2>6. /\ HasHalf(n, m) <=> op = RemovePart
        /\ HasHalf(n, m)' <=> op = AddPart
        /\ \A a, b \in Node : ~(a = n /\ b = m) => (HasHalf(a, b)' <=> HasHalf(a, b))
    BY <2>5 DEF Updated
  <2>7. /\ http'[p] = Idle /\ \A r \in Partition : r # p => http'[r] = http[r]
        /\ http' \in [Partition -> {Idle} \cup UNION {CallOf(r) : r \in Partition}]
        /\ raced' = raced \ {p} /\ BothRace'
    BY <1>4, ReturnIs
  <2>8. UNCHANGED <<late, up, failed, broken>>
    BY <1>4 DEF Finish
  <2>9. TypeOK' /\ Shape'
    <3>1. \A r \in Partition : http'[r] \in {Idle} \cup CallOf(r)
      BY <1>1, <2>7 DEF TypeOK, CallOf
    <3> QED
      BY <1>1, <2>5, <2>7, <2>8, <3>1 DEF TypeOK, Shape, CallOf, Updated
  <2>10. LateIsLost'
    BY <2>8 DEF Inv, LateIsLost
  <2>11. OwnHalfKept'
    <3> SUFFICES ASSUME NEW r \in Partition, http'[r] # Idle, Calling(r)' \/ http'[r].ok,
                        r \notin raced', NEW x, x = http'[r].here, NEW y, y = http'[r].far
                 PROVE  HasHalf(x, y)' <=> http'[r].op = RemovePart
      BY DEF OwnHalfKept, HasHalf
    <3>1. /\ r # p /\ http'[r] = http[r] /\ http[r] # Idle /\ r \notin raced
          /\ Calling(r) \/ http[r].ok
      BY <2>7 DEF Calling
    <3>2. x \in Node /\ y \in Node /\ Home[x] = r
      BY <1>1, <3>1, CallIs
    <3> QED
      BY <2>1, <2>6, <3>1, <3>2 DEF Inv, OwnHalfKept
  <2>12. Settled'
    <3>1. /\ \A r, a, b : r \in Partition /\ r # p => (OkOn(r, a, b)' <=> OkOn(r, a, b))
          /\ \A a, b : ~OkOn(p, a, b)'
      BY <1>4, ReturnIs
    <3>2. \A a, b : OkOn(p, a, b) <=> {a, b} = {n, m}
      BY <1>1, <1>4, <2>1 DEF OkOn, Answered, Handles
    <3> HIDE DEF q
    <3> SUFFICES ASSUME NEW a \in Node, NEW b \in Node, Home[a] # Home[b],
                        {a, b} \notin broken, {Home[a], Home[b]} \cap failed = {}
                 PROVE  /\ OkOn(Home[a], a, b)' => (HasHalf(b, a)' <=> http'[Home[a]].op = AddPart)
                        /\ OkOn(Home[a], a, b)' /\ OkOn(Home[b], a, b)' =>
                             http'[Home[a]].op = http'[Home[b]].op
                        /\ (HasHalf(a, b)' <=> HasHalf(b, a)')
                             <=> (OkOn(Home[a], a, b)' <=> OkOn(Home[b], a, b)')
      BY <2>8 DEF Settled
    <3>3. Home[a] \in Partition /\ Home[b] \in Partition
      BY HomeIsPartition
    <3>4. /\ OkOn(Home[a], a, b) => (HasHalf(b, a) <=> http[Home[a]].op = AddPart)
          /\ OkOn(Home[b], b, a) => (HasHalf(a, b) <=> http[Home[b]].op = AddPart)
          /\ (HasHalf(a, b) <=> HasHalf(b, a))
               <=> (OkOn(Home[a], a, b) <=> OkOn(Home[b], a, b))
          /\ OkOn(Home[a], a, b) /\ OkOn(Home[b], a, b) =>
               http[Home[a]].op = http[Home[b]].op
      <4>1. {b, a} = {a, b} /\ {Home[b], Home[a]} = {Home[a], Home[b]}
        OBVIOUS
      <4> QED
        BY <4>1 DEF Inv, Settled
    <3>5. CASE {a, b} # {n, m}
      <4>1. \A r \in Partition : OkOn(r, a, b)' <=> OkOn(r, a, b)
        BY <3>1, <3>2, <3>5
      <4>2. (HasHalf(a, b)' <=> HasHalf(a, b)) /\ (HasHalf(b, a)' <=> HasHalf(b, a))
        BY <2>6, <3>5
      <4>3. \A r \in Partition : OkOn(r, a, b) => http'[r] = http[r]
        BY <2>7, <3>2, <3>5
      <4> QED
        BY <3>3, <3>4, <4>1, <4>2, <4>3
    <3>6. CASE a = n /\ b = m
      <4>1. Home[a] = p /\ Home[b] = q /\ OkOn(p, a, b)
        BY <2>1, <3>2, <3>6 DEF q
      <4>2. HasHalf(b, a) <=> op = AddPart
        BY <2>1, <3>4, <4>1
      <4>3. HasHalf(b, a)' <=> HasHalf(b, a)
        BY <2>2, <2>6, <3>6
      <4>4. ~OkOn(q, a, b)
        BY <2>6, <3>4, <3>6, <4>1, <4>2, Ops
      <4> QED
        BY <2>2, <2>6, <3>1, <3>6, <4>1, <4>2, <4>3, <4>4
    <3>7. CASE a = m /\ b = n
      <4>1. Home[b] = p /\ Home[a] = q /\ OkOn(p, a, b) /\ OkOn(p, b, a)
        BY <2>1, <3>2, <3>7 DEF q
      <4>2. HasHalf(a, b) <=> op = AddPart
        BY <2>1, <3>4, <4>1
      <4>3. HasHalf(a, b)' <=> HasHalf(a, b)
        BY <2>2, <2>6, <3>7
      <4>4. ~OkOn(q, a, b)
        BY <2>6, <3>4, <3>7, <4>1, <4>2, Ops
      <4> QED
        BY <2>2, <2>6, <3>1, <3>7, <4>1, <4>2, <4>3, <4>4
    <3> QED
      BY <3>5, <3>6, <3>7
  <2> QED
    BY <2>7, <2>9, <2>10, <2>11, <2>12 DEF Inv
<1> QED
  BY <1>2, <1>3, <1>4 DEF Finish

LEMMA InitHasInv ==
  ASSUME Init
  PROVE  Inv
<1>1. \A a, b \in Node : ~HasHalf(a, b)
  BY HomeIsPartition DEF Init, HasHalf, GetEdgePart, HasNode, EmptyGraph
<1>2. \A p, a, b : p \in Partition => ~Handles(p, a, b) /\ ~OkOn(p, a, b)
  BY DEF Init, Handles, OkOn, Idle
<1>3. TypeOK /\ Shape
  BY DEF Init, TypeOK, Shape, IsGraph, EmptyGraph
<1>4. LateIsLost /\ BothRace /\ OwnHalfKept
  BY <1>2 DEF Init, LateIsLost, BothRace, OwnHalfKept
<1>5. Settled
  BY <1>1, <1>2, HomeIsPartition DEF Settled
<1> QED
  BY <1>3, <1>4, <1>5 DEF Inv

LEMMA RequestKeepsInv ==
  ASSUME Inv, NEW p \in Partition, Request(p)
  PROVE  Inv'
<1>1. CASE \E n \in Local(p) : add_node(p, n)
  BY <1>1, AddNodeKeepsInv
<1>2. ASSUME NEW here \in Local(p), NEW far \in Far(p), add_edge_partition(p, here, far)
      PROVE  Inv'
  BY <1>2, StartKeepsInv, Ops DEF add_edge_partition
<1>3. ASSUME NEW here \in Local(p), NEW far \in Far(p), remove_edge_partition(p, here, far)
      PROVE  Inv'
  BY <1>3, StartKeepsInv, Ops DEF remove_edge_partition
<1> QED
  BY <1>1, <1>2, <1>3 DEF Request

LEMMA StepKeepsInv ==
  ASSUME Inv, [Next]_vars
  PROVE  Inv'
<1>1. CASE UNCHANGED vars
  <2>1. UNCHANGED <<store, http, late, up, failed, broken, raced>>
    BY <1>1 DEF vars
  <2>2. TypeOK' /\ Shape' /\ LateIsLost'
    BY <2>1 DEF Inv, TypeOK, Shape, LateIsLost
  <2>3. BothRace'
    BY <2>1 DEF Inv, BothRace, Handles
  <2>4. OwnHalfKept'
    BY <2>1 DEF Inv, OwnHalfKept, HasHalf, Calling
  <2>5. Settled'
    <3>1. \A p, a, b : p \in Partition => (OkOn(p, a, b)' <=> OkOn(p, a, b))
      BY <2>1 DEF OkOn, Handles, Answered
    <3>2. \A a, b : HasHalf(a, b)' <=> HasHalf(a, b)
      BY <2>1 DEF HasHalf
    <3> QED
      BY <2>1, <3>1, <3>2, HomeIsPartition DEF Inv, Settled
  <2> QED
    BY <2>2, <2>3, <2>4, <2>5 DEF Inv
<1>2. CASE Next
  BY <1>2, RequestKeepsInv, ServeKeepsInv, FinishKeepsInv, DisconnectKeepsInv,
     StopKeepsInv, RestartKeepsInv, ServeLateKeepsInv DEF Next, Crash
<1> QED
  BY <1>1, <1>2

LEMMA InvAlways == Spec => []Inv
<1>1. Init => Inv
  BY InitHasInv
<1>2. Inv /\ [Next]_vars => Inv'
  BY StepKeepsInv
<1> QED
  BY <1>1, <1>2, PTL DEF Spec

\* Every state of the partitions is of the declared shape, and no call waits
\* for the server of a dead process.
THEOREM TypeAlways == Spec => []TypeOK
<1>1. Inv => TypeOK
  BY DEF Inv
<1> QED
  BY <1>1, InvAlways, PTL

\* The halves of an edge differ only while a handler is between its two updates,
\* after a lost call, or after a process of one of its ends has died.
THEOREM HalvesAlways == Spec => []HalvesAgree
<1>1. ASSUME Inv, NEW a \in Node, NEW b \in Node, Home[a] # Home[b], Half(a, b),
             {a, b} \notin broken, {Home[a], Home[b]} \cap failed = {}
      PROVE  Halfway(a, b)
  <2>1. (HasHalf(a, b) <=> HasHalf(b, a))
           <=> (OkOn(Home[a], a, b) <=> OkOn(Home[b], a, b))
    BY <1>1 DEF Inv, Settled
  <2>2. HasHalf(a, b) # HasHalf(b, a)
    BY <1>1 DEF Half
  <2>3. HasHalf(a, b) \in BOOLEAN /\ HasHalf(b, a) \in BOOLEAN
    BY DEF HasHalf
  <2>4. ~(OkOn(Home[a], a, b) <=> OkOn(Home[b], a, b))
    BY <2>1, <2>2, <2>3
  <2> QED
    BY <2>4 DEF Halfway, OkOn
<1>2. Inv => HalvesAgree
  BY <1>1 DEF HalvesAgree
<1> QED
  BY <1>2, InvAlways, PTL

\* A process ends itself after a successful remote call only if the node named
\* is missing or its handler raced one of the other end.
THEOREM ExitsAlways == Spec => []ExitsOnlyOnRaces
<1>1. ASSUME Inv, NEW p \in Partition, WillExit(p), HasNode(store[p], http[p].here)
      PROVE  p \in raced
  <2>1. PICK n \in Node, m \in Node, op \in {AddPart, RemovePart} :
          /\ n = http[p].here /\ m = http[p].far /\ op = http[p].op
          /\ Home[n] = p /\ Home[m] # p /\ http[p] # Idle
    BY <1>1, CallIs DEF Inv, WillExit
  <2>2. IsGraph(store[p], Local(p), Node) /\ n \in Local(p) /\ n # m
    BY <1>1, <2>1 DEF Inv, TypeOK, Local
  <2>3. ~(HalfIn(store[p], n, m) <=> op = RemovePart)
    BY <1>1, <2>1, <2>2, ApplyIs DEF WillExit, OwnHalf
  <2> QED
    BY <1>1, <2>1, <2>3 DEF Inv, OwnHalfKept, WillExit, HasHalf, HalfIn
<1>2. Inv => ExitsOnlyOnRaces
  BY <1>1 DEF ExitsOnlyOnRaces
<1> QED
  BY <1>2, InvAlways, PTL

-----------------------------------------------------------------------------
\* A half that was left behind stays behind.

\* It does in a step that keeps both halves, lets no handler of the edge get
\* halfway and makes no call for it that could have an effect.
LEMMA KeepsStranded ==
  ASSUME NEW a \in Node, NEW b \in Node, Home[a] # Home[b], Stranded(a, b),
         HasHalf(a, b)' <=> HasHalf(a, b), HasHalf(b, a)' <=> HasHalf(b, a),
         \A p \in Partition : OkOn(p, a, b)' => OkOn(p, a, b),
         \A c \in late' : {c.here, c.far} = {a, b} => c \in InFlight(a, b),
         \A p \in Partition : Calling(p)' /\ {http'[p].here, http'[p].far} = {a, b} =>
           \/ http'[p] \in InFlight(a, b)
           \/ HasHalf(http'[p].far, http'[p].here) <=> http'[p].op = AddPart
  PROVE  Stranded(a, b)'
<1>1. Home[a] \in Partition /\ Home[b] \in Partition
  BY HomeIsPartition
<1>2. Half(a, b)'
  <2>1. HasHalf(a, b) # HasHalf(b, a)
    BY DEF Stranded, Half
  <2>2. /\ HasHalf(a, b) \in BOOLEAN /\ HasHalf(b, a) \in BOOLEAN
        /\ HasHalf(a, b)' \in BOOLEAN /\ HasHalf(b, a)' \in BOOLEAN
    BY DEF HasHalf
  <2> QED
    BY <2>1, <2>2 DEF Half
<1>3. ~Halfway(a, b)'
  <2>1. \A p \in {Home[a], Home[b]} : ~OkOn(p, a, b)
    BY DEF Stranded, Halfway, OkOn
  <2>2. \A p \in {Home[a], Home[b]} : ~OkOn(p, a, b)'
    BY <1>1, <2>1
  <2> QED
    BY <2>2 DEF Halfway, OkOn
<1>4. ASSUME NEW c \in InFlight(a, b)'
      PROVE  (HasHalf(c.far, c.here) <=> c.op = AddPart)'
  <2>1. {c.here, c.far} = {a, b}
    BY <1>4 DEF InFlight
  <2>2. HasHalf(c.far, c.here) <=> c.op = AddPart
    <3>1. c \in late' \/ \E p \in Partition : Calling(p)' /\ c = http'[p]
      BY <1>4 DEF InFlight
    <3>2. \A d \in InFlight(a, b) : HasHalf(d.far, d.here) <=> d.op = AddPart
      BY DEF Stranded
    <3> QED
      BY <2>1, <3>1, <3>2
  <2>3. (c.here = a /\ c.far = b) \/ (c.here = b /\ c.far = a)
    BY <2>1
  <2> QED
    BY <2>2, <2>3
<1> QED
  BY <1>2, <1>3, <1>4 DEF Stranded

\* The call of a thread, or one that nobody waits for, has no effect on it.
LEMMA SpentCall ==
  ASSUME Inv, NEW a \in Node, NEW b \in Node, Home[a] # Home[b], Stranded(a, b),
         NEW p0 \in Partition, NEW c \in CallOf(p0),
         c \in late \/ \E p \in Partition : Calling(p) /\ c = http[p],
         store' = [store EXCEPT ![Home[c.far]] = FarHalf(c).nodes]
  PROVE  /\ HasHalf(a, b)' <=> HasHalf(a, b)
         /\ HasHalf(b, a)' <=> HasHalf(b, a)
         /\ {c.here, c.far} = {a, b} => FarHalf(c).status # "SUCCESS"
<1>1. PICK n \in Node, m \in Node, op \in {AddPart, RemovePart} :
        n = c.here /\ m = c.far /\ op = c.op /\ Home[n] = p0 /\ Home[m] # p0
  BY DEF CallOf, Local, Far
<1> DEFINE s == Apply(store[Home[m]], op, m, n).status = "SUCCESS"
<1>2. store' = [store EXCEPT ![Home[m]] = Apply(store[Home[m]], op, m, n).nodes]
  BY <1>1 DEF FarHalf
<1>3. Updated(op, m, n, s) /\ (s <=> FarHalf(c).status = "SUCCESS")
  BY <1>1, <1>2, UpdateIs DEF FarHalf
<1> HIDE DEF s
<1>4. CASE {n, m} = {a, b}
  <2>1. c \in InFlight(a, b)
    BY <1>1, <1>4 DEF InFlight
  <2>2. HasHalf(m, n) <=> op = AddPart
    BY <1>1, <2>1 DEF Stranded
  <2>3. ~s
    BY <1>3, <2>2, Ops DEF Updated
  <2> QED
    BY <1>3, <2>3 DEF Updated
<1>5. CASE {n, m} # {a, b}
  BY <1>1, <1>3, <1>5 DEF Updated
<1> QED
  BY <1>4, <1>5

LEMMA AddNodeStrands ==
  ASSUME Inv, NEW a \in Node, NEW b \in Node, Home[a] # Home[b], Stranded(a, b),
         NEW p \in Partition, NEW n \in Local(p), add_node(p, n)
  PROVE  Stranded(a, b)'
<1>1. /\ store' = [store EXCEPT ![p] = AddNode(store[p], n).nodes]
      /\ UNCHANGED <<http, late, up, failed, broken, raced>>
  BY DEF add_node
<1>2. \A x, y \in Node : HasHalf(x, y)' <=> HasHalf(x, y)
  BY <1>1, AddNodeHalves
<1>3. \A q \in Partition : OkOn(q, a, b)' <=> OkOn(q, a, b)
  BY <1>1 DEF OkOn, Handles, Answered
<1>4. \A c \in late' : {c.here, c.far} = {a, b} => c \in InFlight(a, b)
  BY <1>1 DEF InFlight
<1>5. \A q \in Partition : Calling(q)' /\ {http'[q].here, http'[q].far} = {a, b} =>
        http'[q] \in InFlight(a, b)
  BY <1>1 DEF InFlight, Calling
<1> QED
  BY <1>2, <1>3, <1>4, <1>5, KeepsStranded

LEMMA StartStrands ==
  ASSUME Inv, NEW a \in Node, NEW b \in Node, Home[a] # Home[b], Stranded(a, b),
         NEW p \in Partition, NEW here \in Local(p), NEW far \in Far(p),
         NEW op \in {AddPart, RemovePart}, NEW found,
         StartEdge(p, op, here, far, found),
         found = "SUCCESS" <=> op = RemovePart
  PROVE  Stranded(a, b)'
<1> DEFINE c == Call("calling", op, here, far, FALSE)
<1>1. /\ http[p] = Idle /\ http' = [http EXCEPT ![p] = c]
      /\ HasHalf(here, far) <=> op = RemovePart
      /\ UNCHANGED <<store, late, up, failed, broken>>
  BY DEF StartEdge, HasHalf, Local
<1>2. c.pc = "calling" /\ c.op = op /\ c.here = here /\ c.far = far
  BY DEF Call
<1> HIDE DEF c
<1>3. http'[p] = c /\ \A q \in Partition : q # p => http'[q] = http[q]
  BY <1>1 DEF Inv, Shape
<1>4. \A x, y : HasHalf(x, y)' <=> HasHalf(x, y)
  BY <1>1 DEF HasHalf
<1>5. \A q \in Partition : OkOn(q, a, b)' => OkOn(q, a, b)
  BY <1>2, <1>3 DEF OkOn, Handles, Answered
<1>6. \A d \in late' : {d.here, d.far} = {a, b} => d \in InFlight(a, b)
  BY <1>1 DEF InFlight
<1>7. ASSUME {here, far} = {a, b}
      PROVE  HasHalf(far, here) <=> op = AddPart
  <2>1. HasHalf(a, b) # HasHalf(b, a)
    BY DEF Stranded, Half
  <2>2. HasHalf(a, b) \in BOOLEAN /\ HasHalf(b, a) \in BOOLEAN
    BY DEF HasHalf
  <2>3. (here = a /\ far = b) \/ (here = b /\ far = a)
    BY <1>7
  <2> QED
    BY <1>1, <2>1, <2>2, <2>3, Ops
<1>8. \A q \in Partition : Calling(q)' /\ {http'[q].here, http'[q].far} = {a, b} =>
        \/ http'[q] \in InFlight(a, b)
        \/ HasHalf(http'[q].far, http'[q].here) <=> http'[q].op = AddPart
  BY <1>2, <1>3, <1>7 DEF InFlight, Calling
<1> QED
  BY <1>4, <1>5, <1>6, <1>8, KeepsStranded

LEMMA ServeStrands ==
  ASSUME Inv, NEW a \in Node, NEW b \in Node, Home[a] # Home[b], Stranded(a, b),
         NEW p \in Partition, Serve(p)
  PROVE  Stranded(a, b)'
<1>1. /\ Calling(p) /\ UNCHANGED late /\ http[p] \in CallOf(p)
      /\ store' = [store EXCEPT ![Home[http[p].far]] = FarHalf(http[p]).nodes]
      /\ http' = [http EXCEPT ![p].pc = "answered",
                              ![p].ok = FarHalf(http[p]).status = "SUCCESS"]
  BY CallIs DEF Serve, Inv
<1>2. /\ HasHalf(a, b)' <=> HasHalf(a, b)
      /\ HasHalf(b, a)' <=> HasHalf(b, a)
      /\ {http[p].here, http[p].far} = {a, b} => FarHalf(http[p]).status # "SUCCESS"
  BY <1>1, SpentCall
<1> DEFINE s == FarHalf(http[p]).status = "SUCCESS"
<1>3. /\ http'[p].pc = "answered" /\ http'[p].ok = s
      /\ http'[p].here = http[p].here /\ http'[p].far = http[p].far
      /\ \A q \in Partition : q # p => http'[q] = http[q]
  <2> DEFINE d == [http[p] EXCEPT !.pc = "answered", !.ok = s]
  <2>1. s \in BOOLEAN
    OBVIOUS
  <2> HIDE DEF s
  <2>2. /\ d.pc = "answered" /\ d.ok = s
        /\ d.here = http[p].here /\ d.far = http[p].far
    BY <1>1, <2>1 DEF CallOf
  <2>3. http' = [http EXCEPT ![p] = d]
    BY <1>1 DEF s, Inv, Shape
  <2> HIDE DEF d
  <2>4. http'[p] = d /\ \A q \in Partition : q # p => http'[q] = http[q]
    BY <2>3 DEF Inv, Shape
  <2> QED
    BY <2>2, <2>4
<1> HIDE DEF s
<1>4. \A q \in Partition : OkOn(q, a, b)' => OkOn(q, a, b)
  <2>1. ~OkOn(p, a, b)'
    BY <1>2, <1>3 DEF OkOn, Handles, s
  <2> QED
    BY <1>3, <2>1 DEF OkOn, Handles, Answered
<1>5. \A d \in late' : {d.here, d.far} = {a, b} => d \in InFlight(a, b)
  BY <1>1 DEF InFlight
<1>6. \A q \in Partition : Calling(q)' /\ {http'[q].here, http'[q].far} = {a, b} =>
        http'[q] \in InFlight(a, b)
  BY <1>3 DEF InFlight, Calling
<1> QED
  BY <1>2, <1>4, <1>5, <1>6, KeepsStranded

LEMMA ServeLateStrands ==
  ASSUME Inv, NEW a \in Node, NEW b \in Node, Home[a] # Home[b], Stranded(a, b),
         NEW c \in late, ServeLate(c)
  PROVE  Stranded(a, b)'
<1>1. /\ late' \subseteq late /\ UNCHANGED http
      /\ store' = [store EXCEPT ![Home[c.far]] = FarHalf(c).nodes]
  BY DEF ServeLate
<1>2. PICK p0 \in Partition : c \in CallOf(p0)
  BY DEF Inv, Shape
<1>3. /\ HasHalf(a, b)' <=> HasHalf(a, b)
      /\ HasHalf(b, a)' <=> HasHalf(b, a)
  BY <1>1, <1>2, SpentCall
<1>4. \A q \in Partition : OkOn(q, a, b)' <=> OkOn(q, a, b)
  BY <1>1 DEF OkOn, Handles, Answered
<1>5. \A d \in late' : {d.here, d.far} = {a, b} => d \in InFlight(a, b)
  BY <1>1 DEF InFlight
<1>6. \A q \in Partition : Calling(q)' /\ {http'[q].here, http'[q].far} = {a, b} =>
        http'[q] \in InFlight(a, b)
  BY <1>1 DEF InFlight, Calling
<1> QED
  BY <1>3, <1>4, <1>5, <1>6, KeepsStranded

\* A request that ends and changes neither half leaves nothing but its call.
LEMMA ReturnStrands ==
  ASSUME Inv, NEW a \in Node, NEW b \in Node, Home[a] # Home[b], Stranded(a, b),
         NEW p \in Partition, Return(p),
         HasHalf(a, b)' <=> HasHalf(a, b), HasHalf(b, a)' <=> HasHalf(b, a),
         \A c \in late' : c \in late \/ (c = http[p] /\ Calling(p))
  PROVE  Stranded(a, b)'
<1>1. /\ http'[p] = Idle /\ \A q \in Partition : q # p => http'[q] = http[q]
      /\ \A q \in Partition : OkOn(q, a, b)' => OkOn(q, a, b)
  BY ReturnIs
<1>2. \A d \in late' : {d.here, d.far} = {a, b} => d \in InFlight(a, b)
  BY DEF InFlight
<1>3. \A q \in Partition : Calling(q)' /\ {http'[q].here, http'[q].far} = {a, b} =>
        http'[q] \in InFlight(a, b)
  BY <1>1 DEF InFlight, Calling, Idle
<1> QED
  BY <1>1, <1>2, <1>3, KeepsStranded

LEMMA StopStrands ==
  ASSUME Inv, NEW a \in Node, NEW b \in Node, Home[a] # Home[b], Stranded(a, b),
         NEW p \in Partition, Stop(p), Home[a] \in up', Home[b] \in up'
  PROVE  Stranded(a, b)'
<1>1. Return(p) /\ \A c \in late' : c \in late \/ (c = http[p] /\ Calling(p))
  BY DEF Stop, Abandoned
<1>2. Home[a] # p /\ Home[b] # p /\ \A r \in Partition : r # p => store'[r] = store[r]
  BY DEF Stop, Inv, Shape
<1>3. (HasHalf(a, b)' <=> HasHalf(a, b)) /\ (HasHalf(b, a)' <=> HasHalf(b, a))
  BY <1>2, HomeIsPartition DEF HasHalf
<1> QED
  BY <1>1, <1>3, ReturnStrands

LEMMA FinishStrands ==
  ASSUME Inv, NEW a \in Node, NEW b \in Node, Home[a] # Home[b], Stranded(a, b),
         NEW p \in Partition, Finish(p), Home[a] \in up', Home[b] \in up'
  PROVE  Stranded(a, b)'
<1>1. CASE ~http[p].ok /\ Return(p) /\ UNCHANGED <<store, late, up, failed>>
  BY <1>1, ReturnStrands DEF HasHalf
<1>2. CASE WillExit(p) /\ Stop(p)
  BY <1>2, StopStrands
<1>3. CASE /\ http[p].ok /\ ~WillExit(p)
           /\ store' = [store EXCEPT ![p] = OwnHalf(p).nodes]
           /\ Return(p)
           /\ UNCHANGED <<late, up, failed>>
  <2>0. Answered(p) /\ TypeOK
    BY DEF Finish, Inv
  <2>1. PICK n \in Node, m \in Node, op \in {AddPart, RemovePart} :
          /\ n = http[p].here /\ m = http[p].far /\ op = http[p].op
          /\ Home[n] = p /\ Home[m] # p /\ http[p] # Idle
    BY <2>0, CallIs
  <2>2. store' = [store EXCEPT ![Home[n]] = Apply(store[Home[n]], op, n, m).nodes]
    BY <1>3, <2>1 DEF OwnHalf
  <2>3. Updated(op, n, m, Apply(store[Home[n]], op, n, m).status = "SUCCESS")
    BY <2>1, <2>2, UpdateIs
  <2>4. {n, m} # {a, b}
    <3>1. SUFFICES ASSUME {n, m} = {a, b} PROVE FALSE
      OBVIOUS
    <3>2. OkOn(p, a, b)
      BY <1>3, <2>0, <2>1, <3>1, CallIs DEF OkOn, Handles
    <3>3. p \in {Home[a], Home[b]}
      BY <2>1, <3>1
    <3> QED
      BY <3>2, <3>3 DEF Stranded, Halfway, OkOn
  <2>5. (HasHalf(a, b)' <=> HasHalf(a, b)) /\ (HasHalf(b, a)' <=> HasHalf(b, a))
    BY <2>3, <2>4 DEF Updated
  <2> QED
    BY <1>3, <2>5, ReturnStrands
<1> QED
  BY <1>1, <1>2, <1>3 DEF Finish

LEMMA DisconnectStrands ==
  ASSUME Inv, NEW a \in Node, NEW b \in Node, Home[a] # Home[b], Stranded(a, b),
         NEW p \in Partition, Disconnect(p)
  PROVE  Stranded(a, b)'
<1>1. Return(p) /\ \A c \in late' : c \in late \/ (c = http[p] /\ Calling(p))
  BY DEF Disconnect, Abandoned
<1>2. (HasHalf(a, b)' <=> HasHalf(a, b)) /\ (HasHalf(b, a)' <=> HasHalf(b, a))
  BY DEF Disconnect, HasHalf
<1> QED
  BY <1>1, <1>2, ReturnStrands

LEMMA RestartStrands ==
  ASSUME NEW a \in Node, NEW b \in Node, Home[a] # Home[b], Stranded(a, b),
         UNCHANGED <<store, http, late>>
  PROVE  Stranded(a, b)'
<1>1. (HasHalf(a, b)' <=> HasHalf(a, b)) /\ (HasHalf(b, a)' <=> HasHalf(b, a))
  BY DEF HasHalf
<1>2. \A q \in Partition : OkOn(q, a, b)' <=> OkOn(q, a, b)
  BY DEF OkOn, Handles, Answered
<1>3. \A d \in late' : {d.here, d.far} = {a, b} => d \in InFlight(a, b)
  BY DEF InFlight
<1>4. \A q \in Partition : Calling(q)' /\ {http'[q].here, http'[q].far} = {a, b} =>
        http'[q] \in InFlight(a, b)
  BY DEF InFlight, Calling
<1> QED
  BY <1>1, <1>2, <1>3, <1>4, KeepsStranded

\* A half that was left behind stays behind, whatever requests follow, until a
\* process of the edge loses its store.
THEOREM StrandedAlways == Spec => StrandedForGood
<1>1. ASSUME Inv, Next, NEW a \in Node, NEW b \in Node, Home[a] # Home[b],
             Stranded(a, b), Home[a] \in up', Home[b] \in up'
      PROVE  Stranded(a, b)'
  <2>1. ASSUME NEW p \in Partition, Request(p)
        PROVE  Stranded(a, b)'
    <3>1. CASE \E n \in Local(p) : add_node(p, n)
      BY <1>1, <3>1, AddNodeStrands
    <3>2. ASSUME NEW here \in Local(p), NEW far \in Far(p), add_edge_partition(p, here, far)
          PROVE  Stranded(a, b)'
      BY <1>1, <3>2, StartStrands, Ops DEF add_edge_partition
    <3>3. ASSUME NEW here \in Local(p), NEW far \in Far(p), remove_edge_partition(p, here, far)
          PROVE  Stranded(a, b)'
      BY <1>1, <3>3, StartStrands, Ops DEF remove_edge_partition
    <3> QED
      BY <2>1, <3>1, <3>2, <3>3 DEF Request
  <2>2. ASSUME NEW p \in Partition, Restart(p)
        PROVE  Stranded(a, b)'
    BY <1>1, <2>2, RestartStrands DEF Restart
  <2> QED
    BY <1>1, <2>1, <2>2, ServeStrands, FinishStrands, DisconnectStrands, StopStrands,
       ServeLateStrands DEF Next, Crash
<1>2. Inv /\ [Next]_vars =>
        [\A a, b \in Node :
           Home[a] # Home[b] /\ Stranded(a, b)
             => Stranded(a, b)' \/ ~({Home[a], Home[b]} \subseteq up')]_vars
  BY <1>1
<1> QED
  BY <1>2, InvAlways, PTL DEF Spec, StrandedForGood

-----------------------------------------------------------------------------
\* The steps the thread of p has yet to take for its request.
StepsLeft(p) == IF Calling(p) THEN 2 ELSE IF Answered(p) THEN 1 ELSE 0

\* A step of the thread of p takes its request on, and no step of another
\* partition, of a late call or of a fault takes it back.
TakenOn(p) ==
  /\ http[p] # Idle => http'[p] = http[p] \/ StepsLeft(p)' < StepsLeft(p)
  /\ Serve(p) \/ Disconnect(p) \/ Finish(p) => StepsLeft(p)' < StepsLeft(p)

LEMMA ReturnTakesOn ==
  ASSUME Inv, NEW p \in Partition, NEW q \in Partition, Return(q)
  PROVE  /\ http[p] # Idle => http'[p] = http[p] \/ StepsLeft(p)' < StepsLeft(p)
         /\ p = q /\ http[p] # Idle => StepsLeft(p)' < StepsLeft(p)
<1>1. http'[q] = Idle /\ \A r \in Partition : r # q => http'[r] = http[r]
  BY ReturnIs
<1>2. CASE p # q
  BY <1>1, <1>2
<1>3. CASE p = q
  <2>1. StepsLeft(p)' = 0
    BY <1>1, <1>3 DEF StepsLeft, Calling, Answered, Idle
  <2>2. http[p] # Idle => Calling(p) \/ Answered(p)
    BY CallIs DEF Inv
  <2> QED
    BY <1>3, <2>1, <2>2 DEF StepsLeft
<1> QED
  BY <1>2, <1>3

LEMMA ServeTakesOn ==
  ASSUME Inv, NEW p \in Partition, Serve(p)
  PROVE  StepsLeft(p)' < StepsLeft(p)
<1>1. Calling(p) /\ http[p] \in CallOf(p)
  BY CallIs DEF Inv, Serve
<1>2. http'[p].pc = "answered"
  BY <1>1 DEF Inv, Shape, Serve, CallOf
<1> QED
  BY <1>1, <1>2 DEF StepsLeft, Calling, Answered

\* However the requests of the partitions interleave, each is taken on by its
\* own thread only, from the call to the answer to the end: two handlers that
\* call each other, and a peer that dies, cannot keep it going round.
THEOREM RequestsAdvance == Spec => [][\A p \in Partition : TakenOn(p)]_vars
<1>1. ASSUME Inv, Next, NEW p \in Partition
      PROVE  http[p] # Idle => http'[p] = http[p] \/ StepsLeft(p)' < StepsLeft(p)
  <2> SUFFICES ASSUME http[p] # Idle
               PROVE  http'[p] = http[p] \/ StepsLeft(p)' < StepsLeft(p)
    OBVIOUS
  <2>0. Shape
    BY <1>1 DEF Inv
  <2>1. ASSUME NEW q \in Partition, Request(q)
        PROVE  http'[p] = http[p]
    BY <2>0, <2>1 DEF Shape, Request, add_node, add_edge_partition,
      remove_edge_partition, StartEdge
  <2>2. ASSUME NEW q \in Partition, Serve(q)
        PROVE  http'[p] = http[p] \/ StepsLeft(p)' < StepsLeft(p)
    <3>1. CASE p = q
      BY <1>1, <2>2, <3>1, ServeTakesOn
    <3>2. CASE p # q
      BY <2>0, <2>2, <3>2 DEF Shape, Serve
    <3> QED
      BY <3>1, <3>2
  <2>3. ASSUME NEW q \in Partition, Finish(q)
        PROVE  http'[p] = http[p] \/ StepsLeft(p)' < StepsLeft(p)
    BY <1>1, <2>3, ReturnTakesOn DEF Finish, Stop
  <2>4. ASSUME NEW q \in Partition, Disconnect(q)
        PROVE  http'[p] = http[p] \/ StepsLeft(p)' < StepsLeft(p)
    BY <1>1, <2>4, ReturnTakesOn DEF Disconnect
  <2>5. ASSUME NEW q \in Partition, Crash(q)
        PROVE  http'[p] = http[p] \/ StepsLeft(p)' < StepsLeft(p)
    BY <1>1, <2>5, ReturnTakesOn DEF Crash, Stop
  <2>6. ASSUME NEW q \in Partition, Restart(q)
        PROVE  http'[p] = http[p]
    BY <2>6 DEF Restart
  <2>7. ASSUME NEW c \in late, ServeLate(c)
        PROVE  http'[p] = http[p]
    BY <2>7 DEF ServeLate
  <2> QED
    BY <1>1, <2>1, <2>2, <2>3, <2>4, <2>5, <2>6, <2>7 DEF Next
<1>2. ASSUME Inv, NEW p \in Partition, Serve(p) \/ Disconnect(p) \/ Finish(p)
      PROVE  StepsLeft(p)' < StepsLeft(p)
  <2>1. http[p] # Idle
    BY <1>2, CallIs DEF Inv, Serve, Disconnect, Finish
  <2>2. CASE Serve(p)
    BY <1>2, <2>2, ServeTakesOn
  <2>3. CASE Disconnect(p)
    BY <1>2, <2>1, <2>3, ReturnTakesOn DEF Disconnect
  <2>4. CASE Finish(p)
    BY <1>2, <2>1, <2>4, ReturnTakesOn DEF Finish, Stop
  <2> QED
    BY <1>2, <2>2, <2>3, <2>4
<1>3. Inv /\ [Next]_vars => [\A p \in Partition : TakenOn(p)]_vars
  BY <1>1, <1>2 DEF TakenOn
<1> QED
  BY <1>3, InvAlways, PTL DEF Spec
=============================================================================
