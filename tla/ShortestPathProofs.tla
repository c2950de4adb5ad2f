-------------------------- MODULE ShortestPathProofs --------------------------
(***************************************************************************)
(* Proofs about ShortestPath, for any set of ids and any graph: finite or  *)
(* not, with walks of any length.  The induction over the length of walks  *)
(* is the induction over the search's own steps.                           *)
(***************************************************************************)
EXTENDS ShortestPath, FiniteSetTheorems, TLAPS

\* A graph as it is searched: an edge leads to a node, and not to its own.
IsSearchable(g) == \A n \in DOMAIN g : g[n] \subseteq DOMAIN g

LEMMA WalkOfNone ==
  ASSUME NEW g, NEW m \in DOMAIN g, NEW n
  PROVE  Walk(g, 0, m, n) <=> n = m
<1>1. ASSUME Walk(g, 0, m, n) PROVE n = m
  BY <1>1 DEF Walk
<1>2. ASSUME n = m PROVE Walk(g, 0, m, n)
  <2> DEFINE w == [i \in 0 .. 0 |-> m]
  <2>1. w \in [0 .. 0 -> DOMAIN g] /\ w[0] = m /\ w[0] = n
    BY <1>2
  <2> HIDE DEF w
  <2>2. \A i \in 0 .. 0 - 1 : w[i + 1] \in g[w[i]]
    OBVIOUS
  <2> QED
    BY <2>1, <2>2 DEF Walk
<1> QED
  BY <1>1, <1>2

\* A walk goes on along an edge.
LEMMA WalkLonger ==
  ASSUME NEW g, NEW k \in Nat, NEW m, NEW x, Walk(g, k, m, x),
         NEW y \in g[x], y \in DOMAIN g
  PROVE  Walk(g, k + 1, m, y)
<1>1. PICK w \in [0 .. k -> DOMAIN g] :
        /\ w[0] = m /\ w[k] = x
        /\ \A i \in 0 .. k - 1 : w[i + 1] \in g[w[i]]
  BY DEF Walk
<1> DEFINE v == [i \in 0 .. k + 1 |-> IF i = k + 1 THEN y ELSE w[i]]
<1>2. v \in [0 .. k + 1 -> DOMAIN g]
  OBVIOUS
<1>3. v[0] = m /\ v[k + 1] = y
  BY <1>1
<1>4. ASSUME NEW i \in 0 .. (k + 1) - 1 PROVE v[i + 1] \in g[v[i]]
  <2>1. CASE i = k
    BY <1>1, <2>1
  <2>2. CASE i # k
    <3>1. i \in 0 .. k - 1 /\ i + 1 \in 0 .. k /\ i + 1 # k + 1 /\ i # k + 1
      BY <2>2
    <3>2. v[i + 1] = w[i + 1] /\ v[i] = w[i]
      BY <3>1
    <3> QED
      BY <1>1, <3>1, <3>2
  <2> QED
    BY <2>1, <2>2
<1> HIDE DEF v
<1> QED
  BY <1>2, <1>3, <1>4 DEF Walk

\* A longer walk has a last edge.
LEMMA WalkShorter ==
  ASSUME NEW g, NEW k \in Nat, NEW m, NEW y, Walk(g, k + 1, m, y)
  PROVE  \E x \in DOMAIN g : Walk(g, k, m, x) /\ y \in g[x]
<1>1. PICK w \in [0 .. k + 1 -> DOMAIN g] :
        /\ w[0] = m /\ w[k + 1] = y
        /\ \A i \in 0 .. (k + 1) - 1 : w[i + 1] \in g[w[i]]
  BY DEF Walk
<1> DEFINE v == [i \in 0 .. k |-> w[i]]
<1>2. v \in [0 .. k -> DOMAIN g] /\ v[0] = m /\ v[k] = w[k]
  BY <1>1
<1>3. ASSUME NEW i \in 0 .. k - 1 PROVE v[i + 1] \in g[v[i]]
  BY <1>1
<1>4. Walk(g, k, m, w[k])
  <2> HIDE DEF v
  <2> QED
    BY <1>2, <1>3 DEF Walk
<1>5. y \in g[w[k]] /\ w[k] \in DOMAIN g
  BY <1>1
<1> QED
  BY <1>4, <1>5

-----------------------------------------------------------------------------
Reaches(k, n) == Walk(graph, k, nodeA, n)

\* n has been looked at, is not the node looked for, and all it leads to has
\* been queued.
Settled(n) == graph[n] \subseteq found /\ n # nodeB

\* What holds while the loop runs.
Types ==
  /\ distance \in Nat
  /\ nodeA \in DOMAIN graph /\ nodeB \in DOMAIN graph
  /\ toSearch \subseteq DOMAIN graph /\ nextSearch \subseteq DOMAIN graph
  /\ found \subseteq DOMAIN graph

\* The queues hold what they say.
Levels ==
  /\ \A n \in toSearch : Reaches(distance, n)
  /\ \A n \in nextSearch : Reaches(distance + 1, n)

\* Whatever is at most as far as this level is on it or settled, and whatever
\* was queued is in a queue or settled: the second is what the next level, and
\* the end of the search, rest on.
Frontier ==
  /\ \A k \in 0 .. distance : \A n \in DOMAIN graph :
       Reaches(k, n) => n \in toSearch \/ Settled(n)
  /\ \A n \in found \cup {nodeA} :
       n \in toSearch \/ n \in nextSearch \/ Settled(n)

\* The node looked for is no closer than this level.
NotYet == \A k \in 0 .. distance - 1 : ~Reaches(k, nodeB)

SearchInv ==
  /\ IsSearchable(graph)
  /\ searching => Types /\ Levels /\ Frontier /\ NotYet
  /\ DistanceIsShortest /\ NoneMeansApart /\ SearchNeverExits

LEMMA InitInv == Init => SearchInv
<1> SUFFICES ASSUME Init PROVE SearchInv
  OBVIOUS
<1>1. IsSearchable(graph)
  BY DEF Init, Drawn, IsSearchable
<1> QED
  BY <1>1 DEF Init, SearchInv, DistanceIsShortest, NoneMeansApart, Returned,
              SearchNeverExits, Answer

-----------------------------------------------------------------------------
\* The call up to its loop.
LEMMA CallInv ==
  ASSUME SearchInv, NEW a \in Id, NEW b \in Id, shortestPath(a, b)
  PROVE  SearchInv'
<1> USE DEF shortestPath
<1>0. graph' = graph /\ nodeA' = a /\ nodeB' = b
  BY DEF nodeA, nodeB
<1>1. CASE {a, b} \subseteq DOMAIN graph /\ a # b /\ searching' /\ UNCHANGED answer
  <2>1. ASSUME NEW n \in DOMAIN graph PROVE Walk(graph, 0, a, n) <=> n = a
    BY <1>1, WalkOfNone
  <2>2. Types'
    BY <1>0, <1>1 DEF Types
  <2>3. Levels'
    BY <1>0, <1>1, <2>1 DEF Levels, Reaches
  <2>4. Frontier'
    <3>1. distance' = 0 /\ toSearch' = {a} /\ found' = {}
      OBVIOUS
    <3>2. ASSUME NEW k \in 0 .. distance', NEW n \in DOMAIN graph', Reaches(k, n)'
          PROVE  n \in toSearch'
      <4>1. k = 0
        BY <3>1
      <4> QED
        BY <1>0, <2>1, <3>1, <3>2, <4>1 DEF Reaches
    <3> QED
      BY <1>0, <3>1, <3>2 DEF Frontier
  <2>5. NotYet'
    BY <1>1 DEF NotYet
  <2> QED
    BY <1>0, <1>1, <2>2, <2>3, <2>4, <2>5 DEF SearchInv, DistanceIsShortest,
       NoneMeansApart, SearchNeverExits, Returned, IsSearchable
<1>2. CASE Return("DOES_NOT_EXIST", 0) \/ (a = b /\ Return("NO_ACTION", 0))
  BY <1>0, <1>2 DEF SearchInv, DistanceIsShortest, NoneMeansApart,
     SearchNeverExits, Returned, IsSearchable, Return, Answer
<1> QED
  BY <1>1, <1>2

\* What stays as it is while the search goes on: the answer is not asked for.
LEMMA StillSearching ==
  ASSUME SearchInv, searching, searching', UNCHANGED <<graph, answer>>,
         Types', Levels', Frontier', NotYet'
  PROVE  SearchInv'
BY DEF SearchInv, DistanceIsShortest, NoneMeansApart, SearchNeverExits,
       Returned, IsSearchable

LEMMA LookAtInv ==
  ASSUME SearchInv, NEW n \in toSearch, LookAt(n)
  PROVE  SearchInv'
<1> USE DEF LookAt
<1>1. Types /\ Levels /\ Frontier /\ NotYet /\ IsSearchable(graph)
  BY DEF SearchInv
<1>2. n \in DOMAIN graph /\ graph[n] \subseteq DOMAIN graph
  BY <1>1 DEF Types, IsSearchable
<1>3. searching' /\ UNCHANGED <<graph, ends, distance, answer>>
  BY <1>2
<1>4. nodeA' = nodeA /\ nodeB' = nodeB
  BY <1>3 DEF nodeA, nodeB
<1>5. Types'
  BY <1>1, <1>2, <1>3, <1>4 DEF Types
<1>6. Levels'
  <2>1. ASSUME NEW m \in graph[n] PROVE Reaches(distance + 1, m)
    BY <1>1, <1>2, <2>1, WalkLonger DEF Types, Levels, Reaches
  <2>2. ASSUME NEW m \in toSearch' PROVE Reaches(distance, m)'
    BY <1>1, <1>3, <1>4 DEF Levels, Reaches
  <2>3. ASSUME NEW m \in nextSearch' PROVE Reaches(distance + 1, m)'
    BY <1>1, <1>3, <1>4, <2>1 DEF Levels, Reaches
  <2> QED
    BY <2>2, <2>3 DEF Levels
<1>7. Frontier'
  <2>1. \A m : Settled(m) => Settled(m)'
    BY <1>3, <1>4 DEF Settled
  <2>2. Settled(n)'
    BY <1>3, <1>4 DEF Settled
  <2>3. ASSUME NEW k \in 0 .. distance', NEW m \in DOMAIN graph', Reaches(k, m)'
        PROVE  m \in toSearch' \/ Settled(m)'
    BY <1>1, <1>3, <1>4, <2>1, <2>2, <2>3 DEF Frontier, Reaches
  <2>4. ASSUME NEW m \in found' \cup {nodeA'}
        PROVE  m \in toSearch' \/ m \in nextSearch' \/ Settled(m)'
    <3>1. CASE m \in found \cup {nodeA}
      BY <1>1, <2>1, <2>2, <3>1 DEF Frontier
    <3>2. CASE m \notin found \cup {nodeA}
      BY <1>4, <2>4, <3>2
    <3> QED
      BY <3>1, <3>2
  <2> QED
    BY <2>3, <2>4 DEF Frontier
<1>8. NotYet'
  BY <1>1, <1>3, <1>4 DEF NotYet, Reaches
<1> QED
  BY <1>3, <1>5, <1>6, <1>7, <1>8, StillSearching

LEMMA ArriveInv ==
  ASSUME SearchInv, Arrive
  PROVE  SearchInv'
<1> USE DEF Arrive
<1>1. Types /\ Levels /\ NotYet /\ UNCHANGED <<graph, ends>>
  BY DEF SearchInv
<1>2. nodeA' = nodeA /\ nodeB' = nodeB
  BY <1>1 DEF nodeA, nodeB
<1>3. answer' = [status |-> "SUCCESS", distance |-> distance] /\ ~searching'
  BY DEF Return, Answer
<1>4. Walk(graph, distance, nodeA, nodeB)
  BY <1>1 DEF Levels, Reaches
<1>5. DistanceIsShortest'
  BY <1>1, <1>2, <1>3, <1>4 DEF DistanceIsShortest, NotYet, Reaches
<1> QED
  BY <1>1, <1>3, <1>5 DEF SearchInv, NoneMeansApart, SearchNeverExits,
     IsSearchable

LEMMA NextLevelInv ==
  ASSUME SearchInv, NextLevel
  PROVE  SearchInv'
<1> USE DEF NextLevel
<1>1. Types /\ Levels /\ Frontier /\ NotYet
  BY DEF SearchInv
<1>2. searching' /\ UNCHANGED <<graph, ends, found, answer>>
  BY DEF SearchInv
<1>3. nodeA' = nodeA /\ nodeB' = nodeB
  BY <1>2 DEF nodeA, nodeB
<1>4. distance \in Nat /\ distance' = distance + 1
  BY <1>1 DEF Types
<1>5. \A k, m : Reaches(k, m)' = Reaches(k, m)
  BY <1>2, <1>3 DEF Reaches
<1>6. \A m : Settled(m)' = Settled(m)
  BY <1>2, <1>3 DEF Settled
<1>7. Types'
  BY <1>1, <1>2, <1>3 DEF Types
<1>8. Levels'
  BY <1>1, <1>5 DEF Levels
<1>9. ASSUME NEW k \in 0 .. distance, NEW m \in DOMAIN graph, Reaches(k, m)
      PROVE  Settled(m)
  BY <1>1, <1>9 DEF Frontier
<1>10. Frontier'
  <2>1. ASSUME NEW m \in DOMAIN graph, Reaches(distance + 1, m)
        PROVE  m \in toSearch' \/ Settled(m)
    <3>1. PICK x \in DOMAIN graph : Reaches(distance, x) /\ m \in graph[x]
      BY <1>4, <2>1, WalkShorter DEF Reaches
    <3>2. m \in found
      BY <1>4, <1>9, <3>1 DEF Settled
    <3> QED
      BY <1>1, <3>2 DEF Frontier
  <2>2. ASSUME NEW k \in 0 .. distance', NEW m \in DOMAIN graph', Reaches(k, m)'
        PROVE  m \in toSearch' \/ Settled(m)'
    <3>1. CASE k = distance + 1
      BY <1>2, <1>5, <1>6, <2>1, <2>2, <3>1
    <3>2. CASE k # distance + 1
      <4>1. k \in 0 .. distance
        BY <1>4, <3>2
      <4> QED
        BY <1>2, <1>5, <1>6, <1>9, <2>2, <4>1
    <3> QED
      BY <3>1, <3>2
  <2>3. ASSUME NEW m \in found' \cup {nodeA'}
        PROVE  m \in toSearch' \/ m \in nextSearch' \/ Settled(m)'
    BY <1>1, <1>2, <1>3, <1>6, <2>3 DEF Frontier
  <2> QED
    BY <2>2, <2>3 DEF Frontier
<1>11. NotYet'
  <2>1. ASSUME NEW k \in 0 .. distance' - 1 PROVE ~Reaches(k, nodeB)'
    <3>1. k \in 0 .. distance /\ nodeB \in DOMAIN graph
      BY <1>1, <1>4 DEF Types
    <3>2. ~Settled(nodeB)
      BY DEF Settled
    <3> QED
      BY <1>3, <1>5, <1>9, <3>1, <3>2
  <2> QED
    BY <2>1 DEF NotYet
<1> QED
  BY <1>2, <1>7, <1>8, <1>10, <1>11, StillSearching

LEMMA GiveUpInv ==
  ASSUME SearchInv, GiveUp
  PROVE  SearchInv'
<1> USE DEF GiveUp
<1>1. Types /\ Frontier /\ UNCHANGED <<graph, ends>>
  BY DEF SearchInv
<1>2. nodeA' = nodeA /\ nodeB' = nodeB
  BY <1>1 DEF nodeA, nodeB
<1>3. answer' = [status |-> "NO_ACTION", distance |-> 0]
  BY DEF Return, Answer
<1>4. Apart(graph, nodeA, nodeB)
  <2> DEFINE S == found \cup {nodeA}
  <2>1. S \in SUBSET DOMAIN graph /\ nodeA \in S
    BY <1>1 DEF Types
  <2>2. \A n \in S : Settled(n)
    BY <1>1 DEF Frontier
  <2>3. nodeB \notin S /\ \A n \in S : graph[n] \subseteq S
    BY <2>2 DEF Settled
  <2> HIDE DEF S
  <2> QED
    BY <2>1, <2>3 DEF Apart
<1>5. NoneMeansApart'
  BY <1>1, <1>2, <1>4 DEF NoneMeansApart
<1> QED
  BY <1>1, <1>3, <1>5 DEF SearchInv, DistanceIsShortest, SearchNeverExits,
     IsSearchable, Return

LEMMA NextInv == SearchInv /\ [Next]_vars => SearchInv'
<1> SUFFICES ASSUME SearchInv, [Next]_vars PROVE SearchInv'
  OBVIOUS
<1>1. CASE UNCHANGED vars
  BY <1>1 DEF vars, queues, SearchInv, Types, Levels, Frontier, NotYet,
     Settled, Reaches, nodeA, nodeB, DistanceIsShortest, NoneMeansApart,
     SearchNeverExits, Returned, IsSearchable
<1> QED
  BY <1>1, CallInv, LookAtInv, ArriveInv, NextLevelInv, GiveUpInv
     DEF Next, Search

\* For every graph and every two nodes, SearchInv holds throughout.
THEOREM SearchInvariant == Spec => []SearchInv
BY InitInv, NextInv, PTL DEF Spec

\* shortestPath returns the length of a shortest path, whatever the graph.
THEOREM ShortestAlways == Spec => []DistanceIsShortest
BY SearchInvariant, PTL DEF SearchInv

\* shortestPath returns no distance only for nodes that no path joins.
THEOREM ApartAlways == Spec => []NoneMeansApart
BY SearchInvariant, PTL DEF SearchInv

\* The invariant(...) in the loop of shortestPath never fails.
THEOREM SearchSurvives == Spec => []SearchNeverExits
BY SearchInvariant, PTL DEF SearchInv
-----------------------------------------------------------------------------
(***************************************************************************)
(* In a finite graph the loop has only so many steps to take.              *)
(***************************************************************************)

\* What is left to do: an id that was not found may still be queued, moved to
\* the level that is searched, and looked at.
Left == 3 * Cardinality(DOMAIN graph \ found) + 2 * Cardinality(nextSearch)
          + Cardinality(toSearch)

\* One step of the loop leaves less to do.
Advances == Left' \in Nat /\ Left \in Nat /\ Left' < Left

LEMMA LookAtAdvances ==
  ASSUME SearchInv, IsFiniteSet(DOMAIN graph), NEW n \in toSearch, LookAt(n)
  PROVE  Advances
<1>1. /\ graph' = graph /\ found' = found \cup graph[n]
      /\ toSearch' = toSearch \ {n} /\ nextSearch' = nextSearch \cup (graph[n] \ found)
  BY DEF LookAt
<1>2. /\ toSearch \subseteq DOMAIN graph /\ nextSearch \subseteq DOMAIN graph
      /\ found \subseteq DOMAIN graph /\ graph[n] \subseteq DOMAIN graph
  BY DEF LookAt, SearchInv, Types, IsSearchable
<1>3. PICK new : new = graph[n] \ found
  OBVIOUS
<1>4. PICK rest : rest = DOMAIN graph \ found
  OBVIOUS
<1>5. /\ IsFiniteSet(toSearch) /\ IsFiniteSet(nextSearch) /\ IsFiniteSet(rest)
      /\ IsFiniteSet(new)
  BY <1>2, <1>3, <1>4, FS_Subset
<1>6. Cardinality(toSearch \ {n}) = Cardinality(toSearch) - 1
  BY <1>5, FS_RemoveElement
<1>7. Cardinality(rest \ new) = Cardinality(rest) - Cardinality(new)
  <2>1. rest \cap new = new
    BY <1>2, <1>3, <1>4
  <2> QED
    BY <1>5, <2>1, FS_Difference
<1>8. /\ IsFiniteSet(nextSearch \cup new) /\ IsFiniteSet(rest \ new)
      /\ IsFiniteSet(toSearch \ {n}) /\ IsFiniteSet(nextSearch \cap new)
  <2>1. IsFiniteSet(nextSearch \cap new)
    BY <1>5, FS_Intersection
  <2> QED
    BY <1>5, <2>1, FS_Union, FS_Difference, FS_RemoveElement
<1>9. Cardinality(nextSearch \cup new) =
        Cardinality(nextSearch) + Cardinality(new) - Cardinality(nextSearch \cap new)
  BY <1>5, FS_Union
<1>10. /\ Cardinality(toSearch) \in Nat /\ Cardinality(nextSearch) \in Nat
       /\ Cardinality(rest) \in Nat /\ Cardinality(new) \in Nat
       /\ Cardinality(toSearch \ {n}) \in Nat /\ Cardinality(rest \ new) \in Nat
       /\ Cardinality(nextSearch \cup new) \in Nat
       /\ Cardinality(nextSearch \cap new) \in Nat
  BY <1>5, <1>8, FS_CardinalityType
<1>11. Left = 3 * Cardinality(rest) + 2 * Cardinality(nextSearch) + Cardinality(toSearch)
  BY <1>4 DEF Left
<1>12. DOMAIN graph \ (found \cup graph[n]) = rest \ new
  BY <1>3, <1>4
<1>13. Left' = 3 * Cardinality(rest \ new) + 2 * Cardinality(nextSearch \cup new)
                 + Cardinality(toSearch \ {n})
  BY <1>1, <1>3, <1>12 DEF Left
<1> QED
  BY <1>6, <1>7, <1>9, <1>10, <1>11, <1>13 DEF Advances

LEMMA NextLevelAdvances ==
  ASSUME SearchInv, IsFiniteSet(DOMAIN graph), NextLevel
  PROVE  Advances
<1>1. /\ graph' = graph /\ found' = found
      /\ toSearch = {} /\ toSearch' = nextSearch /\ nextSearch' = {} /\ nextSearch # {}
  BY DEF NextLevel
<1>2. nextSearch \subseteq DOMAIN graph /\ DOMAIN graph \ found \subseteq DOMAIN graph
  BY DEF NextLevel, SearchInv, Types
<1>3. IsFiniteSet(nextSearch) /\ IsFiniteSet(DOMAIN graph \ found)
  BY <1>2, FS_Subset
<1>4. /\ Cardinality(nextSearch) \in Nat /\ Cardinality(nextSearch) # 0
      /\ Cardinality(DOMAIN graph \ found) \in Nat /\ Cardinality({}) = 0
  BY <1>1, <1>3, FS_CardinalityType, FS_EmptySet
<1>5. Left = 3 * Cardinality(DOMAIN graph \ found) + 2 * Cardinality(nextSearch)
  BY <1>1, <1>4 DEF Left
<1>6. Left' = 3 * Cardinality(DOMAIN graph \ found) + Cardinality(nextSearch)
  BY <1>1, <1>4 DEF Left
<1> QED
  BY <1>4, <1>5, <1>6 DEF Advances

\* While the loop of shortestPath runs on a finite graph, each of its steps
\* leaves less to do, of a natural number: the loop cannot go on for ever.
THEOREM SearchAdvances ==
  Spec => [][IsFiniteSet(DOMAIN graph) /\ searching /\ searching' => Advances]_vars
<1>1. ASSUME SearchInv, Next, IsFiniteSet(DOMAIN graph), searching, searching'
      PROVE  Advances
  <2>1. \A a, b \in Id : ~shortestPath(a, b)
    BY <1>1 DEF shortestPath
  <2>2. ~Arrive /\ ~GiveUp
    BY <1>1 DEF Arrive, GiveUp, Return
  <2> QED
    BY <1>1, <2>1, <2>2, LookAtAdvances, NextLevelAdvances DEF Next, Search
<1>2. SearchInv /\ [Next]_vars =>
        [IsFiniteSet(DOMAIN graph) /\ searching /\ searching' => Advances]_vars
  BY <1>1
<1> QED
  BY <1>2, SearchInvariant, PTL DEF Spec
=============================================================================
