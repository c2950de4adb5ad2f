----------------------- MODULE CheckpointBlocksProofs -----------------------
(***************************************************************************)
(* Theorems about CheckpointBlocks, for every finite set of ids, every     *)
(* size of a block and every number of blocks.                             *)
(*                                                                         *)
(* The words of a checkpoint are one sequence s that goes on from block to *)
(* block: Index says which of them a place in a block holds.  A node's     *)
(* words come after those of the nodes with smaller ids, so that Start     *)
(* says where they are without looking at s.  The writer is then somewhere *)
(* between two nodes or in one (Written), and so is the reader (Reads).    *)
(***************************************************************************)
EXTENDS CheckpointBlocks, FiniteSetTheorems, TLAPS

-----------------------------------------------------------------------------
\* Which word of the checkpoint is word p of block b.
Index(b, p) == (b - 1) * BlockWords + p

Here == Index(block, place)

\* The words of the nodes M of g, and of those before n.
WordsOf(g, M) ==
  2 * Cardinality(M) + Cardinality(UNION {{n} \X g[n] : n \in M})

Start(g, n) == WordsOf(g, {m \in DOMAIN g : m < n})

Total(g) == WordsOf(g, DOMAIN g)

\* After word o come a node's id, its number of edges and E.
EdgesAt(s, o, E) == {s[o + 2 + k] : k \in 1 .. Cardinality(E)} = E

Laid(s, g, n) ==
  /\ s[Start(g, n) + 1] = n
  /\ s[Start(g, n) + 2] = Cardinality(g[n])
  /\ EdgesAt(s, Start(g, n), g[n])

\* M are the smallest ids of g.
Smallest(g, M) ==
  M \subseteq DOMAIN g /\ \A m \in M : \A n \in DOMAIN g \ M : m < n

-----------------------------------------------------------------------------
Phases == {"idle", "node", "count", "edge", "noSpace", "written",
           "readNode", "readCount", "readEdge", "restored"}

TypeOK ==
  /\ graph \in Graphs
  /\ device \in [1 .. Blocks -> [Place -> Nat]]
  /\ phase \in Phases
  /\ block \in 0 .. Blocks /\ place \in 0 .. BlockWords
  /\ phase # "idle" => block > 0
  /\ buffer \in [Place -> Nat]

\* The writer has put the words s: the full blocks are on the device.
Held(s) ==
  /\ \A b \in 1 .. block - 1 : \A p \in Place : device[b][p] = s[Index(b, p)]
  /\ \A p \in 1 .. place : buffer[p] = s[Index(block, p)]

\* The nodes M are whole, and node comes next.
AtNode(s, g, M) ==
  /\ Smallest(g, M) /\ \A n \in M : Laid(s, g, n)
  /\ node \in DOMAIN g \ M /\ Smallest(g, M \cup {node})

Written(s) ==
  LET W == DOMAIN graph \ nodes
      M == W \ {node}
  IN /\ nodes \subseteq DOMAIN graph
     /\ phase = "node" =>
          /\ Smallest(graph, W) /\ \A n \in W : Laid(s, graph, n)
          /\ Here = WordsOf(graph, W)
     /\ phase \in {"count", "edge"} =>
          AtNode(s, graph, M) /\ node \in W /\ s[WordsOf(graph, M) + 1] = node
     /\ phase = "count" => Here = WordsOf(graph, M) + 1
     /\ phase = "edge" =>
          /\ edges # {} /\ edges \subseteq graph[node]
          /\ s[WordsOf(graph, M) + 2] = Cardinality(graph[node])
          /\ EdgesAt(s, WordsOf(graph, M), graph[node] \ edges)
          /\ Here = WordsOf(graph, M) + 2 + Cardinality(graph[node] \ edges)

Writing ==
  phase \in {"node", "count", "edge"} =>
    \E s \in [1 .. Here -> Nat] : Held(s) /\ Written(s)

-----------------------------------------------------------------------------
\* The words s are on the device.
Stored(s) ==
  /\ Total(graph) <= Blocks * BlockWords
  /\ \A b \in 1 .. Blocks : \A p \in Place :
       Index(b, p) <= Total(graph) => device[b][p] = s[Index(b, p)]
  /\ \A n \in DOMAIN graph : Laid(s, graph, n)

\* The graph that the reader has, of the nodes M and of the edges E of node.
RebuiltOf(M) ==
  [m \in M \cup UNION {graph[n] : n \in M} |->
     IF m \in M THEN graph[m] ELSE {}]

RebuiltWith(M, E) ==
  [m \in (M \cup {node}) \cup ((UNION {graph[n] : n \in M}) \cup E) |->
     IF m \in M THEN graph[m] ELSE IF m = node THEN E ELSE {}]

\* The reader has read the nodes M.
Reads(s, M) ==
  /\ Smallest(graph, M)
  /\ buffer = device[block]
  /\ nodesRemaining \in Nat
  /\ phase = "readNode" =>
       /\ Here = WordsOf(graph, M) /\ store = RebuiltOf(M)
       /\ Cardinality(M) + nodesRemaining = Cardinality(DOMAIN graph)
  /\ phase \in {"readCount", "readEdge"} =>
       /\ AtNode(s, graph, M)
       /\ Cardinality(M) + 1 + nodesRemaining = Cardinality(DOMAIN graph)
  /\ phase = "readCount" =>
       Here = WordsOf(graph, M) + 1 /\ store = RebuiltOf(M)
  /\ phase = "readEdge" =>
       \E k \in 0 .. Cardinality(graph[node]) - 1 :
         /\ edgeCounts = Cardinality(graph[node]) - k
         /\ Here = WordsOf(graph, M) + 2 + k
         /\ store = RebuiltWith(M, {s[WordsOf(graph, M) + 2 + i] : i \in 1 .. k})

Reading ==
  Whole =>
    \E s \in [1 .. Total(graph) -> Nat] :
      /\ Stored(s)
      /\ phase \in {"readNode", "readCount", "readEdge"} =>
           \E M \in SUBSET DOMAIN graph : Reads(s, M)

\* The inductive invariant.
BlocksInv ==
  /\ TypeOK /\ Writing /\ Reading
  /\ FitsOrNot /\ RestoresWritten

-----------------------------------------------------------------------------
\* Blocks do not overlap: a block ends where the next one begins, or before a
\* later one does.
LEMMA BlocksInOrder ==
  ASSUME NEW b \in Nat, NEW c \in Nat, b < c
  PROVE  Index(b, BlockWords) <= Index(c, 0)
<1> BlockWords \in Nat BY BlocksAssumption
<1> DEFINE d == c - b - 1
<1>1. d \in Nat /\ c - 1 = (b - 1) + 1 + d
  OBVIOUS
<1>2. (c - 1) * BlockWords = (b - 1) * BlockWords + BlockWords + d * BlockWords
  BY <1>1
<1>3. d * BlockWords \in Nat
  BY <1>1
<1>4. (b - 1) * BlockWords \in Int
  OBVIOUS
<1>5. QED
  BY <1>2, <1>3, <1>4 DEF Index

LEMMA IndexType ==
  /\ \A b \in Nat, p \in Nat : Index(b, p) \in Int /\ Index(b, p) = Index(b, 0) + p
  /\ \A b \in Nat \ {0}, p \in Nat : Index(b, p) \in Nat /\ Index(b, p) >= p
  /\ \A b \in Nat : Index(b, BlockWords) = Index(b + 1, 0)
  /\ Index(1, 0) = 0
  /\ Index(Blocks, BlockWords) = Blocks * BlockWords
<1> BlockWords \in Nat /\ Blocks \in Nat BY BlocksAssumption
<1>1. ASSUME NEW b \in Nat
      PROVE  (b - 1) * BlockWords \in Int
  OBVIOUS
<1>2. ASSUME NEW b \in Nat \ {0}
      PROVE  (b - 1) * BlockWords \in Nat
  <2>1. b - 1 \in Nat OBVIOUS
  <2>2. QED BY <2>1
<1>3. ASSUME NEW b \in Nat
      PROVE  (b - 1) * BlockWords + BlockWords = ((b + 1) - 1) * BlockWords
  OBVIOUS
<1>4. 0 * BlockWords = 0
  OBVIOUS
<1>5. (Blocks - 1) * BlockWords + BlockWords = Blocks * BlockWords
  OBVIOUS
<1>6. \A b \in Nat, p \in Nat : Index(b, p) \in Int /\ Index(b, p) = Index(b, 0) + p
  BY <1>1 DEF Index
<1>7. \A b \in Nat \ {0}, p \in Nat : Index(b, p) \in Nat /\ Index(b, p) >= p
  BY <1>2 DEF Index
<1>8. \A b \in Nat : Index(b, BlockWords) = Index(b + 1, 0)
  <2> TAKE b \in Nat
  <2>1. (b - 1) * BlockWords \in Int /\ ((b + 1) - 1) * BlockWords \in Int
    OBVIOUS
  <2>2. QED BY <2>1, <1>3 DEF Index
<1>9. Index(1, 0) = 0
  BY <1>4 DEF Index
<1>10. Index(Blocks, BlockWords) = Blocks * BlockWords
  BY <1>5 DEF Index
<1>11. QED
  BY <1>6, <1>7, <1>8, <1>9, <1>10

-----------------------------------------------------------------------------
\* What a graph of the store is made of.
LEMMA GraphFinite ==
  ASSUME NEW g \in Graphs
  PROVE  /\ DOMAIN g \subseteq Id /\ IsFiniteSet(DOMAIN g)
         /\ DOMAIN g \subseteq Nat
         /\ g \in [DOMAIN g -> SUBSET Id]
         /\ \A n \in DOMAIN g : /\ g[n] \subseteq Nat /\ IsFiniteSet(g[n])
                                /\ Cardinality(g[n]) \in Nat
<1>1. PICK H \in SUBSET Id : g \in [H -> SUBSET Id]
  BY DEF Graphs
<1>2. DOMAIN g \subseteq Id /\ g \in [DOMAIN g -> SUBSET Id]
  BY <1>1
<1>3. IsFiniteSet(DOMAIN g)
  BY <1>2, BlocksAssumption, FS_Subset
<1>4. ASSUME NEW n \in DOMAIN g
      PROVE  g[n] \subseteq Id /\ IsFiniteSet(g[n]) /\ Cardinality(g[n]) \in Nat
  <2>1. g[n] \subseteq Id BY <1>2
  <2>2. IsFiniteSet(g[n]) BY <2>1, BlocksAssumption, FS_Subset
  <2>3. QED BY <2>1, <2>2, FS_CardinalityType
<1>5. QED
  BY <1>2, <1>3, <1>4, BlocksAssumption

LEMMA PairsFinite ==
  ASSUME NEW g \in Graphs, NEW M \in SUBSET DOMAIN g
  PROVE  /\ IsFiniteSet(UNION {{n} \X g[n] : n \in M})
         /\ IsFiniteSet(M)
<1>1. IsFiniteSet(M)
  BY GraphFinite, FS_Subset
<1>2. IsFiniteSet(Id \X Id)
  BY BlocksAssumption, FS_Product
<1>3. UNION {{n} \X g[n] : n \in M} \subseteq Id \X Id
  <2>1. \A n \in M : n \in Id /\ g[n] \subseteq Id BY GraphFinite
  <2>2. QED BY <2>1
<1>4. QED
  BY <1>1, <1>2, <1>3, FS_Subset

\* One node more: its id, its number of edges and its edges.
LEMMA WordsOfOneMore ==
  ASSUME NEW g \in Graphs, NEW M \in SUBSET DOMAIN g, NEW n \in DOMAIN g \ M
  PROVE  /\ WordsOf(g, M) \in Nat
         /\ WordsOf(g, M \cup {n}) = WordsOf(g, M) + 2 + Cardinality(g[n])
<1> DEFINE P == UNION {{m} \X g[m] : m \in M}
           Q == {n} \X g[n]
           R == UNION {{m} \X g[m] : m \in M \cup {n}}
<1>1. IsFiniteSet(M) /\ IsFiniteSet(P)
  BY PairsFinite
<1>2. IsFiniteSet(Q) /\ Cardinality(Q) = Cardinality(g[n])
  <2>1. IsFiniteSet({n}) /\ Cardinality({n}) = 1
    BY FS_Singleton
  <2>2. IsFiniteSet(g[n]) /\ Cardinality(g[n]) \in Nat
    BY GraphFinite
  <2>3. IsFiniteSet(Q) /\ Cardinality(Q) = 1 * Cardinality(g[n])
    BY <2>1, <2>2, FS_Product
  <2> HIDE DEF Q
  <2>4. QED BY <2>2, <2>3
<1>3. R = P \cup Q
  OBVIOUS
<1>4. P \cap Q = {}
  OBVIOUS
<1>5. Cardinality(P) \in Nat /\ Cardinality(Q) \in Nat /\ Cardinality(M) \in Nat
  BY <1>1, <1>2, FS_CardinalityType
<1>6. Cardinality(R) = Cardinality(P) + Cardinality(Q)
  <2>1. Cardinality(P \cup Q) = Cardinality(P) + Cardinality(Q) - Cardinality(P \cap Q)
    BY <1>1, <1>2, FS_Union
  <2>2. Cardinality(P \cap Q) = 0 BY <1>4, FS_EmptySet
  <2> HIDE DEF P, Q, R
  <2>3. QED BY <1>3, <1>5, <2>1, <2>2
<1>7. Cardinality(M \cup {n}) = Cardinality(M) + 1
  BY <1>1, FS_AddElement
<1>8. WordsOf(g, M) = 2 * Cardinality(M) + Cardinality(P)
  BY DEF WordsOf
<1>9. WordsOf(g, M \cup {n}) = 2 * Cardinality(M \cup {n}) + Cardinality(R)
  BY DEF WordsOf
<1> HIDE DEF P, Q, R
<1>10. QED
  BY <1>2, <1>5, <1>6, <1>7, <1>8, <1>9

\* More nodes take more words.
LEMMA WordsOfMore ==
  ASSUME NEW g \in Graphs, NEW N \in SUBSET DOMAIN g, NEW M \in SUBSET N
  PROVE  /\ WordsOf(g, M) \in Nat /\ WordsOf(g, N) \in Nat
         /\ WordsOf(g, M) <= WordsOf(g, N)
         /\ M # N => WordsOf(g, M) < WordsOf(g, N)
<1> DEFINE P == UNION {{m} \X g[m] : m \in M}
           Q == UNION {{m} \X g[m] : m \in N}
<1>1. IsFiniteSet(M) /\ IsFiniteSet(P) /\ IsFiniteSet(N) /\ IsFiniteSet(Q)
  BY PairsFinite
<1>2. /\ Cardinality(P) \in Nat /\ Cardinality(Q) \in Nat
      /\ Cardinality(M) \in Nat /\ Cardinality(N) \in Nat
  BY <1>1, FS_CardinalityType
<1>3. P \in SUBSET Q
  OBVIOUS
<1>4. Cardinality(P) <= Cardinality(Q)
  BY <1>1, <1>3, FS_Subset
<1>5. Cardinality(M) <= Cardinality(N) /\ (Cardinality(M) = Cardinality(N) => M = N)
  BY <1>1, FS_Subset
<1>6. WordsOf(g, M) = 2 * Cardinality(M) + Cardinality(P)
  BY DEF WordsOf
<1>7. WordsOf(g, N) = 2 * Cardinality(N) + Cardinality(Q)
  BY DEF WordsOf
<1> HIDE DEF P, Q
<1>8. QED
  BY <1>2, <1>4, <1>5, <1>6, <1>7

\* Where a node's words are: after those of the smaller nodes.
LEMMA StartOfNext ==
  ASSUME NEW g \in Graphs, NEW M, NEW n \in DOMAIN g \ M,
         Smallest(g, M), Smallest(g, M \cup {n})
  PROVE  /\ Start(g, n) = WordsOf(g, M)
         /\ WordsOf(g, M) \in Nat
         /\ WordsOf(g, M \cup {n}) = WordsOf(g, M) + 2 + Cardinality(g[n])
         /\ WordsOf(g, M \cup {n}) <= Total(g)
         /\ Cardinality(g[n]) \in Nat
<1>1. DOMAIN g \subseteq Nat /\ Cardinality(g[n]) \in Nat
  BY GraphFinite
<1>2. {m \in DOMAIN g : m < n} = M
  <2>1. ASSUME NEW m \in M PROVE m \in DOMAIN g /\ m < n
    BY DEF Smallest
  <2>2. ASSUME NEW m \in DOMAIN g, m < n PROVE m \in M
    <3>1. CASE m = n BY <3>1, <2>2, <1>1
    <3>2. CASE m \notin M \cup {n}
      <4>1. n < m BY <3>2, <2>2 DEF Smallest
      <4>2. QED BY <4>1, <2>2, <1>1
    <3>3. QED BY <3>1, <3>2
  <2>3. QED BY <2>1, <2>2
<1>3. M \in SUBSET DOMAIN g /\ M \cup {n} \in SUBSET DOMAIN g
  BY DEF Smallest
<1>4. WordsOf(g, M \cup {n}) <= WordsOf(g, DOMAIN g)
  BY <1>3, WordsOfMore
<1>5. QED
  BY <1>1, <1>2, <1>3, <1>4, WordsOfOneMore DEF Start, Total

\* A node's words are among those of any set of smallest ids it is in.
LEMMA StartInside ==
  ASSUME NEW g \in Graphs, NEW M, Smallest(g, M), NEW n \in M
  PROVE  /\ Start(g, n) \in Nat /\ Cardinality(g[n]) \in Nat
         /\ Start(g, n) + 2 + Cardinality(g[n]) <= WordsOf(g, M)
<1> DEFINE B == {m \in DOMAIN g : m < n}
<1>1. DOMAIN g \subseteq Nat /\ n \in DOMAIN g /\ Cardinality(g[n]) \in Nat
  BY GraphFinite DEF Smallest
<1>2. B \in SUBSET DOMAIN g /\ n \notin B /\ M \in SUBSET DOMAIN g
  BY <1>1 DEF Smallest
<1>3. WordsOf(g, B) \in Nat /\ WordsOf(g, B \cup {n}) = WordsOf(g, B) + 2 + Cardinality(g[n])
  BY <1>1, <1>2, WordsOfOneMore
<1>4. B \cup {n} \in SUBSET M
  <2>1. ASSUME NEW m \in DOMAIN g, m < n, m \notin M PROVE FALSE
    <3>1. n < m BY <2>1 DEF Smallest
    <3>2. QED BY <3>1, <2>1, <1>1
  <2>2. QED BY <2>1
<1>5. WordsOf(g, B \cup {n}) <= WordsOf(g, M)
  BY <1>2, <1>4, WordsOfMore
<1>6. QED
  BY <1>1, <1>3, <1>5 DEF Start

\* Words that are put after a node's leave the node's as they are.
LEMMA LaidStays ==
  ASSUME NEW g \in Graphs, NEW M, Smallest(g, M), NEW n \in M,
         NEW s, NEW t, Laid(s, g, n),
         \A i \in 1 .. WordsOf(g, M) : t[i] = s[i]
  PROVE  Laid(t, g, n)
<1>1. /\ Start(g, n) \in Nat /\ Cardinality(g[n]) \in Nat
      /\ Start(g, n) + 2 + Cardinality(g[n]) <= WordsOf(g, M)
  BY StartInside
<1>2. WordsOf(g, M) \in Nat
  BY WordsOfMore DEF Smallest
<1>3. \A k \in 1 .. Cardinality(g[n]) :
        t[Start(g, n) + 2 + k] = s[Start(g, n) + 2 + k]
  BY <1>1, <1>2
<1>4. EdgesAt(t, Start(g, n), g[n])
  BY <1>3 DEF EdgesAt, Laid
<1>5. t[Start(g, n) + 1] = n /\ t[Start(g, n) + 2] = Cardinality(g[n])
  BY <1>1, <1>2 DEF Laid
<1>6. QED
  BY <1>4, <1>5 DEF Laid

\* There is a smallest id in a set of them.
LEMMA LeastId ==
  ASSUME NEW S \in SUBSET Nat, S # {}
  PROVE  \E n \in S : \A m \in S : n <= m
<1> DEFINE T == {0 .. n : n \in S}
<1>1. T \subseteq FiniteSubsetsOf(Nat) /\ T # {}
  <2>1. ASSUME NEW n \in S PROVE 0 .. n \in FiniteSubsetsOf(Nat)
    <3>1. n \in Int /\ 0 \in Int /\ 0 .. n \subseteq Nat OBVIOUS
    <3>2. IsFiniteSet(0 .. n) BY <3>1, FS_Interval
    <3>3. QED BY <3>1, <3>2 DEF FiniteSubsetsOf
  <2>2. QED BY <2>1
<1>2. IsWellFoundedOn(StrictSubsetOrdering(Nat), FiniteSubsetsOf(Nat))
  BY FS_StrictSubsetOrderingWellFounded
<1>3. PICK x \in T : \A y \in T : ~(<<y, x>> \in StrictSubsetOrdering(Nat))
  BY <1>1, <1>2, WFMin
<1>4. PICK n \in S : x = 0 .. n
  OBVIOUS
<1>5. ASSUME NEW m \in S, m < n PROVE FALSE
  <2>1. 0 .. m \in T
    OBVIOUS
  <2>2. 0 .. m \subseteq 0 .. n /\ n \notin 0 .. m /\ n \in 0 .. n /\ 0 .. n \subseteq Nat
    BY <1>5
  <2>3. <<0 .. m, 0 .. n>> \in StrictSubsetOrdering(Nat)
    BY <2>2 DEF StrictSubsetOrdering
  <2>4. QED BY <1>3, <1>4, <2>1, <2>3
<1>6. \A m \in S : m \in Nat /\ n \in Nat /\ ~(m < n)
  BY <1>5
<1>7. \A m \in S : n <= m
  BY <1>6
<1>8. QED
  BY <1>7

-----------------------------------------------------------------------------
\* The words of the blocks before c come before those of c.
LEMMA IndexBefore ==
  ASSUME NEW c \in Nat \ {0}, NEW b \in 1 .. c - 1, NEW p \in Place
  PROVE  Index(b, p) \in 1 .. Index(c, 0)
<1>1. BlockWords \in Nat /\ b \in Nat \ {0} /\ b < c /\ p \in Nat /\ p >= 1 /\ p <= BlockWords
  BY BlocksAssumption DEF Place
<1>2. Index(b, BlockWords) <= Index(c, 0)
  BY <1>1, BlocksInOrder
<1>3. Index(b, p) \in Nat /\ Index(b, p) >= p /\ Index(b, BlockWords) \in Nat /\ Index(c, 0) \in Nat
  BY <1>1, IndexType
<1>4. Index(b, p) = Index(b, 0) + p /\ Index(b, BlockWords) = Index(b, 0) + BlockWords /\ Index(b, 0) \in Nat
  BY <1>1, IndexType
<1>5. QED
  BY <1>1, <1>2, <1>3, <1>4

\* Where the writer or the reader is.
LEMMA HereType ==
  ASSUME TypeOK, phase # "idle"
  PROVE  /\ block \in Nat \ {0} /\ place \in Nat
         /\ Here \in Nat /\ Here = Index(block, 0) + place
         /\ Index(block, 0) \in Nat
         /\ \A p \in Nat : Index(block, p) = Index(block, 0) + p
         /\ Index(block + 1, 0) = Index(block, 0) + BlockWords
<1>1. block \in Nat \ {0} /\ place \in Nat /\ BlockWords \in Nat
  BY BlocksAssumption DEF TypeOK
<1>2. QED
  BY <1>1, IndexType DEF Here

\* writeUint64 puts one word after the others.
LEMMA PutWord ==
  ASSUME TypeOK, phase # "idle", NEW s \in [1 .. Here -> Nat], Held(s),
         NEW w \in Nat, writeUint64(w)
  PROVE  /\ Here' = Here + 1
         /\ block' \in 1 .. Blocks /\ place' \in 0 .. BlockWords
         /\ buffer' \in [Place -> Nat]
         /\ device' \in [1 .. Blocks -> [Place -> Nat]]
         /\ \E t \in [1 .. Here + 1 -> Nat] :
              /\ \A i \in 1 .. Here : t[i] = s[i]
              /\ t[Here + 1] = w
              /\ Held(t)'
<1>1. /\ block \in 1 .. Blocks /\ place \in 0 .. BlockWords /\ BlockWords \in Nat \ {0}
      /\ Blocks \in Nat
      /\ buffer \in [Place -> Nat] /\ device \in [1 .. Blocks -> [Place -> Nat]]
  BY BlocksAssumption DEF TypeOK
<1>0. Here \in Nat
  BY HereType
<1>2. /\ Here = Index(block, 0) + place /\ Index(block, 0) \in Nat
      /\ Index(block + 1, 0) = Index(block, 0) + BlockWords
  BY HereType
<1>7. \A p \in Nat : Index(block, p) = Index(block, 0) + p
  BY HereType
<1>8. place \in Nat
  BY <1>1
<1>3. PICK t \in [1 .. Here + 1 -> Nat] :
        (\A i \in 1 .. Here : t[i] = s[i]) /\ t[Here + 1] = w
  <2> DEFINE u == [i \in 1 .. Here + 1 |-> IF i = Here + 1 THEN w ELSE s[i]]
  <2>1. \A i \in 1 .. Here + 1 : i = Here + 1 \/ i \in 1 .. Here
    BY <1>0
  <2>2. u \in [1 .. Here + 1 -> Nat]
    BY <2>1
  <2>3. \A i \in 1 .. Here : i \in 1 .. Here + 1 /\ i # Here + 1
    BY <1>0
  <2>4. Here + 1 \in 1 .. Here + 1
    BY <1>0
  <2>5. (\A i \in 1 .. Here : u[i] = s[i]) /\ u[Here + 1] = w
    BY <2>3, <2>4
  <2> HIDE DEF u
  <2>6. QED BY <2>2, <2>5
<1>4. CASE place < BlockWords
  <2>1. /\ place' = place + 1 /\ buffer' = [buffer EXCEPT ![place + 1] = w]
        /\ block' = block /\ device' = device
    BY <1>4 DEF writeUint64
  <2>2. place + 1 \in Place
    BY <1>1, <1>4 DEF Place
  <2>3. Here' = Here + 1
    BY <1>1, <1>2, <1>7, <2>1 DEF Here
  <2>4. buffer' \in [Place -> Nat] /\ place' \in 0 .. BlockWords
    BY <1>1, <1>4, <2>1, <2>2
  <2>5. \A b \in 1 .. block' - 1 : \A p \in Place : device'[b][p] = t[Index(b, p)]
    <3> TAKE b \in 1 .. block' - 1
    <3> TAKE p \in Place
    <3>1. device[b][p] = s[Index(b, p)]
      BY <2>1 DEF Held
    <3>2. Index(b, p) \in 1 .. Index(block, 0)
      BY <1>1, <2>1, IndexBefore
    <3>3. Index(b, p) \in 1 .. Here
      BY <1>0, <1>2, <1>8, <3>2
    <3>4. QED BY <1>3, <2>1, <3>1, <3>3
  <2>6. \A p \in 1 .. place' : buffer'[p] = t[Index(block', p)]
    <3> TAKE p \in 1 .. place'
    <3>1. p \in Place /\ Index(block, p) = Index(block, 0) + p
      BY <1>1, <1>4, <1>7, <2>1 DEF Place
    <3>2. CASE p = place + 1
      <4>1. Index(block, p) = Here + 1 BY <1>0, <1>1, <1>2, <3>1, <3>2
      <4>2. buffer'[p] = w BY <1>1, <2>1, <2>2, <3>2
      <4>3. QED BY <4>1, <4>2, <1>3, <2>1
    <3>3. CASE p # place + 1
      <4>1. p \in 1 .. place BY <1>1, <2>1, <3>3
      <4>2. buffer'[p] = buffer[p] BY <1>1, <2>1, <3>1, <3>3
      <4>3. buffer[p] = s[Index(block, p)] BY <4>1 DEF Held
      <4>4. Index(block, p) \in 1 .. Here
        <5>1. p \in Nat /\ p >= 1 /\ p <= place BY <1>8, <4>1
        <5>2. Index(block, p) = Index(block, 0) + p BY <3>1
        <5>3. QED BY <1>0, <1>2, <1>8, <5>1, <5>2
      <4>5. QED BY <4>2, <4>3, <4>4, <1>3, <2>1
    <3>4. QED BY <3>2, <3>3
  <2>7. Held(t)'
    BY <2>5, <2>6 DEF Held
  <2>8. QED
    BY <1>1, <1>3, <2>1, <2>3, <2>4, <2>7
<1>5. CASE ~(place < BlockWords)
  <2>1. /\ device' = [device EXCEPT ![block] = buffer]
        /\ block' = block + 1 /\ place' = 1
        /\ buffer' = [Zeroed EXCEPT ![1] = w]
        /\ place = BlockWords /\ block < Blocks
    BY <1>1, <1>5 DEF writeUint64, HasRoom
  <2>2. 1 \in Place
    BY <1>1 DEF Place
  <2>3. Here' = Here + 1
    <3>1. Here' = Index(block + 1, 1) BY <2>1 DEF Here
    <3>2. Index(block + 1, 1) = Index(block + 1, 0) + 1 BY <1>1, IndexType
    <3>3. QED BY <1>0, <1>1, <1>2, <2>1, <3>1, <3>2
  <2>4. buffer' \in [Place -> Nat] /\ block' \in 1 .. Blocks /\ place' \in 0 .. BlockWords
    BY <1>1, <2>1, <2>2 DEF Zeroed
  <2>5. \A b \in 1 .. block' - 1 : \A p \in Place : device'[b][p] = t[Index(b, p)]
    <3> TAKE b \in 1 .. block' - 1
    <3> TAKE p \in Place
    <3>1. b \in 1 .. Blocks BY <1>1, <2>1
    <3>2. CASE b = block
      <4>1. device'[b] = buffer BY <1>1, <2>1, <3>1, <3>2
      <4>2. p \in 1 .. place BY <2>1 DEF Place
      <4>3. buffer[p] = s[Index(block, p)] BY <4>2 DEF Held
      <4>4. Index(block, p) = Index(block, 0) + p BY <1>7, <4>2, <1>1
      <4>5. Index(block, p) \in 1 .. Here
        <5>1. p \in Nat /\ p >= 1 /\ p <= place BY <1>8, <4>2
        <5>2. QED BY <1>0, <1>2, <1>8, <4>4, <5>1
      <4>6. QED BY <4>1, <4>3, <4>5, <1>3, <3>2
    <3>3. CASE b # block
      <4>1. device'[b] = device[b] BY <1>1, <2>1, <3>1, <3>3
      <4>2. b \in 1 .. block - 1 BY <1>1, <2>1, <3>3
      <4>3. device[b][p] = s[Index(b, p)] BY <4>2 DEF Held
      <4>4. Index(b, p) \in 1 .. Index(block, 0) BY <1>1, <4>2, IndexBefore
      <4>5. Index(b, p) \in 1 .. Here BY <1>0, <1>2, <1>8, <4>4
      <4>6. QED BY <4>1, <4>3, <4>5, <1>3
    <3>4. QED BY <3>2, <3>3
  <2>6. \A p \in 1 .. place' : buffer'[p] = t[Index(block', p)]
    <3> TAKE p \in 1 .. place'
    <3>1. p = 1 BY <2>1
    <3>2. buffer'[1] = w BY <2>1, <2>2 DEF Zeroed
    <3>3. Index(block', 1) = Here + 1 BY <2>1, <2>3 DEF Here
    <3>4. QED BY <3>1, <3>2, <3>3, <1>3
  <2>7. Held(t)'
    BY <2>5, <2>6 DEF Held
  <2>8. device' \in [1 .. Blocks -> [Place -> Nat]]
    BY <1>1, <2>1
  <2>9. QED
    BY <1>1, <1>3, <2>1, <2>3, <2>4, <2>7, <2>8
<1>6. QED
  BY <1>4, <1>5

-----------------------------------------------------------------------------
\* The edges E come after word o of s, and in t the edge m after them.
Grows(s, t, o, E, m) ==
  /\ o \in Nat /\ IsFiniteSet(E) /\ m \notin E
  /\ EdgesAt(s, o, E)
  /\ \A k \in 1 .. Cardinality(E) : t[o + 2 + k] = s[o + 2 + k]
  /\ t[o + 2 + (Cardinality(E) + 1)] = m

LEMMA OneMoreEdge ==
  ASSUME NEW s, NEW t, NEW o, NEW E, NEW m, Grows(s, t, o, E, m)
  PROVE  EdgesAt(t, o, E \cup {m}) /\ Cardinality(E \cup {m}) = Cardinality(E) + 1
<1> DEFINE c == Cardinality(E)
<1>1. c \in Nat /\ Cardinality(E \cup {m}) = c + 1
  BY FS_CardinalityType, FS_AddElement DEF Grows
<1>3. \A k \in 1 .. c : t[o + 2 + k] = s[o + 2 + k]
  BY DEF Grows
<1>4. {s[o + 2 + k] : k \in 1 .. c} = E
  BY DEF EdgesAt, Grows
<1>5. t[o + 2 + (c + 1)] = m
  BY DEF Grows
<1> HIDE DEF c
<1>6. \A k \in 1 .. c + 1 : k \in 1 .. c \/ k = c + 1
  BY <1>1
<1>7. \A k \in 1 .. c : k \in 1 .. c + 1
  BY <1>1
<1>8. c + 1 \in 1 .. c + 1
  BY <1>1
<1>9. {t[o + 2 + k] : k \in 1 .. c + 1} = E \cup {m}
  BY <1>3, <1>4, <1>5, <1>6, <1>7, <1>8
<1>10. EdgesAt(t, o, E \cup {m})
  BY <1>1, <1>9 DEF EdgesAt
<1>11. QED
  BY <1>1, <1>10 DEF c

\* A node has no edges yet.
LEMMA NoEdgeYet ==
  ASSUME NEW s, NEW o
  PROVE  EdgesAt(s, o, {}) /\ Cardinality({}) = 0
<1>1. Cardinality({}) = 0
  BY FS_EmptySet
<1>2. 1 .. 0 = {}
  OBVIOUS
<1>3. QED
  BY <1>1, <1>2 DEF EdgesAt

\* The words CheckpointManager counts.
LEMMA WordsAreTotal == ASSUME NEW g PROVE C!Words(g) = Total(g)
<1>1. \A S : C!Cardinality(S) = Cardinality(S)
  BY DEF C!Cardinality, Cardinality
<1>2. C!Words(g) = 2 * C!Cardinality(DOMAIN g)
                     + C!Cardinality(UNION {{n} \X g[n] : n \in DOMAIN g})
  BY DEF C!Words
<1>3. QED
  BY <1>1, <1>2 DEF Total, WordsOf

-----------------------------------------------------------------------------
\* One step per action of the writer.
LEMMA PerformKeeps ==
  ASSUME BlocksInv, NEW g \in Graphs, performCheckpoint(g)
  PROVE  BlocksInv'
<1>1. /\ graph' = g /\ phase' = "node" /\ block' = 1 /\ place' = 0
      /\ buffer' = Zeroed /\ nodes' = DOMAIN g /\ edges' = {}
      /\ device' = device /\ node' = node
  BY DEF performCheckpoint
<1>2. TypeOK'
  BY <1>1, BlocksAssumption DEF BlocksInv, TypeOK, Zeroed, Phases, Place
<1>3. Writing'
  <2>1. Here' = 0
    BY <1>1, IndexType DEF Here
  <2>2. PICK s : s \in [1 .. 0 -> Nat]
    <3>1. [i \in 1 .. 0 |-> 0] \in [1 .. 0 -> Nat] OBVIOUS
    <3>2. QED BY <3>1
  <2>3. Held(s)'
    BY <1>1 DEF Held
  <2>4. WordsOf(g, {}) = 0
    <3>1. UNION {{n} \X g[n] : n \in {}} = {} OBVIOUS
    <3>2. QED BY <3>1, FS_EmptySet DEF WordsOf
  <2>5. Smallest(g, {})
    BY DEF Smallest
  <2>6. Written(s)'
    BY <1>1, <2>1, <2>4, <2>5 DEF Written
  <2>7. QED
    BY <2>1, <2>2, <2>3, <2>6 DEF Writing
<1>4. Reading' /\ FitsOrNot' /\ RestoresWritten'
  BY <1>1 DEF Reading, Whole, FitsOrNot, RestoresWritten
<1>5. QED
  BY <1>2, <1>3, <1>4 DEF BlocksInv

\* The words of the nodes before stay.
LEMMA AtNodeStays ==
  ASSUME NEW g \in Graphs, NEW M, NEW s, NEW t, AtNode(s, g, M),
         \A i \in 1 .. WordsOf(g, M) : t[i] = s[i]
  PROVE  AtNode(t, g, M)
BY LaidStays DEF AtNode

\* The node after them is whole, too.
LEMMA NodeLaid ==
  ASSUME NEW g \in Graphs, NEW M, NEW s, AtNode(s, g, M),
         s[WordsOf(g, M) + 1] = node,
         s[WordsOf(g, M) + 2] = Cardinality(g[node]),
         EdgesAt(s, WordsOf(g, M), g[node])
  PROVE  /\ Smallest(g, M \cup {node}) /\ \A n \in M \cup {node} : Laid(s, g, n)
         /\ WordsOf(g, M \cup {node}) = WordsOf(g, M) + 2 + Cardinality(g[node])
<1>1. /\ Start(g, node) = WordsOf(g, M)
      /\ WordsOf(g, M \cup {node}) = WordsOf(g, M) + 2 + Cardinality(g[node])
  BY StartOfNext DEF AtNode
<1>2. Laid(s, g, node)
  BY <1>1 DEF Laid
<1>3. QED
  BY <1>1, <1>2 DEF AtNode

LEMMA WriteNodeKeeps ==
  ASSUME BlocksInv, NEW n \in nodes, WriteNode(n)
  PROVE  BlocksInv'
<1>0. PICK W : W = DOMAIN graph \ nodes
  OBVIOUS
<1>1. /\ phase = "node" /\ \A m \in nodes : n <= m
      /\ writeUint64(n) /\ phase' = "count" /\ node' = n
      /\ nodes' = nodes \ {n} /\ graph' = graph
  BY DEF WriteNode
<1>2. TypeOK /\ graph \in Graphs
  BY DEF BlocksInv, TypeOK
<1>3. PICK s \in [1 .. Here -> Nat] : Held(s) /\ Written(s)
  BY <1>1 DEF BlocksInv, Writing
<1>4. /\ nodes \subseteq DOMAIN graph /\ Smallest(graph, W)
      /\ \A m \in W : Laid(s, graph, m)
      /\ Here = WordsOf(graph, W)
  BY <1>0, <1>1, <1>3 DEF Written
<1>5. n \in Nat /\ nodes \subseteq Nat
  BY <1>2, <1>4, GraphFinite
<1>6. /\ Here' = Here + 1
      /\ block' \in 1 .. Blocks /\ place' \in 0 .. BlockWords
      /\ buffer' \in [Place -> Nat]
      /\ device' \in [1 .. Blocks -> [Place -> Nat]]
  BY <1>1, <1>2, <1>3, <1>5, PutWord
<1>7. PICK t \in [1 .. Here + 1 -> Nat] :
        (\A i \in 1 .. Here : t[i] = s[i]) /\ t[Here + 1] = n /\ Held(t)'
  BY <1>1, <1>2, <1>3, <1>5, PutWord
<1>8. TypeOK'
  BY <1>1, <1>2, <1>6 DEF TypeOK, Phases
<1>9. DOMAIN graph \ nodes' = W \cup {n} /\ (W \cup {n}) \ {n} = W /\ n \in DOMAIN graph \ W
  BY <1>0, <1>1, <1>4
<1>10. Smallest(graph, W \cup {n})
  <2>1. ASSUME NEW m \in W \cup {n}, NEW k \in DOMAIN graph \ (W \cup {n})
        PROVE  m < k
    <3>1. k \in nodes /\ k # n BY <1>0, <1>4
    <3>2. CASE m = n BY <1>1, <1>5, <3>1, <3>2
    <3>3. CASE m \in W BY <1>4, <3>3 DEF Smallest
    <3>4. QED BY <3>2, <3>3
  <2>2. QED BY <2>1, <1>4 DEF Smallest
<1>11. \A m \in W : Laid(t, graph, m)
  BY <1>2, <1>4, <1>7, LaidStays
<1>12. Written(t)'
  <2>1. AtNode(t, graph, W)'
    BY <1>1, <1>4, <1>9, <1>10, <1>11 DEF AtNode
  <2>2. (DOMAIN graph \ nodes)' \ {node'} = W
    BY <1>1, <1>9
  <2>3. nodes' \subseteq DOMAIN graph' /\ node' \in DOMAIN graph' \ nodes'
    BY <1>1, <1>4
  <2>4. t[WordsOf(graph', W) + 1] = node' /\ Here' = WordsOf(graph', W) + 1
    BY <1>1, <1>4, <1>6, <1>7
  <2>5. QED
    BY <1>1, <2>1, <2>2, <2>3, <2>4 DEF Written
<1>13. Writing'
  BY <1>6, <1>7, <1>12 DEF Writing
<1>14. Reading' /\ FitsOrNot' /\ RestoresWritten'
  BY <1>1 DEF Reading, Whole, FitsOrNot, RestoresWritten
<1>15. QED
  BY <1>8, <1>13, <1>14 DEF BlocksInv

\* What the writer has put, and where it is in it, when it is in a node.
LEMMA InNode ==
  ASSUME BlocksInv, phase \in {"count", "edge"}
  PROVE  \E M \in SUBSET DOMAIN graph, s \in [1 .. Here -> Nat] :
           /\ M = (DOMAIN graph \ nodes) \ {node}
           /\ M \cup {node} = DOMAIN graph \ nodes
           /\ nodes \subseteq DOMAIN graph
           /\ Held(s) /\ AtNode(s, graph, M) /\ s[WordsOf(graph, M) + 1] = node
           /\ phase = "count" => Here = WordsOf(graph, M) + 1
           /\ phase = "edge" =>
                /\ edges # {} /\ edges \subseteq graph[node]
                /\ s[WordsOf(graph, M) + 2] = Cardinality(graph[node])
                /\ EdgesAt(s, WordsOf(graph, M), graph[node] \ edges)
                /\ Here = WordsOf(graph, M) + 2 + Cardinality(graph[node] \ edges)
<1>1. PICK M : M = (DOMAIN graph \ nodes) \ {node}
  OBVIOUS
<1>2. PICK s \in [1 .. Here -> Nat] : Held(s) /\ Written(s)
  BY DEF BlocksInv, Writing
<1>3. node \in DOMAIN graph \ nodes
  BY <1>2 DEF Written
<1>4. M \cup {node} = DOMAIN graph \ nodes
  BY <1>1, <1>3
<1>5. QED
  BY <1>1, <1>2, <1>4 DEF Written

LEMMA WriteCountKeeps ==
  ASSUME BlocksInv, WriteCount
  PROVE  BlocksInv'
<1> DEFINE c == Cardinality(graph[node])
<1>1. /\ phase = "count" /\ writeUint64(c)
      /\ phase' = IF graph[node] = {} THEN "node" ELSE "edge"
      /\ edges' = graph[node]
      /\ nodes' = nodes /\ node' = node /\ graph' = graph
  BY DEF WriteCount, c
<1>2. TypeOK /\ graph \in Graphs
  BY DEF BlocksInv, TypeOK
<1>3. PICK M \in SUBSET DOMAIN graph, s \in [1 .. Here -> Nat] :
        /\ M = (DOMAIN graph \ nodes) \ {node}
        /\ M \cup {node} = DOMAIN graph \ nodes
        /\ nodes \subseteq DOMAIN graph
        /\ Held(s) /\ AtNode(s, graph, M) /\ s[WordsOf(graph, M) + 1] = node
        /\ Here = WordsOf(graph, M) + 1
  BY <1>1, InNode
<1> HIDE DEF c
<1>15. Held(s)
  BY <1>3
<1>16. Here = WordsOf(graph, M) + 1
  BY <1>3
<1>17. s[WordsOf(graph, M) + 1] = node
  BY <1>3
<1>4. c \in Nat /\ WordsOf(graph, M) \in Nat
  BY <1>2, <1>3, StartOfNext DEF AtNode, c
<1>5. /\ Here' = Here + 1
      /\ block' \in 1 .. Blocks /\ place' \in 0 .. BlockWords
      /\ buffer' \in [Place -> Nat]
      /\ device' \in [1 .. Blocks -> [Place -> Nat]]
  BY <1>1, <1>2, <1>4, <1>15, PutWord
<1>6. PICK t \in [1 .. Here + 1 -> Nat] :
        (\A i \in 1 .. Here : t[i] = s[i]) /\ t[Here + 1] = c /\ Held(t)'
  BY <1>1, <1>2, <1>4, <1>15, PutWord
<1>7. TypeOK'
  BY <1>1, <1>2, <1>5 DEF TypeOK, Phases
<1>8. AtNode(t, graph, M) /\ t[WordsOf(graph, M) + 1] = node
      /\ t[WordsOf(graph, M) + 2] = c
  <2>1. \A i \in 1 .. WordsOf(graph, M) : t[i] = s[i]
    BY <1>4, <1>6, <1>16
  <2>2. t[WordsOf(graph, M) + 1] = node
    BY <1>4, <1>6, <1>16, <1>17
  <2>3. t[WordsOf(graph, M) + 2] = c
    BY <1>4, <1>6, <1>16
  <2>4. QED BY <1>2, <1>3, <2>1, <2>2, <2>3, AtNodeStays
<1>9. EdgesAt(t, WordsOf(graph, M), {}) /\ Cardinality({}) = 0
  BY NoEdgeYet
<1>10. Here' = WordsOf(graph, M) + 2
  BY <1>4, <1>5, <1>16
<1>11. Written(t)'
  <2>1. CASE graph[node] = {}
    <3>1. phase' = "node" BY <1>1, <2>1
    <3>2. /\ Smallest(graph, M \cup {node}) /\ \A n \in M \cup {node} : Laid(t, graph, n)
          /\ WordsOf(graph, M \cup {node}) = WordsOf(graph, M) + 2 + Cardinality(graph[node])
      BY <1>2, <1>8, <1>9, <2>1, NodeLaid DEF c
    <3>3. Here' = WordsOf(graph, M \cup {node})
      BY <1>4, <1>9, <1>10, <2>1, <3>2
    <3>4. QED
      BY <1>1, <1>3, <3>1, <3>2, <3>3 DEF Written
  <2>2. CASE graph[node] # {}
    <3>1. phase' = "edge" BY <1>1, <2>2
    <3>2. AtNode(t, graph, M)'
      BY <1>1, <1>8 DEF AtNode
    <3>3. graph'[node'] \ edges' = {}
      BY <1>1
    <3>4. Here' = WordsOf(graph, M) + 2 + Cardinality({})
      BY <1>4, <1>9, <1>10
    <3>5. node' \in DOMAIN graph' \ nodes' /\ (DOMAIN graph \ nodes)' \ {node'} = M
      BY <1>1, <1>3
    <3>6. QED
      BY <1>1, <1>3, <1>8, <1>9, <2>2, <3>1, <3>2, <3>3, <3>4, <3>5 DEF Written, c
  <2>3. QED BY <2>1, <2>2
<1>12. Writing'
  BY <1>5, <1>6, <1>11 DEF Writing
<1>13. Reading' /\ FitsOrNot' /\ RestoresWritten'
  BY <1>1 DEF Reading, Whole, FitsOrNot, RestoresWritten
<1>14. QED
  BY <1>7, <1>12, <1>13 DEF BlocksInv

LEMMA WriteEdgeKeeps ==
  ASSUME BlocksInv, NEW m \in edges, WriteEdge(m)
  PROVE  BlocksInv'
<1>1. /\ phase = "edge" /\ writeUint64(m)
      /\ phase' = IF edges = {m} THEN "node" ELSE "edge"
      /\ edges' = edges \ {m}
      /\ nodes' = nodes /\ node' = node /\ graph' = graph
  BY DEF WriteEdge
<1>2. TypeOK /\ graph \in Graphs
  BY DEF BlocksInv, TypeOK
<1>3. PICK M \in SUBSET DOMAIN graph, s \in [1 .. Here -> Nat] :
        /\ M = (DOMAIN graph \ nodes) \ {node}
        /\ M \cup {node} = DOMAIN graph \ nodes
        /\ nodes \subseteq DOMAIN graph
        /\ Held(s) /\ AtNode(s, graph, M) /\ s[WordsOf(graph, M) + 1] = node
        /\ edges # {} /\ edges \subseteq graph[node]
        /\ s[WordsOf(graph, M) + 2] = Cardinality(graph[node])
        /\ EdgesAt(s, WordsOf(graph, M), graph[node] \ edges)
        /\ Here = WordsOf(graph, M) + 2 + Cardinality(graph[node] \ edges)
  BY <1>1, InNode
<1>18. Held(s)
  BY <1>3
<1>19. /\ s[WordsOf(graph, M) + 1] = node
       /\ s[WordsOf(graph, M) + 2] = Cardinality(graph[node])
  BY <1>3
<1>4. PICK E : E = graph[node] \ edges
  OBVIOUS
<1>5. /\ m \in Nat /\ WordsOf(graph, M) \in Nat
      /\ IsFiniteSet(E) /\ Cardinality(E) \in Nat
  <2>1. node \in DOMAIN graph BY <1>3 DEF AtNode
  <2>2. graph[node] \subseteq Nat /\ IsFiniteSet(graph[node]) BY <1>2, <2>1, GraphFinite
  <2>3. IsFiniteSet(E) BY <1>4, <2>2, FS_Subset
  <2>4. QED BY <1>2, <1>3, <2>2, <2>3, FS_CardinalityType, StartOfNext DEF AtNode
<1>6. /\ Here' = Here + 1
      /\ block' \in 1 .. Blocks /\ place' \in 0 .. BlockWords
      /\ buffer' \in [Place -> Nat]
      /\ device' \in [1 .. Blocks -> [Place -> Nat]]
  BY <1>1, <1>2, <1>5, <1>18, PutWord
<1>7. PICK t \in [1 .. Here + 1 -> Nat] :
        (\A i \in 1 .. Here : t[i] = s[i]) /\ t[Here + 1] = m /\ Held(t)'
  BY <1>1, <1>2, <1>5, <1>18, PutWord
<1>8. TypeOK'
  BY <1>1, <1>2, <1>6 DEF TypeOK, Phases
<1>9. Here = WordsOf(graph, M) + 2 + Cardinality(E)
  BY <1>3, <1>4
<1>10. /\ AtNode(t, graph, M) /\ t[WordsOf(graph, M) + 1] = node
       /\ t[WordsOf(graph, M) + 2] = Cardinality(graph[node])
  <2>1. \A i \in 1 .. WordsOf(graph, M) : t[i] = s[i]
    BY <1>5, <1>7, <1>9
  <2>2. t[WordsOf(graph, M) + 1] = node
    BY <1>5, <1>7, <1>9, <1>19
  <2>3. t[WordsOf(graph, M) + 2] = Cardinality(graph[node])
    BY <1>5, <1>7, <1>9, <1>19
  <2>4. QED BY <1>2, <1>3, <2>1, <2>2, <2>3, AtNodeStays
<1>11. EdgesAt(t, WordsOf(graph, M), E \cup {m}) /\ Cardinality(E \cup {m}) = Cardinality(E) + 1
  <2> DEFINE o == WordsOf(graph, M)
  <2>1. m \notin E BY <1>4
  <2>2. EdgesAt(s, o, E) BY <1>3, <1>4
  <2>3. ASSUME NEW k \in 1 .. Cardinality(E)
        PROVE  t[o + 2 + k] = s[o + 2 + k]
    <3>1. o + 2 + k \in 1 .. Here BY <1>5, <1>9
    <3>2. QED BY <1>7, <3>1
  <2>4. t[o + 2 + (Cardinality(E) + 1)] = m
    <3>1. o + 2 + (Cardinality(E) + 1) = Here + 1 BY <1>5, <1>9
    <3>2. QED BY <1>7, <3>1
  <2>5. Grows(s, t, o, E, m)
    BY <1>5, <2>1, <2>2, <2>3, <2>4 DEF Grows
  <2>6. QED BY <2>5, OneMoreEdge
<1>12. E \cup {m} = graph[node] \ edges'
  BY <1>1, <1>3, <1>4
<1>13. Here' = WordsOf(graph, M) + 2 + Cardinality(E \cup {m})
  BY <1>5, <1>6, <1>9, <1>11
<1>14. Written(t)'
  <2>1. CASE edges = {m}
    <3>1. phase' = "node" BY <1>1, <2>1
    <3>2. E \cup {m} = graph[node] BY <1>1, <1>12, <2>1
    <3>3. /\ Smallest(graph, M \cup {node}) /\ \A n \in M \cup {node} : Laid(t, graph, n)
          /\ WordsOf(graph, M \cup {node}) = WordsOf(graph, M) + 2 + Cardinality(graph[node])
      BY <1>2, <1>10, <1>11, <3>2, NodeLaid
    <3>4. Here' = WordsOf(graph, M \cup {node})
      BY <1>13, <3>2, <3>3
    <3>5. QED
      BY <1>1, <1>3, <3>1, <3>3, <3>4 DEF Written
  <2>2. CASE edges # {m}
    <3>1. phase' = "edge" /\ edges' # {} /\ edges' \subseteq graph'[node']
      BY <1>1, <1>3, <2>2
    <3>2. AtNode(t, graph, M)'
      BY <1>1, <1>10 DEF AtNode
    <3>3. graph'[node'] \ edges' = E \cup {m}
      BY <1>1, <1>12
    <3>4. node' \in DOMAIN graph' \ nodes' /\ (DOMAIN graph \ nodes)' \ {node'} = M
      BY <1>1, <1>3
    <3>5. QED
      BY <1>1, <1>3, <1>10, <1>11, <1>13, <3>1, <3>2, <3>3, <3>4 DEF Written
  <2>3. QED BY <2>1, <2>2
<1>15. Writing'
  BY <1>6, <1>7, <1>14 DEF Writing
<1>16. Reading' /\ FitsOrNot' /\ RestoresWritten'
  BY <1>1 DEF Reading, Whole, FitsOrNot, RestoresWritten
<1>17. QED
  BY <1>8, <1>15, <1>16 DEF BlocksInv

\* The writer is in block block.
LEMMA HereInBlock ==
  ASSUME TypeOK, phase # "idle"
  PROVE  /\ Here \in Nat /\ Index(Blocks, BlockWords) = Blocks * BlockWords
         /\ Here <= Index(block, BlockWords)
         /\ Here <= Blocks * BlockWords
         /\ Blocks * BlockWords \in Nat
         /\ ~HasRoom => Here = Blocks * BlockWords
<1>1. /\ block \in 1 .. Blocks /\ place \in 0 .. BlockWords
      /\ BlockWords \in Nat \ {0} /\ Blocks \in Nat \ {0}
  BY BlocksAssumption DEF TypeOK
<1>2. Here \in Nat /\ Here = Index(block, 0) + place
  BY HereType
<1>3. Index(block, BlockWords) = Index(block, 0) + BlockWords /\ Index(block, 0) \in Nat
  BY <1>1, HereType
<1>4. Index(Blocks, BlockWords) = Blocks * BlockWords
  BY IndexType
<1>5. Blocks * BlockWords \in Nat
  BY <1>1
<1>6. Here <= Index(block, BlockWords)
  BY <1>1, <1>2, <1>3
<1>7. Index(block, BlockWords) <= Index(Blocks, BlockWords)
  <2>1. CASE block = Blocks
    BY <2>1, <1>4, <1>5
  <2>2. CASE block < Blocks
    <3>1. Index(block, BlockWords) <= Index(Blocks, 0)
      BY <1>1, <2>2, BlocksInOrder
    <3>2. Index(Blocks, BlockWords) = Index(Blocks, 0) + BlockWords
      BY <1>1, IndexType
    <3>3. Index(Blocks, 0) \in Nat
      BY <1>1, IndexType
    <3>4. QED BY <1>1, <1>3, <3>1, <3>2, <3>3
  <2>3. QED BY <1>1, <2>1, <2>2
<1>8. Here <= Blocks * BlockWords
  BY <1>1, <1>2, <1>3, <1>4, <1>5, <1>6, <1>7
<1>9. ASSUME ~HasRoom PROVE Here = Blocks * BlockWords
  <2>1. block = Blocks /\ place = BlockWords
    BY <1>1, <1>9 DEF HasRoom
  <2>2. QED BY <1>4, <2>1 DEF Here
<1>10. QED
  BY <1>2, <1>4, <1>5, <1>6, <1>8, <1>9

LEMMA NoSpaceKeeps ==
  ASSUME BlocksInv, NoSpace
  PROVE  BlocksInv'
<1>1. /\ phase \in {"count", "edge"} \/ (phase = "node" /\ nodes # {})
      /\ ~HasRoom /\ phase' = "noSpace"
      /\ graph' = graph /\ device' = device
      /\ block' = block /\ place' = place /\ buffer' = buffer
  BY DEF NoSpace, position
<1>2. TypeOK /\ graph \in Graphs
  BY DEF BlocksInv, TypeOK
<1>3. Here \in Nat /\ Here = Blocks * BlockWords
  BY <1>1, <1>2, HereInBlock
<1>4. Total(graph) > Blocks * BlockWords
  <2>1. CASE phase = "node" /\ nodes # {}
    <3>1. PICK s \in [1 .. Here -> Nat] : Held(s) /\ Written(s)
      BY <2>1 DEF BlocksInv, Writing
    <3>2. PICK W : W = DOMAIN graph \ nodes
      OBVIOUS
    <3>3. W \in SUBSET DOMAIN graph /\ W # DOMAIN graph /\ Here = WordsOf(graph, W)
      BY <2>1, <3>1, <3>2 DEF Written
    <3>4. WordsOf(graph, W) < WordsOf(graph, DOMAIN graph) /\ WordsOf(graph, DOMAIN graph) \in Nat
      BY <1>2, <3>3, WordsOfMore
    <3>5. QED BY <1>3, <3>3, <3>4 DEF Total
  <2>2. CASE phase \in {"count", "edge"}
    <3>1. PICK M \in SUBSET DOMAIN graph, s \in [1 .. Here -> Nat] :
            /\ AtNode(s, graph, M)
            /\ phase = "count" => Here = WordsOf(graph, M) + 1
            /\ phase = "edge" =>
                 /\ edges # {} /\ edges \subseteq graph[node]
                 /\ Here = WordsOf(graph, M) + 2 + Cardinality(graph[node] \ edges)
      BY <2>2, InNode
    <3>2. /\ WordsOf(graph, M) \in Nat /\ Cardinality(graph[node]) \in Nat
          /\ WordsOf(graph, M \cup {node}) = WordsOf(graph, M) + 2 + Cardinality(graph[node])
          /\ WordsOf(graph, M \cup {node}) <= Total(graph)
      BY <1>2, <3>1, StartOfNext DEF AtNode
    <3>3. Total(graph) \in Nat
      BY <1>2, WordsOfMore DEF Total
    <3>4. CASE phase = "count"
      BY <1>3, <3>1, <3>2, <3>3, <3>4
    <3>5. CASE phase = "edge"
      <4>1. IsFiniteSet(graph[node])
        BY <1>2, <3>1, GraphFinite DEF AtNode
      <4>2. PICK E : E = graph[node] \ edges
        OBVIOUS
      <4>3. E \in SUBSET graph[node] /\ E # graph[node]
        BY <3>1, <3>5, <4>2
      <4>4. IsFiniteSet(E) /\ Cardinality(E) <= Cardinality(graph[node])
            /\ Cardinality(E) # Cardinality(graph[node])
        BY <4>1, <4>3, FS_Subset
      <4>5. Cardinality(E) \in Nat
        BY <4>4, FS_CardinalityType
      <4>6. Here = WordsOf(graph, M) + 2 + Cardinality(E)
        BY <3>1, <3>5, <4>2
      <4>7. QED BY <1>3, <3>2, <3>3, <4>4, <4>5, <4>6
    <3>6. QED BY <2>2, <3>4, <3>5
  <2>3. QED BY <1>1, <2>1, <2>2
<1>5. TypeOK'
  BY <1>1, <1>2 DEF TypeOK, Phases
<1>6. FitsOrNot'
  BY <1>1, <1>4, WordsAreTotal DEF FitsOrNot
<1>7. Writing' /\ Reading' /\ RestoresWritten'
  BY <1>1 DEF Writing, Reading, Whole, RestoresWritten
<1>8. QED
  BY <1>5, <1>6, <1>7 DEF BlocksInv

LEMMA FlushKeeps ==
  ASSUME BlocksInv, flush
  PROVE  BlocksInv'
<1>1. /\ phase = "node" /\ nodes = {} /\ phase' = "written"
      /\ device' = [device EXCEPT ![block] = buffer]
      /\ graph' = graph /\ block' = block /\ place' = place /\ buffer' = buffer
  BY DEF flush, position
<1>2. TypeOK /\ graph \in Graphs
  BY DEF BlocksInv, TypeOK
<1>3. PICK s \in [1 .. Here -> Nat] : Held(s) /\ Written(s)
  BY <1>1 DEF BlocksInv, Writing
<1>4. DOMAIN graph \ nodes = DOMAIN graph
  BY <1>1
<1>5. Here = Total(graph) /\ \A n \in DOMAIN graph : Laid(s, graph, n)
  BY <1>1, <1>3, <1>4 DEF Written, Total
<1>6. /\ Here \in Nat /\ Here <= Index(block, BlockWords)
      /\ Here <= Blocks * BlockWords
  BY <1>1, <1>2, HereInBlock
<1>7. /\ block \in 1 .. Blocks /\ place \in 0 .. BlockWords
      /\ BlockWords \in Nat \ {0} /\ Blocks \in Nat \ {0}
      /\ buffer \in [Place -> Nat] /\ device \in [1 .. Blocks -> [Place -> Nat]]
  BY <1>1, <1>2, BlocksAssumption DEF TypeOK
<1>8. TypeOK'
  BY <1>1, <1>2, <1>7 DEF TypeOK, Phases
<1>9. ASSUME NEW b \in 1 .. Blocks, NEW p \in Place, Index(b, p) <= Total(graph)
      PROVE  device'[b][p] = s[Index(b, p)]
  <2>1. CASE b < block
    <3>1. device'[b] = device[b] BY <1>1, <1>7, <2>1
    <3>2. b \in 1 .. block - 1 BY <1>7, <2>1
    <3>3. QED BY <1>3, <3>1, <3>2 DEF Held
  <2>2. CASE b = block
    <3>1. device'[b] = buffer BY <1>1, <1>7, <2>2
    <3>2. Index(block, p) <= Here BY <1>5, <1>9, <2>2
    <3>3. Index(block, p) = Index(block, 0) + p /\ Here = Index(block, 0) + place
          /\ Index(block, 0) \in Nat
      BY <1>1, <1>2, <1>7, HereType DEF Place
    <3>4. p \in 1 .. place BY <1>7, <3>2, <3>3 DEF Place
    <3>5. QED BY <1>3, <2>2, <3>1, <3>4 DEF Held
  <2>3. CASE block < b
    <3>1. Index(block, BlockWords) <= Index(b, 0)
      BY <1>7, <2>3, BlocksInOrder
    <3>2. Index(b, p) = Index(b, 0) + p /\ Index(b, 0) \in Nat /\ Index(block, BlockWords) \in Nat
      <4>1. b \in Nat \ {0} /\ block \in Nat \ {0} /\ p \in Nat /\ 0 \in Nat /\ BlockWords \in Nat
        BY <1>7 DEF Place
      <4>2. Index(b, 0) \in Nat /\ Index(block, BlockWords) \in Nat
        BY <4>1, IndexType
      <4>3. QED BY <4>1, <4>2, IndexType
    <3>3. p \in Nat /\ p >= 1 BY <1>7 DEF Place
    <3>4. FALSE BY <1>5, <1>6, <1>9, <3>1, <3>2, <3>3
    <3>5. QED BY <3>4
  <2>4. QED BY <1>7, <2>1, <2>2, <2>3
<1>10. Stored(s)'
  BY <1>1, <1>5, <1>6, <1>9 DEF Stored
<1>11. Reading'
  <2>1. s \in [1 .. Total(graph') -> Nat] BY <1>1, <1>5
  <2>2. phase' \notin {"readNode", "readCount", "readEdge"} BY <1>1
  <2>3. QED BY <1>10, <2>1, <2>2 DEF Reading
<1>12. FitsOrNot'
  BY <1>1, <1>5, <1>6, WordsAreTotal DEF FitsOrNot
<1>13. Writing' /\ RestoresWritten'
  BY <1>1 DEF Writing, RestoresWritten
<1>14. QED
  BY <1>8, <1>11, <1>12, <1>13 DEF BlocksInv

-----------------------------------------------------------------------------
LEMMA RestoreKeeps ==
  ASSUME BlocksInv, restoreCheckpoint
  PROVE  BlocksInv'
<1>1. /\ phase = "written" /\ phase' = "readNode"
      /\ block' = 1 /\ place' = 0 /\ buffer' = device[1]
      /\ nodesRemaining' = Cardinality(DOMAIN graph)
      /\ store' = EmptyGraph
      /\ graph' = graph /\ device' = device
  BY DEF restoreCheckpoint
<1>2. TypeOK /\ graph \in Graphs
  BY DEF BlocksInv, TypeOK
<1>3. PICK s \in [1 .. Total(graph) -> Nat] : Stored(s)
  BY <1>1 DEF BlocksInv, Reading, Whole
<1>4. 1 \in 1 .. Blocks /\ 0 \in 0 .. BlockWords
  BY BlocksAssumption
<1>5. TypeOK'
  BY <1>1, <1>2, <1>4 DEF TypeOK, Phases
<1>6. Stored(s)'
  BY <1>1, <1>3 DEF Stored
<1>7. IsFiniteSet(DOMAIN graph) /\ Cardinality(DOMAIN graph) \in Nat
  BY <1>2, GraphFinite, FS_CardinalityType
<1>8. Smallest(graph, {})
  BY DEF Smallest
<1>9. Here' = 0 /\ WordsOf(graph, {}) = 0
  <2>1. UNION {{n} \X graph[n] : n \in {}} = {} OBVIOUS
  <2>2. WordsOf(graph, {}) = 0 BY <2>1, FS_EmptySet DEF WordsOf
  <2>3. QED BY <1>1, <2>2, IndexType DEF Here
<1>10. store' = RebuiltOf({})'
  <2>1. {} \cup UNION {graph'[n] : n \in {}} = {} OBVIOUS
  <2>2. QED BY <1>1, <2>1 DEF RebuiltOf, EmptyGraph
<1>11. Reads(s, {})'
  BY <1>1, <1>7, <1>8, <1>9, <1>10, FS_EmptySet DEF Reads
<1>12. Reading'
  <2>1. s \in [1 .. Total(graph') -> Nat] /\ {} \in SUBSET DOMAIN graph' BY <1>1
  <2>2. QED BY <1>6, <1>11, <2>1 DEF Reading
<1>13. Writing' /\ FitsOrNot' /\ RestoresWritten'
  BY <1>1 DEF Writing, FitsOrNot, RestoresWritten
<1>14. QED
  BY <1>5, <1>12, <1>13 DEF BlocksInv

\* What the reader makes of a node that it has none of the edges of yet, of one
\* edge more, and of all of them.
LEMMA NodeAdded ==
  ASSUME NEW M, node \notin M
  PROVE  AddNode(RebuiltOf(M), node).nodes = RebuiltWith(M, {})
<1> DEFINE D == M \cup UNION {graph[n] : n \in M}
           F == RebuiltOf(M)
<1>1. F = [m \in D |-> IF m \in M THEN graph[m] ELSE {}]
  BY DEF RebuiltOf
<1>2. RebuiltWith(M, {}) =
        [m \in D \cup {node} |->
           IF m \in M THEN graph[m] ELSE IF m = node THEN {} ELSE {}]
  <2>1. (M \cup {node}) \cup ((UNION {graph[n] : n \in M}) \cup {}) = D \cup {node}
    OBVIOUS
  <2>2. QED BY <2>1 DEF RebuiltWith
<1> HIDE DEF D, F
<1>3. CASE node \in D
  <2>1. AddNode(F, node).nodes = F
    BY <1>1, <1>3 DEF AddNode, HasNode, Result
  <2>2. D \cup {node} = D
    BY <1>3
  <2>3. F = RebuiltWith(M, {})
    BY <1>1, <1>2, <2>2
  <2>4. QED BY <2>1, <2>3 DEF F
<1>4. CASE node \notin D
  <2>1. AddNode(F, node).nodes =
          [m \in D \cup {node} |-> IF m = node THEN {} ELSE F[m]]
    BY <1>1, <1>4 DEF AddNode, HasNode, Result
  <2>2. \A m \in D : F[m] = IF m \in M THEN graph[m] ELSE {}
    BY <1>1
  <2>3. AddNode(F, node).nodes = RebuiltWith(M, {})
    BY <1>2, <2>1, <2>2
  <2>4. QED BY <2>3 DEF F
<1>5. QED
  BY <1>3, <1>4

LEMMA EdgeAdded ==
  ASSUME NEW M, NEW E, NEW w, node \notin M
  PROVE  LinkOneWay(AddNode(RebuiltWith(M, E), w).nodes, node, w)
           = RebuiltWith(M, E \cup {w})
<1> DEFINE D == (M \cup {node}) \cup ((UNION {graph[n] : n \in M}) \cup E)
           F == RebuiltWith(M, E)
           G == AddNode(F, w).nodes
<1>1. F = [m \in D |-> IF m \in M THEN graph[m] ELSE IF m = node THEN E ELSE {}]
  BY DEF RebuiltWith
<1>2. node \in D /\ M \subseteq D
  OBVIOUS
<1>3. RebuiltWith(M, E \cup {w}) =
        [m \in D \cup {w} |->
           IF m \in M THEN graph[m] ELSE IF m = node THEN E \cup {w} ELSE {}]
  <2>1. (M \cup {node}) \cup ((UNION {graph[n] : n \in M}) \cup (E \cup {w})) = D \cup {w}
    OBVIOUS
  <2>2. QED BY <2>1 DEF RebuiltWith
<1> HIDE DEF D, F
<1>4. DOMAIN F = D /\ \A m \in D : F[m] = IF m \in M THEN graph[m] ELSE IF m = node THEN E ELSE {}
  BY <1>1
<1>5. G = [m \in D \cup {w} |->
             IF m \in M THEN graph[m] ELSE IF m = node THEN E ELSE {}]
  <2>1. CASE w \in D
    <3>1. G = F
      BY <1>4, <2>1 DEF AddNode, HasNode, Result
    <3>2. D \cup {w} = D
      BY <2>1
    <3>3. QED BY <1>1, <3>1, <3>2
  <2>2. CASE w \notin D
    <3>1. G = [m \in D \cup {w} |-> IF m = w THEN {} ELSE F[m]]
      BY <1>4, <2>2 DEF AddNode, HasNode, Result
    <3>2. w # node /\ w \notin M
      BY <1>2, <2>2
    <3>3. QED BY <1>4, <3>1, <3>2
  <2>3. QED BY <2>1, <2>2
<1> HIDE DEF G
<1>6. LinkOneWay(G, node, w) = [G EXCEPT ![node] = @ \cup {w}]
  BY DEF LinkOneWay
<1>7. [G EXCEPT ![node] = @ \cup {w}] =
        [m \in D \cup {w} |->
           IF m \in M THEN graph[m] ELSE IF m = node THEN E \cup {w} ELSE {}]
  BY <1>2, <1>5
<1>8. QED
  BY <1>3, <1>6, <1>7 DEF G, F

LEMMA NodeRebuilt ==
  ASSUME NEW M
  PROVE  RebuiltWith(M, graph[node]) = RebuiltOf(M \cup {node})
<1> DEFINE D == (M \cup {node}) \cup ((UNION {graph[n] : n \in M}) \cup graph[node])
<1>1. (M \cup {node}) \cup UNION {graph[n] : n \in M \cup {node}} = D
  OBVIOUS
<1>2. RebuiltOf(M \cup {node}) =
        [m \in D |-> IF m \in M \cup {node} THEN graph[m] ELSE {}]
  BY <1>1 DEF RebuiltOf
<1>3. RebuiltWith(M, graph[node]) =
        [m \in D |-> IF m \in M THEN graph[m] ELSE IF m = node THEN graph[node] ELSE {}]
  BY DEF RebuiltWith
<1> HIDE DEF D
<1>4. QED
  BY <1>2, <1>3

-----------------------------------------------------------------------------
\* readUint64 takes the word that comes next.
LEMMA TakeWord ==
  ASSUME TypeOK, phase # "idle", NEW s, Stored(s), buffer = device[block],
         Here < Total(graph), Total(graph) \in Nat, readUint64
  PROVE  /\ Here' = Here + 1 /\ Word = s[Here + 1]
         /\ block' \in 1 .. Blocks /\ place' \in 0 .. BlockWords
         /\ buffer' = device[block'] /\ buffer' \in [Place -> Nat]
<1>1. /\ block \in 1 .. Blocks /\ place \in 0 .. BlockWords
      /\ BlockWords \in Nat \ {0} /\ Blocks \in Nat \ {0}
      /\ buffer \in [Place -> Nat] /\ device \in [1 .. Blocks -> [Place -> Nat]]
  BY BlocksAssumption DEF TypeOK
<1>2. Here \in Nat /\ Here = Index(block, 0) + place /\ Index(block, 0) \in Nat
      /\ Index(block + 1, 0) = Index(block, 0) + BlockWords
  BY HereType
<1>3. \A p \in Nat : Index(block, p) = Index(block, 0) + p
  BY HereType
<1>4. \A b \in 1 .. Blocks : \A p \in Place :
        Index(b, p) <= Total(graph) => device[b][p] = s[Index(b, p)]
  BY DEF Stored
<1>5. CASE place < BlockWords
  <2>1. place' = place + 1 /\ block' = block /\ buffer' = buffer
    BY <1>5 DEF readUint64
  <2>2. place + 1 \in Place /\ place + 1 \in Nat
    BY <1>1, <1>5 DEF Place
  <2>3. Index(block, place + 1) = Here + 1
    <3>1. Index(block, place + 1) = Index(block, 0) + (place + 1) BY <1>3, <2>2
    <3>2. QED BY <1>1, <1>2, <3>1
  <2>4. Here' = Here + 1
    BY <2>1, <2>3 DEF Here
  <2>5. Index(block, place + 1) <= Total(graph)
    BY <1>2, <2>3
  <2>6. Word = buffer[place + 1]
    BY <1>5 DEF Word
  <2>7. Word = s[Here + 1]
    BY <1>1, <1>4, <2>2, <2>3, <2>5, <2>6
  <2>8. QED
    BY <1>1, <2>1, <2>2, <2>4, <2>7 DEF Place
<1>6. CASE ~(place < BlockWords)
  <2>1. block' = block + 1 /\ place' = 1 /\ buffer' = Block(block + 1)
    BY <1>6 DEF readUint64
  <2>2. place = BlockWords
    BY <1>1, <1>6
  <2>3. block < Blocks
    <3>1. ASSUME block = Blocks PROVE FALSE
      <4>1. Here = Blocks * BlockWords BY <2>2, <3>1, IndexType DEF Here
      <4>2. Total(graph) <= Blocks * BlockWords BY DEF Stored
      <4>3. QED BY <1>2, <4>1, <4>2
    <3>2. QED BY <1>1, <3>1
  <2>4. block + 1 \in 1 .. Blocks /\ Block(block + 1) = device[block + 1]
    BY <1>1, <2>3 DEF Block
  <2>5. Index(block + 1, 1) = Here + 1
    <3>1. Index(block + 1, 1) = Index(block + 1, 0) + 1 BY <1>1, IndexType
    <3>2. QED BY <1>1, <1>2, <2>2, <3>1
  <2>6. Here' = Here + 1
    BY <2>1, <2>5 DEF Here
  <2>7. 1 \in Place /\ Index(block + 1, 1) <= Total(graph)
    BY <1>1, <1>2, <2>5 DEF Place
  <2>8. Word = device[block + 1][1]
    BY <1>6, <2>4 DEF Word
  <2>9. Word = s[Here + 1]
    BY <1>4, <2>4, <2>5, <2>7, <2>8
  <2>10. QED
    BY <1>1, <2>1, <2>4, <2>6, <2>9
<1>7. QED
  BY <1>5, <1>6

\* What the reader has before it, and where it is in it.
LEMMA InCheckpoint ==
  ASSUME BlocksInv, phase \in {"readNode", "readCount", "readEdge"}
  PROVE  /\ TypeOK /\ graph \in Graphs /\ Total(graph) \in Nat
         /\ \E s \in [1 .. Total(graph) -> Nat], M \in SUBSET DOMAIN graph :
              Stored(s) /\ Reads(s, M)
<1>1. Whole
  BY DEF Whole
<1>2. TypeOK /\ graph \in Graphs
  BY DEF BlocksInv, TypeOK
<1>3. PICK s \in [1 .. Total(graph) -> Nat] :
        Stored(s) /\ \E M \in SUBSET DOMAIN graph : Reads(s, M)
  BY <1>1 DEF BlocksInv, Reading
<1>4. PICK M \in SUBSET DOMAIN graph : Reads(s, M)
  BY <1>3
<1>5. Total(graph) \in Nat
  BY <1>2, WordsOfMore DEF Total
<1>6. QED
  BY <1>2, <1>3, <1>4, <1>5

\* What a step of the reader leaves of the invariant to be shown.
LEMMA ReaderKeeps ==
  ASSUME BlocksInv, TypeOK', graph' = graph, device' = device,
         phase' \in {"readNode", "readCount", "readEdge"},
         NEW s \in [1 .. Total(graph) -> Nat], Stored(s),
         NEW M \in SUBSET DOMAIN graph, Reads(s, M)'
  PROVE  BlocksInv'
<1>1. Stored(s)'
  BY DEF Stored
<1>2. Reading'
  <2>1. s \in [1 .. Total(graph') -> Nat] /\ M \in SUBSET DOMAIN graph'
    OBVIOUS
  <2>2. QED BY <1>1, <2>1 DEF Reading
<1>3. Writing' /\ FitsOrNot' /\ RestoresWritten'
  BY DEF Writing, FitsOrNot, RestoresWritten
<1>4. QED
  BY <1>2, <1>3 DEF BlocksInv

LEMMA ReadNodeKeeps ==
  ASSUME BlocksInv, ReadNode
  PROVE  BlocksInv'
<1>1. /\ phase = "readNode" /\ nodesRemaining > 0
      /\ readUint64 /\ node' = Word /\ phase' = "readCount"
      /\ nodesRemaining' = nodesRemaining - 1
      /\ graph' = graph /\ device' = device /\ store' = store
  BY DEF ReadNode
<1>2. TypeOK /\ graph \in Graphs /\ Total(graph) \in Nat
  BY <1>1, InCheckpoint
<1>3. PICK s \in [1 .. Total(graph) -> Nat], M \in SUBSET DOMAIN graph :
        Stored(s) /\ Reads(s, M)
  BY <1>1, InCheckpoint
<1>4. /\ Smallest(graph, M) /\ buffer = device[block] /\ nodesRemaining \in Nat
      /\ Here = WordsOf(graph, M) /\ store = RebuiltOf(M)
      /\ Cardinality(M) + nodesRemaining = Cardinality(DOMAIN graph)
  BY <1>1, <1>3 DEF Reads
<1>5. IsFiniteSet(M) /\ Cardinality(M) \in Nat /\ DOMAIN graph \subseteq Nat
  BY <1>2, PairsFinite, FS_CardinalityType, GraphFinite
<1>6. M # DOMAIN graph
  BY <1>1, <1>4, <1>5
<1>7. PICK n \in DOMAIN graph \ M : \A m \in DOMAIN graph \ M : n <= m
  <2>1. DOMAIN graph \ M \in SUBSET Nat /\ DOMAIN graph \ M # {}
    BY <1>5, <1>6
  <2>2. QED BY <2>1, LeastId
<1>8. Smallest(graph, M \cup {n})
  <2>1. ASSUME NEW m \in M \cup {n}, NEW k \in DOMAIN graph \ (M \cup {n})
        PROVE  m < k
    <3>1. CASE m = n
      <4>1. n <= k /\ n # k /\ n \in Nat /\ k \in Nat BY <1>5, <1>7
      <4>2. QED BY <3>1, <4>1
    <3>2. CASE m \in M BY <1>4, <3>2 DEF Smallest
    <3>3. QED BY <3>1, <3>2
  <2>2. QED BY <2>1
    DEF Smallest
<1>9. /\ Start(graph, n) = WordsOf(graph, M) /\ WordsOf(graph, M) \in Nat
      /\ WordsOf(graph, M \cup {n}) = WordsOf(graph, M) + 2 + Cardinality(graph[n])
      /\ WordsOf(graph, M \cup {n}) <= Total(graph)
      /\ Cardinality(graph[n]) \in Nat
  BY <1>2, <1>4, <1>8, StartOfNext
<1>10. Laid(s, graph, n) /\ \A m \in M : Laid(s, graph, m)
  BY <1>3 DEF Stored
<1>11. Here < Total(graph)
  BY <1>2, <1>4, <1>9
<1>12. /\ Here' = Here + 1 /\ Word = s[Here + 1]
       /\ block' \in 1 .. Blocks /\ place' \in 0 .. BlockWords
       /\ buffer' = device[block'] /\ buffer' \in [Place -> Nat]
  BY <1>1, <1>2, <1>3, <1>4, <1>11, TakeWord
<1>13. node' = n
  BY <1>1, <1>4, <1>9, <1>10, <1>12 DEF Laid
<1>14. TypeOK'
  BY <1>1, <1>2, <1>12 DEF TypeOK, Phases
<1>15. AtNode(s, graph, M)'
  BY <1>1, <1>4, <1>8, <1>10, <1>13 DEF AtNode
<1>16. store' = RebuiltOf(M)'
  BY <1>1, <1>4 DEF RebuiltOf
<1>17. nodesRemaining' \in Nat /\ Cardinality(M) + 1 + nodesRemaining' = Cardinality(DOMAIN graph)
  BY <1>1, <1>4, <1>5
<1>18. Reads(s, M)'
  BY <1>1, <1>4, <1>12, <1>15, <1>16, <1>17 DEF Reads
<1>19. QED
  BY <1>1, <1>3, <1>14, <1>18, ReaderKeeps

LEMMA ReadCountKeeps ==
  ASSUME BlocksInv, ReadCount
  PROVE  BlocksInv'
<1>1. /\ phase = "readCount" /\ readUint64 /\ edgeCounts' = Word
      /\ phase' = IF Word = 0 THEN "readNode" ELSE "readEdge"
      /\ store' = AddNode(store, node).nodes
      /\ graph' = graph /\ device' = device /\ node' = node
      /\ nodesRemaining' = nodesRemaining
  BY DEF ReadCount
<1>2. TypeOK /\ graph \in Graphs /\ Total(graph) \in Nat
  BY <1>1, InCheckpoint
<1>3. PICK s \in [1 .. Total(graph) -> Nat], M \in SUBSET DOMAIN graph :
        Stored(s) /\ Reads(s, M)
  BY <1>1, InCheckpoint
<1>4. /\ Smallest(graph, M) /\ buffer = device[block] /\ nodesRemaining \in Nat
      /\ AtNode(s, graph, M)
      /\ Here = WordsOf(graph, M) + 1 /\ store = RebuiltOf(M)
      /\ Cardinality(M) + 1 + nodesRemaining = Cardinality(DOMAIN graph)
  BY <1>1, <1>3 DEF Reads
<1>5. node \in DOMAIN graph \ M /\ Smallest(graph, M \cup {node})
  BY <1>4 DEF AtNode
<1>6. /\ Start(graph, node) = WordsOf(graph, M) /\ WordsOf(graph, M) \in Nat
      /\ WordsOf(graph, M \cup {node}) = WordsOf(graph, M) + 2 + Cardinality(graph[node])
      /\ WordsOf(graph, M \cup {node}) <= Total(graph)
      /\ Cardinality(graph[node]) \in Nat
  BY <1>2, <1>4, <1>5, StartOfNext
<1>7. Here < Total(graph)
  BY <1>2, <1>4, <1>6
<1>8. /\ Here' = Here + 1 /\ Word = s[Here + 1]
      /\ block' \in 1 .. Blocks /\ place' \in 0 .. BlockWords
      /\ buffer' = device[block'] /\ buffer' \in [Place -> Nat]
  BY <1>1, <1>2, <1>3, <1>4, <1>7, TakeWord
<1>9. Laid(s, graph, node)
  BY <1>3, <1>5 DEF Stored
<1>10. Here + 1 = WordsOf(graph, M) + 2
  BY <1>4, <1>6
<1>11. Word = Cardinality(graph[node])
  BY <1>6, <1>8, <1>9, <1>10 DEF Laid
<1>12. TypeOK'
  BY <1>1, <1>2, <1>8 DEF TypeOK, Phases
<1>13. store' = RebuiltWith(M, {})
  BY <1>1, <1>4, <1>5, NodeAdded
<1>14. CASE Word = 0
  <2>1. graph[node] = {}
    BY <1>2, <1>5, <1>11, <1>14, GraphFinite, FS_EmptySet
  <2>2. store' = RebuiltOf(M \cup {node})
    BY <1>13, <2>1, NodeRebuilt
  <2>3. PICK N \in SUBSET DOMAIN graph : N = M \cup {node}
    BY <1>5
  <2>4. store' = RebuiltOf(N)'
    BY <1>1, <2>2, <2>3 DEF RebuiltOf
  <2>5. Here' = WordsOf(graph, N)
    BY <1>6, <1>8, <1>10, <1>11, <1>14, <2>3
  <2>6. Cardinality(N) + nodesRemaining' = Cardinality(DOMAIN graph)
    <3>1. IsFiniteSet(M) /\ Cardinality(M) \in Nat
      BY <1>2, PairsFinite, FS_CardinalityType
    <3>2. Cardinality(N) = Cardinality(M) + 1
      BY <1>5, <2>3, <3>1, FS_AddElement
    <3>3. QED BY <1>1, <1>4, <3>1, <3>2
  <2>7. phase' = "readNode" /\ Smallest(graph', N)
    BY <1>1, <1>5, <1>14, <2>3
  <2>8. Reads(s, N)'
    BY <1>1, <1>4, <1>8, <2>4, <2>5, <2>6, <2>7 DEF Reads
  <2>9. QED
    BY <1>1, <1>3, <1>12, <2>7, <2>8, ReaderKeeps
<1>15. CASE Word # 0
  <2>1. phase' = "readEdge"
    BY <1>1, <1>15
  <2>2. AtNode(s, graph, M)'
    BY <1>1, <1>4 DEF AtNode
  <2>3. {s[WordsOf(graph', M) + 2 + i] : i \in 1 .. 0} = {}
    OBVIOUS
  <2>8. store' = RebuiltWith(M, {})'
    BY <1>1, <1>13 DEF RebuiltWith
  <2>4. store' = RebuiltWith(M, {s[WordsOf(graph, M) + 2 + i] : i \in 1 .. 0})'
    BY <2>3, <2>8
  <2>5. /\ 0 \in 0 .. Cardinality(graph[node]) - 1
        /\ edgeCounts' = Cardinality(graph[node]) - 0
        /\ Here' = WordsOf(graph, M) + 2 + 0
    BY <1>1, <1>6, <1>8, <1>10, <1>11, <1>15
  <2>6. Reads(s, M)'
    BY <1>1, <1>4, <1>8, <2>1, <2>2, <2>4, <2>5 DEF Reads
  <2>7. QED
    BY <1>1, <1>3, <1>12, <2>1, <2>6, ReaderKeeps
<1>16. QED
  BY <1>14, <1>15

LEMMA ReadEdgeKeeps ==
  ASSUME BlocksInv, ReadEdge
  PROVE  BlocksInv'
<1>1. /\ phase = "readEdge" /\ readUint64
      /\ store' = LinkOneWay(AddNode(store, Word).nodes, node, Word)
      /\ edgeCounts' = edgeCounts - 1
      /\ phase' = IF edgeCounts = 1 THEN "readNode" ELSE "readEdge"
      /\ graph' = graph /\ device' = device /\ node' = node
      /\ nodesRemaining' = nodesRemaining
  BY DEF ReadEdge
<1>2. TypeOK /\ graph \in Graphs /\ Total(graph) \in Nat
  BY <1>1, InCheckpoint
<1>3. PICK s \in [1 .. Total(graph) -> Nat], M \in SUBSET DOMAIN graph :
        Stored(s) /\ Reads(s, M)
  BY <1>1, InCheckpoint
<1>4. /\ Smallest(graph, M) /\ buffer = device[block] /\ nodesRemaining \in Nat
      /\ AtNode(s, graph, M)
      /\ Cardinality(M) + 1 + nodesRemaining = Cardinality(DOMAIN graph)
  BY <1>1, <1>3 DEF Reads
<1>5. node \in DOMAIN graph \ M /\ Smallest(graph, M \cup {node})
  BY <1>4 DEF AtNode
<1>6. PICK o : o = WordsOf(graph, M)
  OBVIOUS
<1>7. PICK c : c = Cardinality(graph[node])
  OBVIOUS
<1>8. PICK k \in 0 .. c - 1 :
        /\ edgeCounts = c - k /\ Here = o + 2 + k
        /\ store = RebuiltWith(M, {s[o + 2 + i] : i \in 1 .. k})
  BY <1>1, <1>3, <1>6, <1>7 DEF Reads
<1>9. /\ Start(graph, node) = o /\ o \in Nat
      /\ WordsOf(graph, M \cup {node}) = o + 2 + c
      /\ o + 2 + c <= Total(graph) /\ c \in Nat
  BY <1>2, <1>4, <1>5, <1>6, <1>7, StartOfNext
<1>10. Here < Total(graph)
  BY <1>2, <1>8, <1>9
<1>11. /\ Here' = Here + 1 /\ Word = s[Here + 1]
       /\ block' \in 1 .. Blocks /\ place' \in 0 .. BlockWords
       /\ buffer' = device[block'] /\ buffer' \in [Place -> Nat]
  BY <1>1, <1>2, <1>3, <1>4, <1>10, TakeWord
<1>12. Word = s[o + 2 + (k + 1)]
  <2>1. Here + 1 = o + 2 + (k + 1) BY <1>8, <1>9
  <2>2. QED BY <1>11, <2>1
<1>13. PICK E : E = {s[o + 2 + i] : i \in 1 .. k + 1}
  OBVIOUS
<1>14. {s[o + 2 + i] : i \in 1 .. k} \cup {Word} = E
  <2>1. \A i \in 1 .. k + 1 : i \in 1 .. k \/ i = k + 1 BY <1>8, <1>9
  <2>2. k + 1 \in 1 .. k + 1 /\ \A i \in 1 .. k : i \in 1 .. k + 1 BY <1>8, <1>9
  <2>3. QED BY <1>12, <1>13, <2>1, <2>2
<1>15. store' = RebuiltWith(M, E)
  BY <1>1, <1>5, <1>8, <1>14, EdgeAdded
<1>16. TypeOK'
  BY <1>1, <1>2, <1>11 DEF TypeOK, Phases
<1>17. Here' = o + 2 + (k + 1)
  BY <1>8, <1>9, <1>11
<1>18. CASE edgeCounts = 1
  <2>1. k + 1 = c
    BY <1>8, <1>9, <1>18
  <2>2. E = graph[node]
    <3>1. Laid(s, graph, node) BY <1>3, <1>5 DEF Stored
    <3>2. {s[o + 2 + i] : i \in 1 .. c} = graph[node] BY <1>7, <1>9, <3>1 DEF Laid, EdgesAt
    <3>3. QED BY <1>13, <2>1, <3>2
  <2>3. store' = RebuiltOf(M \cup {node})
    BY <1>15, <2>2, NodeRebuilt
  <2>4. PICK N \in SUBSET DOMAIN graph : N = M \cup {node}
    BY <1>5
  <2>5. store' = RebuiltOf(N)'
    BY <1>1, <2>3, <2>4 DEF RebuiltOf
  <2>6. Here' = WordsOf(graph, N)
    BY <1>9, <1>17, <2>1, <2>4
  <2>7. Cardinality(N) + nodesRemaining' = Cardinality(DOMAIN graph)
    <3>1. IsFiniteSet(M) /\ Cardinality(M) \in Nat
      BY <1>2, PairsFinite, FS_CardinalityType
    <3>2. Cardinality(N) = Cardinality(M) + 1
      BY <1>5, <2>4, <3>1, FS_AddElement
    <3>3. QED BY <1>1, <1>4, <3>1, <3>2
  <2>8. phase' = "readNode" /\ Smallest(graph', N)
    BY <1>1, <1>5, <1>18, <2>4
  <2>9. Reads(s, N)'
    BY <1>1, <1>4, <1>11, <2>5, <2>6, <2>7, <2>8 DEF Reads
  <2>10. QED
    BY <1>1, <1>3, <1>16, <2>8, <2>9, ReaderKeeps
<1>19. CASE edgeCounts # 1
  <2>1. phase' = "readEdge"
    BY <1>1, <1>19
  <2>2. AtNode(s, graph, M)'
    BY <1>1, <1>4 DEF AtNode
  <2>3. k + 1 \in 0 .. c - 1 /\ edgeCounts' = c - (k + 1)
    BY <1>1, <1>8, <1>9, <1>19
  <2>4. c = Cardinality(graph'[node']) /\ o = WordsOf(graph', M)
    BY <1>1, <1>6, <1>7
  <2>5. store' = RebuiltWith(M, E)'
    BY <1>1, <1>15 DEF RebuiltWith
  <2>6. store' = RebuiltWith(M, {s[WordsOf(graph, M) + 2 + i] : i \in 1 .. k + 1})'
    BY <1>13, <2>4, <2>5
  <2>7. Reads(s, M)'
    BY <1>1, <1>4, <1>11, <1>17, <2>1, <2>2, <2>3, <2>4, <2>6 DEF Reads
  <2>8. QED
    BY <1>1, <1>3, <1>16, <2>1, <2>7, ReaderKeeps
<1>20. QED
  BY <1>18, <1>19

LEMMA FinishKeeps ==
  ASSUME BlocksInv, FinishRestore
  PROVE  BlocksInv'
<1>1. /\ phase = "readNode" /\ nodesRemaining = 0 /\ phase' = "restored"
      /\ graph' = graph /\ device' = device /\ store' = store
      /\ block' = block /\ place' = place /\ buffer' = buffer
  BY DEF FinishRestore, position, reader
<1>2. TypeOK /\ graph \in Graphs /\ Total(graph) \in Nat
  BY <1>1, InCheckpoint
<1>3. PICK s \in [1 .. Total(graph) -> Nat], M \in SUBSET DOMAIN graph :
        Stored(s) /\ Reads(s, M)
  BY <1>1, InCheckpoint
<1>4. M = DOMAIN graph
  <2>1. IsFiniteSet(DOMAIN graph) /\ Cardinality(M) \in Nat
    BY <1>2, PairsFinite, FS_CardinalityType, GraphFinite
  <2>2. Cardinality(M) + 0 = Cardinality(DOMAIN graph)
    BY <1>1, <1>3 DEF Reads
  <2>3. QED BY <2>1, <2>2, FS_Subset
<1>5. store = RebuiltOf(DOMAIN graph)
  BY <1>1, <1>3, <1>4 DEF Reads
<1>6. TypeOK'
  BY <1>1, <1>2 DEF TypeOK, Phases
<1>7. Reading'
  <2>1. Stored(s)'
    BY <1>1, <1>3 DEF Stored
  <2>2. s \in [1 .. Total(graph') -> Nat] /\ phase' \notin {"readNode", "readCount", "readEdge"}
    BY <1>1
  <2>3. QED BY <2>1, <2>2 DEF Reading
<1>8. RestoresWritten'
  <2>1. Whole'
    BY <1>1 DEF Whole
  <2>2. C!Restored(1)' = RebuiltOf(DOMAIN graph)
    BY <1>1, <2>1 DEF C!Restored, C!Matches, C!Rebuilt, RebuiltOf
  <2>3. QED BY <1>1, <1>5, <2>2 DEF RestoresWritten
<1>9. Writing' /\ FitsOrNot'
  BY <1>1 DEF Writing, FitsOrNot
<1>10. QED
  BY <1>6, <1>7, <1>8, <1>9 DEF BlocksInv

-----------------------------------------------------------------------------
LEMMA BlocksInit == Init => BlocksInv
<1> SUFFICES ASSUME Init PROVE BlocksInv
  OBVIOUS
<1>1. /\ graph = EmptyGraph /\ device = [b \in 1 .. Blocks |-> Zeroed]
      /\ phase = "idle" /\ block = 0 /\ place = 0 /\ buffer = Zeroed
  BY DEF Init
<1>2. EmptyGraph \in Graphs
  <2>1. EmptyGraph \in [{} -> SUBSET Id] BY DEF EmptyGraph
  <2>2. WellFormed(EmptyGraph, Id)
    BY DEF EmptyGraph, WellFormed, NoDangling, Symmetric, Irreflexive
  <2>3. {} \in SUBSET Id OBVIOUS
  <2>4. QED BY <2>1, <2>2, <2>3 DEF Graphs
<1>3. TypeOK
  BY <1>1, <1>2, BlocksAssumption DEF TypeOK, Phases, Zeroed
<1>4. QED
  BY <1>1, <1>3 DEF BlocksInv, Writing, Reading, Whole, FitsOrNot, RestoresWritten

LEMMA BlocksStutter ==
  ASSUME BlocksInv, UNCHANGED vars
  PROVE  BlocksInv'
<1>1. /\ graph' = graph /\ device' = device /\ phase' = phase
      /\ block' = block /\ place' = place /\ buffer' = buffer /\ node' = node
      /\ nodes' = nodes /\ edges' = edges /\ store' = store
      /\ nodesRemaining' = nodesRemaining /\ edgeCounts' = edgeCounts
  BY DEF vars, position, writer, reader
<1>2. TypeOK'
  BY <1>1 DEF BlocksInv, TypeOK
<1>3. Here' = Here
  BY <1>1 DEF Here
<1>4. \A s : Held(s) => Held(s)'
  BY <1>1 DEF Held
<1>5. \A s, M : AtNode(s, graph, M) => AtNode(s, graph, M)'
  BY <1>1 DEF AtNode
<1>6. \A s : Written(s) => Written(s)'
  BY <1>1, <1>3, <1>5 DEF Written
<1>7. Writing'
  BY <1>1, <1>3, <1>4, <1>6 DEF BlocksInv, Writing
<1>8. \A s : Stored(s) => Stored(s)'
  BY <1>1 DEF Stored
<1>9. (\A M : RebuiltOf(M)' = RebuiltOf(M)) /\ \A M, E : RebuiltWith(M, E)' = RebuiltWith(M, E)
  BY <1>1 DEF RebuiltOf, RebuiltWith
<1>10. \A s, M : Reads(s, M) => Reads(s, M)'
  BY <1>1, <1>3, <1>5, <1>9 DEF Reads
<1>11. Whole' = Whole
  BY <1>1 DEF Whole
<1>12. Reading'
  BY <1>1, <1>8, <1>10, <1>11 DEF BlocksInv, Reading
<1>13. FitsOrNot'
  BY <1>1 DEF BlocksInv, FitsOrNot
<1>14. C!Restored(1)' = C!Restored(1)
  BY <1>1, <1>11 DEF C!Restored, C!Matches, C!Rebuilt
<1>15. RestoresWritten'
  BY <1>1, <1>14 DEF BlocksInv, RestoresWritten
<1>16. QED
  BY <1>2, <1>7, <1>12, <1>13, <1>15 DEF BlocksInv

LEMMA BlocksInvAlways == Spec => []BlocksInv
<1>1. BlocksInv /\ [Next]_vars => BlocksInv'
  <2> SUFFICES ASSUME BlocksInv, [Next]_vars PROVE BlocksInv'
    OBVIOUS
  <2>1. ASSUME NEW g \in Graphs, performCheckpoint(g) PROVE BlocksInv'
    BY <2>1, PerformKeeps
  <2>2. CASE Write
    BY <2>2, WriteNodeKeeps, WriteCountKeeps, WriteEdgeKeeps, NoSpaceKeeps, FlushKeeps
    DEF Write
  <2>3. CASE restoreCheckpoint
    BY <2>3, RestoreKeeps
  <2>4. CASE Read
    BY <2>4, ReadNodeKeeps, ReadCountKeeps, ReadEdgeKeeps, FinishKeeps DEF Read
  <2>5. CASE UNCHANGED vars
    BY <2>5, BlocksStutter
  <2>6. QED
    BY <2>1, <2>2, <2>3, <2>4, <2>5 DEF Next
<1>2. QED
  BY <1>1, BlocksInit, PTL DEF Spec

\* performCheckpoint succeeds exactly when the words of the graph fit in the
\* data blocks.
THEOREM FitsOrNotAlways == Spec => []FitsOrNot
<1>1. BlocksInv => FitsOrNot
  BY DEF BlocksInv
<1>2. QED
  BY <1>1, BlocksInvAlways, PTL

\* restoreCheckpoint builds what was written, over whatever the blocks held.
THEOREM RestoresWrittenAlways == Spec => []RestoresWritten
<1>1. BlocksInv => RestoresWritten
  BY DEF BlocksInv
<1>2. QED
  BY <1>1, BlocksInvAlways, PTL

\* No block past the last one is taken.
THEOREM StaysInBlocksAlways == Spec => []StaysInBlocks
<1>1. BlocksInv => StaysInBlocks
  BY BlocksAssumption DEF BlocksInv, TypeOK, StaysInBlocks
<1>2. QED
  BY <1>1, BlocksInvAlways, PTL
=============================================================================
