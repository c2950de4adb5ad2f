-------------------------- MODULE LoggedStoreProofs --------------------------
(***************************************************************************)
(* Proofs about LoggedStore, for any operations, block size, device and    *)
(* bound on the generations: what recovery gives back, and when.  What the *)
(* log holds is taken from the proofs about LogManager.                    *)
(***************************************************************************)
EXTENDS LoggedStore, GraphDataProofs

LP == INSTANCE LogManagerProofs

Here == Local \cup {0}
Ids  == Local \cup Remote \cup {0}

Graphs == UNION {[d -> SUBSET Ids] : d \in SUBSET Here}

Good(g) == WellFormed(g, Here)

Checkpoints == [version : Int, checkpointed : BOOLEAN, whole : BOOLEAN,
                data : Graphs]

Shape ==
  /\ nodes \in Graphs /\ promised \in Graphs
  /\ mode \in Modes /\ checkpoint \in Checkpoints /\ doubt \in BOOLEAN

\* What the MemoryStore holds between a start and the end of recovery, and
\* while calls are taken.
Serving == {"serving", "header", "data", "closed", "renewing"}

Held ==
  /\ mode \in {"off", "formatting", "restoring"} => nodes = EmptyGraph
  /\ mode \in Serving => nodes = promised
  /\ mode = "formatting" => promised = EmptyGraph /\ (phase = "open" => logged = <<>>)
  /\ mode = "renewing" => phase = "beginning"

\* How the checkpoint on the device and the generation of the log fit.
Matched ==
  /\ checkpoint.version \in 0 .. superblock.generation \cup {BlockMagic}
  /\ ~superblock.valid => superblock.generation = 0
  /\ Remote # {} => checkpoint.data = EmptyGraph
  /\ mode \in {"header", "data", "closed"} =>
       checkpoint.version = superblock.generation /\ Remote = {}
  /\ mode = "renewing" => checkpoint.version = superblock.generation - 1 /\ Remote = {}
  /\ mode \in {"data", "closed", "renewing"} =>
       checkpoint.whole /\ checkpoint.data = nodes

\* While there is no doubt, what is in memory and on the device is well formed,
\* and what an earlier generation was closed with is whole.
Sound ==
  /\ mode = "exited" => doubt \/ ~intact \/ ~InRange
  /\ mode = "garbled" => doubt
  /\ ~doubt /\ mode # "formatting" =>
       /\ Good(nodes) /\ Good(checkpoint.data)
       /\ checkpoint.version \notin {superblock.generation, BlockMagic} => checkpoint.whole

\* h is what the store goes through when the log is replayed: from what is
\* restored to what was promised.
Leads(h) ==
  /\ h \in [0 .. Len(logged) -> Graphs]
  /\ h[0] = Restored(superblock.generation - 1)
  /\ \A i \in 1 .. Len(logged) : h[i] = Apply(h[i - 1], logged[i]).nodes
  /\ h[Len(logged)] = promised

Sure == /\ intact /\ ~doubt /\ checkpoint.version # superblock.generation
        /\ mode # "formatting" /\ InRange

Kept == Sure => \E h : /\ Leads(h)
                       /\ mode = "replaying" => nodes = h[Len(reader.got)]

Inv == LP!Inv /\ Shape /\ Held /\ Matched /\ Sound /\ Kept

-----------------------------------------------------------------------------
\* The data.
LEMMA Sets ==
  /\ Here \subseteq Ids
  /\ Remote = {} => Ids = Here
  /\ \A r \in Remote : r \in Ids \ Here
  /\ Local \subseteq Here /\ 0 \in Here
BY EntriesAreOperations DEF Here, Ids

LEMMA GraphsAre ==
  ASSUME NEW g
  PROVE  g \in Graphs <=> IsGraph(g, Here, Ids)
BY DEF Graphs, IsGraph

LEMMA EmptyIsGood ==
  EmptyGraph \in Graphs /\ Good(EmptyGraph)
<1>1. IsGraph(EmptyGraph, Here, Ids)
  BY DEF EmptyGraph, IsGraph
<1> QED
  BY <1>1, GraphsAre DEF Good, WellFormed, NoDangling, Symmetric, Irreflexive, EmptyGraph

LEMMA EntryIs ==
  ASSUME NEW e \in Entry \cup {ZeroEntry}
  PROVE  /\ e.op \in OpCode /\ e.a \in Here /\ e.b \in Ids
         /\ e.op \in {"ADD_EDGE_PART", "REMOVE_EDGE_PART"} => e.b \in Remote
         /\ e.op = "REMOVE_NODE" => Remote = {}
<1>1. CASE e = ZeroEntry
  BY <1>1 DEF ZeroEntry, OpCode, Here, Ids
<1>2. CASE e \in Entry
  <2>1. e \in [op : OpCode, a : Local, b : Local \cup Remote \cup {0}]
    BY <1>2, EntriesAreOperations
  <2> QED
    BY <1>2, <2>1, EntriesAreOperations DEF Here, Ids
<1> QED
  BY <1>1, <1>2

LEMMA ApplyIs ==
  ASSUME NEW g, NEW e, e.op \in OpCode
  PROVE  /\ e.op = "ADD_NODE" => Apply(g, e) = AddNode(g, e.a)
         /\ e.op = "REMOVE_NODE" => Apply(g, e) = RemoveNode(g, e.a)
         /\ e.op = "ADD_EDGE" => Apply(g, e) = AddEdge(g, e.a, e.b)
         /\ e.op = "REMOVE_EDGE" => Apply(g, e) = RemoveEdge(g, e.a, e.b)
         /\ e.op = "ADD_EDGE_PART" => Apply(g, e) = AddEdgePart(g, e.a, e.b)
         /\ e.op = "REMOVE_EDGE_PART" => Apply(g, e) = RemoveEdgePart(g, e.a, e.b)
BY DEF Apply, OpCode

\* A node is linked to one id, or to one less.
LEMMA OneWay ==
  ASSUME NEW g \in Graphs, NEW a, NEW b
  PROVE  /\ b \in Ids => LinkOneWay(g, a, b) \in Graphs
         /\ UnlinkOneWay(g, a, b) \in Graphs
         /\ DOMAIN LinkOneWay(g, a, b) = DOMAIN g
         /\ DOMAIN UnlinkOneWay(g, a, b) = DOMAIN g
<1>1. IsGraph(g, Here, Ids)
  BY GraphsAre
<1>2. /\ LinkOneWay(g, a, b) = [x \in DOMAIN g |-> IF x = a THEN g[a] \cup {b} ELSE g[x]]
      /\ UnlinkOneWay(g, a, b) = [x \in DOMAIN g |-> IF x = a THEN g[a] \ {b} ELSE g[x]]
  BY <1>1 DEF LinkOneWay, UnlinkOneWay, IsGraph
<1>3. b \in Ids => IsGraph(LinkOneWay(g, a, b), Here, Ids)
  BY <1>1, <1>2 DEF IsGraph
<1>4. IsGraph(UnlinkOneWay(g, a, b), Here, Ids)
  BY <1>1, <1>2 DEF IsGraph
<1> QED
  BY <1>2, <1>3, <1>4, GraphsAre

\* No operation makes of a graph anything but a graph.
LEMMA AddPartStaysAGraph ==
  ASSUME NEW g \in Graphs, NEW a, NEW b \in Ids
  PROVE  AddEdgePart(g, a, b).nodes \in Graphs
BY OneWay DEF AddEdgePart, Result

LEMMA ApplyStaysAGraph ==
  ASSUME NEW g \in Graphs, NEW e \in Entry \cup {ZeroEntry}
  PROVE  Apply(g, e).nodes \in Graphs
<1>1. IsGraph(g, Here, Ids)
  BY GraphsAre
<1>2. e.op \in OpCode /\ e.a \in Here /\ e.b \in Ids
  BY EntryIs
<1>3. CASE e.op = "ADD_NODE"
  <2> DEFINE h == [m \in DOMAIN g \cup {e.a} |-> IF m = e.a THEN {} ELSE g[m]]
  <2>1. IsGraph(h, Here, Ids)
    BY <1>1, <1>2 DEF IsGraph
  <2>2. AddNode(g, e.a) = Result("NO_ACTION", g) \/ AddNode(g, e.a) = Result("SUCCESS", h)
    BY DEF AddNode
  <2> HIDE DEF h
  <2>3. AddNode(g, e.a).nodes \in {g, h}
    BY <2>2 DEF Result
  <2> QED
    BY <1>2, <1>3, <2>1, <2>3, ApplyIs, GraphsAre
<1>4. CASE e.op = "REMOVE_NODE"
  <2> DEFINE h == [m \in DOMAIN g \ {e.a} |->
                     IF m \in g[e.a] THEN g[m] \ {e.a} ELSE g[m]]
  <2>1. IsGraph(h, Here, Ids)
    BY <1>1, <1>2 DEF IsGraph
  <2>2. \/ RemoveNode(g, e.a) = Result("SUCCESS", h)
        \/ RemoveNode(g, e.a) = Result("DOES_NOT_EXIST", g)
        \/ RemoveNode(g, e.a) = Result("EXIT", g)
    BY DEF RemoveNode
  <2> HIDE DEF h
  <2>3. RemoveNode(g, e.a).nodes \in {g, h}
    BY <2>2 DEF Result
  <2> QED
    BY <1>2, <1>4, <2>1, <2>3, ApplyIs, GraphsAre
<1>5. CASE e.op = "ADD_EDGE"
  <2>1. e.a \in Ids /\ LinkOneWay(g, e.a, e.b) \in Graphs
    BY <1>2, OneWay, Sets
  <2>2. LinkOneWay(LinkOneWay(g, e.a, e.b), e.b, e.a) \in Graphs
    BY <2>1, OneWay
  <2> QED
    BY <1>2, <1>5, <2>2, ApplyIs DEF AddEdge, Result
<1>6. CASE e.op = "REMOVE_EDGE"
  <2>1. UnlinkOneWay(UnlinkOneWay(g, e.a, e.b), e.b, e.a) \in Graphs
    BY OneWay
  <2> QED
    BY <1>2, <1>6, <2>1, ApplyIs DEF RemoveEdge, Result
<1>7. CASE e.op = "ADD_EDGE_PART"
  BY <1>2, <1>7, ApplyIs, AddPartStaysAGraph
<1>8. CASE e.op = "REMOVE_EDGE_PART"
  BY <1>2, <1>8, ApplyIs, OneWay DEF RemoveEdgePart, Result
<1> QED
  BY <1>2, <1>3, <1>4, <1>5, <1>6, <1>7, <1>8 DEF OpCode

LEMMA ReplayStaysAGraph ==
  ASSUME NEW g \in Graphs, NEW e \in Entry \cup {ZeroEntry}
  PROVE  Replay(g, e).nodes \in Graphs
<1>1. Apply(g, e).nodes \in Graphs /\ e.b \in Ids
  BY ApplyStaysAGraph, EntryIs
<1>2. AddEdgePart(Apply(g, e).nodes, e.a, e.b).nodes \in Graphs
  BY <1>1, AddPartStaysAGraph
<1> QED
  BY <1>1, <1>2 DEF Replay

\* On a well formed graph no operation ends the process, and it stays well
\* formed.
LEMMA ApplyKeeps ==
  ASSUME NEW g \in Graphs, Good(g), NEW e \in Entry \cup {ZeroEntry}
  PROVE  Good(Apply(g, e).nodes) /\ Apply(g, e).status # "EXIT"
<1>1. IsGraph(g, Here, Ids) /\ WellFormed(g, Here)
  BY GraphsAre DEF Good
<1>2. /\ e.op \in OpCode /\ e.a \in Here /\ e.b \in Ids
      /\ e.op \in {"ADD_EDGE_PART", "REMOVE_EDGE_PART"} => e.b \in Ids \ Here
      /\ e.op = "REMOVE_NODE" => Ids = Here
      /\ Here \subseteq Ids
  BY EntryIs, Sets
<1>3. Keeps(Apply(g, e), Here, Ids)
  <2>1. CASE e.op = "ADD_NODE"
    BY <1>1, <1>2, <2>1, AddNodeKeeps, ApplyIs
  <2>2. CASE e.op = "REMOVE_NODE"
    BY <1>1, <1>2, <2>2, RemoveNodeKeeps, ApplyIs
  <2>3. CASE e.op = "ADD_EDGE"
    BY <1>1, <1>2, <2>3, AddEdgeKeeps, ApplyIs
  <2>4. CASE e.op = "REMOVE_EDGE"
    BY <1>1, <1>2, <2>4, RemoveEdgeKeeps, ApplyIs
  <2>5. CASE e.op = "ADD_EDGE_PART"
    BY <1>1, <1>2, <2>5, AddEdgePartKeeps, ApplyIs
  <2>6. CASE e.op = "REMOVE_EDGE_PART"
    BY <1>1, <1>2, <2>6, RemoveEdgePartKeeps, ApplyIs
  <2> QED
    BY <1>2, <2>1, <2>2, <2>3, <2>4, <2>5, <2>6 DEF OpCode
<1> QED
  BY <1>3 DEF Keeps, Good, StatusCode

\* A checkpoint of a well formed graph is restored as it was.
LEMMA RebuiltIs ==
  ASSUME NEW g \in Graphs, Remote # {} => g = EmptyGraph
  PROVE  Rebuilt(g) \in Graphs /\ (Good(g) => Rebuilt(g) = g)
<1>1. IsGraph(g, Here, Ids)
  BY GraphsAre
<1>2. CASE Remote = {}
  <2>1. Ids = Here
    BY <1>2, Sets
  <2>2. IsGraph(Rebuilt(g), Here, Ids)
    BY <1>1, <2>1 DEF Rebuilt, IsGraph
  <2>3. ASSUME Good(g) PROVE Rebuilt(g) = g
    <3>1. UNION {g[m] : m \in DOMAIN g} \subseteq DOMAIN g
      BY <1>1, <2>1, <2>3 DEF Good, WellFormed, NoDangling, IsGraph
    <3>2. DOMAIN g \cup UNION {g[m] : m \in DOMAIN g} = DOMAIN g
      BY <3>1
    <3>3. Rebuilt(g) = [n \in DOMAIN g |-> g[n]]
      BY <3>2 DEF Rebuilt
    <3> QED
      BY <1>1, <3>3 DEF IsGraph
  <2> QED
    BY <2>2, <2>3, GraphsAre
<1>3. CASE Remote # {}
  <2>1. g = EmptyGraph /\ DOMAIN g = {}
    BY <1>3 DEF EmptyGraph
  <2>2. UNION {g[m] : m \in DOMAIN g} = {}
    BY <2>1
  <2>3. Rebuilt(g) = g
    BY <2>1, <2>2 DEF Rebuilt, EmptyGraph
  <2> QED
    BY <2>1, <2>3
<1> QED
  BY <1>2, <1>3

-----------------------------------------------------------------------------
\* The log.  LP's actions are those of Log, and LP has the proofs.
LEMMA Sizes == LP!LogSizes
BY DeviceSizes DEF LP!LogSizes

\* What is used of the log, before a step and after it.
LogFacts ==
  /\ superblock \in [valid : BOOLEAN, generation : 0 .. MaxGeneration,
                     size : 0 .. DeviceBlocks]
  /\ logged \in Seq(Entry) /\ reader.got \in Seq(Entry \cup {ZeroEntry})
  /\ intact \in BOOLEAN
  /\ intact => phase \notin {"formatting", "beginning", "exited"}
  /\ phase = "beginning" => logged = <<>>
  /\ phase = "extending" => pending \in Entry
  /\ intact /\ phase = "reading" =>
       \A x \in 1 .. Len(reader.got) : x <= Len(logged) /\ reader.got[x] = logged[x]

LEMMA LogIs ==
  ASSUME LP!Inv
  PROVE  LogFacts
BY DEF LP!Inv, LP!TypeOK, LP!Shape, LP!Written, LP!ReadSoFar, LogFacts

LEMMA LogWillBe ==
  ASSUME LP!Inv'
  PROVE  LogFacts'
BY DEF LP!Inv, LP!TypeOK, LP!Shape, LP!Written, LP!ReadSoFar, LogFacts

LEMMA LogStepIs ==
  ASSUME Log!Next
  PROVE  LP!Next
<1>1. CASE Log!format
  <2>1. LP!format
    BY <1>1 DEF Log!format, LP!format, Log!BeginGeneration, LP!BeginGeneration
  <2> QED
    BY <2>1 DEF LP!Next
<1>2. CASE Log!FormatGeneration \/ Log!increaseGeneration
  <2>1. LP!FormatGeneration \/ LP!increaseGeneration
    BY <1>2 DEF Log!FormatGeneration, LP!FormatGeneration, Log!increaseGeneration,
                LP!increaseGeneration, Log!BeginGeneration, LP!BeginGeneration
  <2> QED
    BY <2>1 DEF LP!Next
<1>3. CASE Log!EmptyFirstBlock
  <2>1. LP!EmptyFirstBlock
    BY <1>3 DEF Log!EmptyFirstBlock, LP!EmptyFirstBlock, Log!LogBlock, LP!LogBlock
  <2> QED
    BY <2>1 DEF LP!Next
<1>4. ASSUME NEW e \in Entry, Log!logOperation(e)
      PROVE  LP!Next
  <2>1. LP!logOperation(e)
    <3>1. Log!AppendEntry(e) => LP!AppendEntry(e)
      BY DEF Log!AppendEntry, LP!AppendEntry, Log!Full, LP!Full, Log!current, LP!current
    <3>2. Log!Extend(e) => LP!Extend(e)
      BY DEF Log!Extend, LP!Extend, Log!NoSpace, LP!NoSpace, Log!Full, LP!Full,
             Log!current, LP!current
    <3>3. Log!Refuse => LP!Refuse
      BY DEF Log!Refuse, LP!Refuse, Log!NoSpace, LP!NoSpace, Log!Full, LP!Full,
             Log!current, LP!current, Log!vars, LP!vars, Log!disk, LP!disk
    <3> QED
      BY <1>4, <3>1, <3>2, <3>3 DEF Log!logOperation, LP!logOperation
  <2> QED
    BY <2>1 DEF LP!Next
<1>5. CASE Log!WriteNewBlock
  <2>1. LP!WriteNewBlock
    BY <1>5 DEF Log!WriteNewBlock, LP!WriteNewBlock, Log!LogBlock, LP!LogBlock
  <2> QED
    BY <2>1 DEF LP!Next
<1>6. CASE Log!init
  <2>1. LP!init
    BY <1>6 DEF Log!init, LP!init, Log!current, LP!current, Log!disk, LP!disk
  <2> QED
    BY <2>1 DEF LP!Next
<1>7. CASE Log!readLog
  <2>1. LP!readLog
    BY <1>7 DEF Log!readLog, LP!readLog, Log!NoReader, LP!NoReader, Log!disk, LP!disk
  <2> QED
    BY <2>1 DEF LP!Next
<1>8. CASE Log!getNext
  <2>1. LP!getNext
    BY <1>8 DEF Log!getNext, LP!getNext, Log!NextEntry, LP!NextEntry, Log!NextPosition,
                LP!NextPosition, Log!hasNext, LP!hasNext, Log!Slot, LP!Slot,
                Log!NoReader, LP!NoReader, Log!disk, LP!disk
  <2> QED
    BY <2>1 DEF LP!Next
<1>9. CASE Log!close
  <2>1. LP!close
    BY <1>9 DEF Log!close, LP!close, Log!hasNext, LP!hasNext, Log!NoReader, LP!NoReader,
                Log!disk, LP!disk
  <2> QED
    BY <2>1 DEF LP!Next
<1>10. CASE Log!Crash
  <2>1. LP!Crash
    BY <1>10 DEF Log!Crash, LP!Crash, Log!NoReader, LP!NoReader, Log!disk, LP!disk
  <2> QED
    BY <2>1 DEF LP!Next
<1> QED
  BY <1>1, <1>2, <1>3, <1>4, <1>5, <1>6, <1>7, <1>8, <1>9, <1>10 DEF Log!Next

LEMMA LogStepKeeps ==
  ASSUME LP!Inv, Log!Next
  PROVE  LP!Inv'
BY LogStepIs, Sizes, LP!StepKeepsInv

-----------------------------------------------------------------------------
\* What is kept when neither the log nor the checkpoint change.
LEMMA RestoredStays ==
  ASSUME checkpoint' = checkpoint, superblock'.generation = superblock.generation
  PROVE  Restored(superblock.generation - 1)' = Restored(superblock.generation - 1)
BY DEF Restored, Matches

LEMMA KeptStays ==
  ASSUME Kept, Sure' => Sure, mode' # "replaying",
         checkpoint' = checkpoint, superblock'.generation = superblock.generation,
         UNCHANGED <<logged, promised>>
  PROVE  Kept'
<1> SUFFICES ASSUME Sure' PROVE \E h : Leads(h)'
  BY DEF Kept
<1>1. PICK h : Leads(h)
  BY DEF Kept
<1>2. Leads(h)'
  <2>1. h[0] = Restored(superblock.generation - 1)'
    BY <1>1, RestoredStays DEF Leads
  <2> QED
    BY <1>1, <2>1 DEF Leads, Apply
<1> QED
  BY <1>2

\* An empty log leads from what is restored to the same.
LEMMA KeptEmpty ==
  ASSUME Shape', logged' = <<>>, mode' # "replaying",
         Restored(superblock.generation - 1)' = promised'
  PROVE  Kept'
<1>1. Len(logged') = 0 /\ 0 .. 0 = {0} /\ 1 .. 0 = {} /\ promised' \in Graphs
  BY DEF Shape
<1>2. PICK h : h \in [0 .. 0 -> Graphs] /\ h[0] = promised'
  <2>1. LET h == [i \in 0 .. 0 |-> promised']
        IN  h \in [0 .. 0 -> Graphs] /\ h[0] = promised'
    BY <1>1
  <2> QED
    BY <2>1
<1>3. Leads(h)'
  <2>1. \A i \in 1 .. Len(logged') : h[i] = Apply(h[i - 1], logged'[i]).nodes
    BY <1>1
  <2> QED
    BY <1>1, <1>2, <2>1 DEF Leads
<1> QED
  BY <1>3 DEF Kept

-----------------------------------------------------------------------------
\* Every step keeps the invariant.
LEMMA ErasedIs == Erased \in Checkpoints
BY EmptyIsGood DEF Erased, Checkpoints

LEMMA InitHasInv ==
  ASSUME Init
  PROVE  Inv
<1>1. LP!Init
  BY DEF Init, Log!Init, LP!Init, Log!Blocks, LP!Blocks, Log!NoReader, LP!NoReader
<1>2. LP!Inv
  BY <1>1, Sizes, LP!InitHasInv
<1>3. /\ checkpoint = Erased /\ nodes = EmptyGraph /\ promised = EmptyGraph
      /\ mode = "off" /\ doubt = FALSE
  BY DEF Init
<1>4. superblock.generation = 0 /\ ~intact
  BY <1>1 DEF LP!Init
<1>5. Shape
  BY <1>3, EmptyIsGood, ErasedIs DEF Shape, Modes
<1>6. Held /\ Matched
  BY <1>3, <1>4 DEF Held, Matched, Erased, Serving
<1>7. Sound /\ Kept
  BY <1>3, <1>4, EmptyIsGood DEF Sound, Kept, Sure, Erased
<1> QED
  BY <1>2, <1>5, <1>6, <1>7 DEF Inv

\* Nothing but the log changes, and of that not what was logged.
LEMMA QuietKeeps ==
  ASSUME Inv, LP!Inv', mode = "serving",
         superblock'.generation = superblock.generation,
         superblock'.valid = superblock.valid,
         InRange' => InRange,
         UNCHANGED <<nodes, promised, mode, checkpoint, doubt, logged, intact>>
  PROVE  Inv'
<1>1. Shape' /\ Held' /\ Matched' /\ Sound'
  BY DEF Inv, Shape, Held, Matched, Sound
<1>2. Kept'
  BY KeptStays DEF Inv, Sure, InRange
<1> QED
  BY <1>1, <1>2 DEF Inv

\* A log block that is written past the log's range takes the checkpoint away,
\* and leaves it as it was otherwise.
LEMMA LogBlockLeaves ==
  ASSUME Inv, LogBlockWritten
  PROVE  /\ checkpoint' \in Checkpoints
         /\ checkpoint'.data = checkpoint.data /\ checkpoint'.whole = checkpoint.whole
         /\ checkpoint'.version \in {checkpoint.version, BlockMagic}
         /\ InRange => checkpoint' = checkpoint
         /\ superblock.generation # BlockMagic
<1>1. checkpoint \in Checkpoints
  BY DEF Inv, Shape
<1>2. superblock \in [valid : BOOLEAN, generation : 0 .. MaxGeneration,
                      size : 0 .. DeviceBlocks]
  BY LogIs DEF Inv, LogFacts
<1>3. BlockMagic \in Int /\ superblock.generation # BlockMagic
  BY <1>2, DeviceSizes DEF BlockMagic
<1>4. InRange => checkpoint' = checkpoint
  BY <1>2, DeviceSizes DEF InRange, LogBlockWritten
<1>5. \/ checkpoint' = checkpoint
      \/ checkpoint' = [checkpoint EXCEPT !.version = BlockMagic]
  BY DEF LogBlockWritten
<1> QED
  BY <1>1, <1>3, <1>4, <1>5 DEF Checkpoints

LEMMA PerformKeeps ==
  ASSUME Inv, LP!Inv', NEW e \in Entry, mode = "serving", Perform(e),
         logged' = Append(logged, e), LogBlockWritten,
         UNCHANGED <<superblock, intact, reader, doubt>>
  PROVE  Inv'
<1> DEFINE r == Apply(nodes, e)
           n == Len(logged)
<1>1. /\ nodes' = r.nodes /\ promised' = r.nodes
      /\ mode' \in {"serving", "exited"} /\ (mode' = "exited" <=> r.status = "EXIT")
  BY DEF Perform
<1>2. Shape /\ Held /\ Matched /\ Sound /\ Kept /\ e \in Entry \cup {ZeroEntry}
  BY DEF Inv
<1>3. nodes = promised
  BY <1>2 DEF Held, Serving
<1>4. r.nodes \in Graphs
  BY <1>2, ApplyStaysAGraph DEF Shape
<1>5. ~doubt => Good(r.nodes) /\ r.status # "EXIT"
  BY <1>2, ApplyKeeps DEF Shape, Sound
<1> HIDE DEF r
<1>6. Shape' /\ Held' /\ Matched'
  BY <1>1, <1>2, <1>4, LogBlockLeaves DEF Shape, Held, Matched, Modes, Serving
<1>7. Sound'
  BY <1>1, <1>2, <1>5, LogBlockLeaves DEF Sound
<1>8. Kept'
  <2> SUFFICES ASSUME Sure' PROVE \E h : Leads(h)'
    BY <1>1 DEF Kept
  <2> InRange /\ checkpoint' = checkpoint
    BY LogBlockLeaves DEF Sure, InRange
  <2>1. PICK h : Leads(h)
    BY <1>2 DEF Kept, Sure
  <2>2. /\ n \in Nat /\ Len(logged') = n + 1 /\ logged'[n + 1] = e
        /\ \A i \in 1 .. n : logged'[i] = logged[i]
    BY LogIs DEF LogFacts, Inv
  <2>3. PICK f : /\ f \in [0 .. n + 1 -> Graphs] /\ f[n + 1] = promised'
                 /\ \A i \in 0 .. n : f[i] = h[i]
    <3>1. LET f == [i \in 0 .. n + 1 |-> IF i = n + 1 THEN promised' ELSE h[i]]
          IN  /\ f \in [0 .. n + 1 -> Graphs] /\ f[n + 1] = promised'
              /\ \A i \in 0 .. n : f[i] = h[i]
      <4> HIDE DEF n
      <4>1. h \in [0 .. n -> Graphs] /\ promised' \in Graphs
        BY <1>1, <1>4, <2>1 DEF Leads, n
      <4> QED
        BY <2>2, <4>1
    <3> QED
      BY <3>1
  <2>4. f[0] = Restored(superblock.generation - 1)'
    BY <2>1, <2>2, <2>3, RestoredStays DEF Leads
  <2>5. f[n + 1] = Apply(f[n], e).nodes
    <3>1. f[n] = promised
      BY <2>1, <2>2, <2>3 DEF Leads
    <3> QED
      BY <1>1, <1>3, <2>3, <3>1 DEF r
  <2>6. ASSUME NEW i \in 1 .. n + 1
        PROVE  f[i] = Apply(f[i - 1], logged'[i]).nodes
    <3>1. CASE i = n + 1
      <4>1. i - 1 = n
        BY <2>2, <3>1
      <4> QED
        BY <2>2, <2>5, <3>1, <4>1
    <3>2. CASE i \in 1 .. n
      <4>1. i \in 0 .. n /\ i - 1 \in 0 .. n
        BY <2>2, <3>2
      <4>2. h[i] = Apply(h[i - 1], logged[i]).nodes
        BY <2>1, <3>2 DEF Leads
      <4> QED
        BY <2>2, <2>3, <3>2, <4>1, <4>2
    <3> QED
      BY <2>2, <3>1, <3>2
  <2>7. Leads(f)'
    <3> HIDE DEF n
    <3>1. \A i \in 1 .. Len(logged') : f[i] = Apply(f[i - 1], logged'[i]).nodes
      BY <2>2, <2>6
    <3>2. f \in [0 .. Len(logged') -> Graphs] /\ f[Len(logged')] = promised'
      BY <2>2, <2>3
    <3> QED
      BY <2>4, <3>1, <3>2 DEF Leads
  <2> QED
    BY <2>7
<1> QED
  BY <1>6, <1>7, <1>8 DEF Inv

LEMMA CallKeeps ==
  ASSUME Inv, NEW e \in Entry, Call(e)
  PROVE  Inv'
<1>1. mode = "serving" /\ UNCHANGED doubt
  BY DEF Call
<1>2. CASE Log!AppendEntry(e) /\ LogBlockWritten /\ Perform(e)
  <2>1. LP!Inv'
    BY <1>2, LogStepKeeps DEF Inv, Log!Next, Log!logOperation
  <2>2. logged' = Append(logged, e) /\ UNCHANGED <<superblock, intact, reader>>
    BY <1>2 DEF Log!AppendEntry
  <2> QED
    BY <1>1, <1>2, <2>1, <2>2, PerformKeeps
<1>3. CASE /\ Log!Extend(e) \/ Log!Refuse
           /\ UNCHANGED <<checkpoint, nodes, promised, mode>>
  <2>1. LP!Inv'
    BY <1>3, LogStepKeeps DEF Inv, Log!Next, Log!logOperation
  <2>2. /\ superblock'.generation = superblock.generation
        /\ superblock'.valid = superblock.valid
        /\ InRange' => InRange
        /\ UNCHANGED <<logged, intact>>
    <3>1. CASE Log!Extend(e)
      <4>1. superblock' = [superblock EXCEPT !.size = @ + 1] /\ UNCHANGED <<logged, intact>>
        BY <3>1 DEF Log!Extend
      <4>2. superblock \in [valid : BOOLEAN, generation : 0 .. MaxGeneration,
                            size : 0 .. DeviceBlocks]
        BY LogIs DEF Inv, LogFacts
      <4> QED
        BY <4>1, <4>2, DeviceSizes DEF InRange
    <3>2. CASE Log!Refuse
      BY <3>2 DEF Log!Refuse, Log!vars, InRange
    <3> QED
      BY <1>3, <3>1, <3>2
  <2> QED
    BY <1>1, <1>3, <2>1, <2>2, QuietKeeps
<1> QED
  BY <1>2, <1>3 DEF Call

LEMMA FinishCallKeeps ==
  ASSUME Inv, FinishCall
  PROVE  Inv'
<1>1. /\ mode = "serving" /\ Log!WriteNewBlock /\ LogBlockWritten
      /\ Perform(pending) /\ UNCHANGED doubt
  BY DEF FinishCall
<1>2. LP!Inv'
  BY <1>1, LogStepKeeps DEF Inv, Log!Next
<1>3. /\ phase = "extending" /\ logged' = Append(logged, pending)
      /\ UNCHANGED <<superblock, intact, reader>>
  BY <1>1 DEF Log!WriteNewBlock
<1>4. pending \in Entry
  BY <1>3, LogIs DEF Inv, LogFacts
<1> QED
  BY <1>1, <1>2, <1>3, <1>4, PerformKeeps

-----------------------------------------------------------------------------
\* checkpoint().
LEMMA BeginCheckpointKeeps ==
  ASSUME Inv, BeginCheckpoint
  PROVE  Inv'
<1>1. /\ mode = "serving" /\ mode' = "header" /\ Remote = {}
      /\ UNCHANGED <<logVars, nodes, promised, doubt>>
      /\ checkpoint' = [version |-> superblock.generation, checkpointed |-> FALSE,
                        whole |-> nodes = EmptyGraph, data |-> EmptyGraph]
  BY DEF BeginCheckpoint, WriteHeader
<1>2. LP!Inv'
  <2>1. UNCHANGED LP!vars
    BY <1>1 DEF logVars, LP!vars
  <2> QED
    BY <2>1, Sizes, LP!StepKeepsInv DEF Inv
<1>3. /\ superblock' = superblock /\ superblock.generation \in Nat
      /\ logged' = logged /\ intact' = intact
  BY <1>1, LogIs DEF Inv, LogFacts, logVars
<1>4. checkpoint' \in Checkpoints
  BY <1>1, <1>3, EmptyIsGood DEF Checkpoints
<1>5. Shape' /\ Held'
  BY <1>1, <1>4 DEF Inv, Shape, Held, Modes, Serving
<1>6. Matched'
  BY <1>1, <1>3 DEF Inv, Matched
<1>7. Sound'
  BY <1>1, <1>3, EmptyIsGood DEF Inv, Sound
<1>8. Kept'
  BY <1>1, <1>3 DEF Kept, Sure
<1> QED
  BY <1>2, <1>5, <1>6, <1>7, <1>8 DEF Inv

\* The checkpoint is written, and is still that of the running generation.
LEMMA CheckpointStepKeeps ==
  ASSUME Inv, mode \in {"header", "data", "closed"}, LP!Inv',
         UNCHANGED <<superblock, intact, nodes, promised, doubt>>,
         \/ UNCHANGED checkpoint /\ mode' = "serving"
         \/ /\ mode' \in {"data", "closed"}
            /\ \E b \in BOOLEAN :
                 checkpoint' = [version |-> checkpoint.version, checkpointed |-> b,
                                whole |-> TRUE, data |-> nodes]
  PROVE  Inv'
<1>1. Shape /\ Held /\ Matched /\ Sound
  BY DEF Inv
<1>2. /\ checkpoint'.version = checkpoint.version
      /\ checkpoint.version = superblock.generation /\ Remote = {}
      /\ mode' \in {"serving", "data", "closed"}
  BY <1>1 DEF Matched
<1>3. checkpoint' \in Checkpoints
  <2>1. checkpoint.version \in Int /\ nodes \in Graphs
    BY <1>1 DEF Shape, Checkpoints
  <2>2. \A b \in BOOLEAN : [version |-> checkpoint.version, checkpointed |-> b,
                            whole |-> TRUE, data |-> nodes] \in Checkpoints
    BY <2>1 DEF Checkpoints
  <2> QED
    BY <1>1, <2>2 DEF Shape
<1>4. /\ mode' \in {"data", "closed"} => checkpoint'.whole /\ checkpoint'.data = nodes
      /\ checkpoint'.data \in {nodes, checkpoint.data}
  OBVIOUS
<1>5. Shape' /\ Held' /\ Matched'
  BY <1>1, <1>2, <1>3, <1>4 DEF Shape, Held, Matched, Modes, Serving
<1>6. Sound' /\ Kept'
  BY <1>1, <1>2, <1>4 DEF Sound, Kept, Sure
<1> QED
  BY <1>5, <1>6 DEF Inv

LEMMA WriteCheckpointKeeps ==
  ASSUME Inv, WriteCheckpoint \/ CloseCheckpoint
  PROVE  Inv'
<1>1. UNCHANGED <<superblock, intact, nodes, promised, doubt>> /\ UNCHANGED logVars
  BY DEF WriteCheckpoint, CloseCheckpoint, logVars
<1>2. LP!Inv'
  <2>1. UNCHANGED LP!vars
    BY <1>1 DEF logVars, LP!vars
  <2> QED
    BY <2>1, Sizes, LP!StepKeepsInv DEF Inv
<1>3. /\ checkpoint = [version |-> checkpoint.version,
                       checkpointed |-> checkpoint.checkpointed,
                       whole |-> checkpoint.whole, data |-> checkpoint.data]
      /\ checkpoint.checkpointed \in BOOLEAN
  BY DEF Inv, Shape, Checkpoints
<1>4. mode \in {"data", "closed"} => checkpoint.whole = TRUE /\ checkpoint.data = nodes
  BY DEF Inv, Matched, Shape, Checkpoints
<1>5. CASE mode = "header" /\ OutOfSpace(nodes) /\ mode' = "serving"
  BY <1>1, <1>2, <1>5, CheckpointStepKeeps DEF OutOfSpace
<1>6. CASE mode = "header" /\ WriteNodes(nodes) /\ mode' = "data"
  <2>1. checkpoint' = [version |-> checkpoint.version,
                       checkpointed |-> checkpoint.checkpointed,
                       whole |-> TRUE, data |-> nodes]
    BY <1>3, <1>6 DEF WriteNodes
  <2> QED
    BY <1>1, <1>2, <1>3, <1>6, <2>1, CheckpointStepKeeps
<1>7. CASE CloseCheckpoint
  <2>1. mode = "data" /\ mode' = "closed"
    BY <1>7 DEF CloseCheckpoint
  <2>2. checkpoint' = [version |-> checkpoint.version, checkpointed |-> TRUE,
                       whole |-> TRUE, data |-> nodes]
    BY <1>3, <1>4, <1>7, <2>1 DEF CloseCheckpoint, WriteCheckpointed
  <2> QED
    BY <1>1, <1>2, <2>1, <2>2, CheckpointStepKeeps
<1> QED
  BY <1>5, <1>6, <1>7 DEF WriteCheckpoint

LEMMA RenewLogKeeps ==
  ASSUME Inv, RenewLog
  PROVE  Inv'
<1>1. /\ mode = "closed" /\ mode' = "renewing" /\ Log!increaseGeneration
      /\ UNCHANGED <<checkpoint, nodes, promised, doubt>>
  BY DEF RenewLog
<1>2. LP!Inv'
  BY <1>1, LogStepKeeps DEF Inv, Log!Next
<1>3. /\ superblock'.generation = superblock.generation + 1 /\ superblock'.valid
      /\ intact' = FALSE /\ phase' = "beginning"
  BY <1>1 DEF Log!increaseGeneration, Log!BeginGeneration
<1>4. superblock.generation \in Nat
  BY LogIs DEF Inv, LogFacts
<1>5. Shape' /\ Held'
  BY <1>1, <1>3 DEF Inv, Shape, Held, Modes, Serving
<1>6. Matched'
  BY <1>1, <1>3, <1>4 DEF Inv, Matched
<1>7. Sound'
  BY <1>1, <1>3 DEF Inv, Sound, Matched
<1>8. Kept'
  BY <1>3 DEF Kept, Sure
<1> QED
  BY <1>2, <1>5, <1>6, <1>7, <1>8 DEF Inv

LEMMA FinishCheckpointKeeps ==
  ASSUME Inv, FinishCheckpoint
  PROVE  Inv'
<1>1. /\ mode = "renewing" /\ mode' = "serving" /\ Log!EmptyFirstBlock
      /\ UNCHANGED <<checkpoint, nodes, promised, doubt>>
  BY DEF FinishCheckpoint
<1>2. LP!Inv'
  BY <1>1, LogStepKeeps DEF Inv, Log!Next
<1>3. phase = "beginning" /\ UNCHANGED <<superblock, logged>>
  BY <1>1 DEF Log!EmptyFirstBlock
<1>4. logged = <<>> /\ superblock.generation \in Nat
  BY <1>3, LogIs DEF Inv, LogFacts
<1>5. /\ checkpoint.version = superblock.generation - 1 /\ Remote = {}
      /\ checkpoint.whole /\ checkpoint.data = nodes /\ nodes = promised
      /\ nodes \in Graphs
  BY <1>1 DEF Inv, Matched, Held, Serving, Shape
<1>6. Shape' /\ Held' /\ Matched'
  BY <1>1, <1>3, <1>5 DEF Inv, Shape, Held, Matched, Modes, Serving
<1>7. Sound'
  BY <1>1, <1>3, <1>5 DEF Inv, Sound
<1>8. Kept'
  <2>1. CASE doubt
    BY <1>1, <2>1 DEF Kept, Sure
  <2>2. CASE ~doubt
    <3>1. Good(nodes)
      BY <1>1, <2>2 DEF Inv, Sound
    <3>2. Restored(superblock.generation - 1) = nodes
      BY <1>5, <3>1, RebuiltIs DEF Restored, Matches
    <3>3. Restored(superblock.generation - 1)' = promised'
      BY <1>1, <1>3, <1>5, <3>2, RestoredStays
    <3> QED
      BY <1>1, <1>3, <1>4, <1>6, <3>3, KeptEmpty
  <2> QED
    BY <2>1, <2>2
<1> QED
  BY <1>2, <1>6, <1>7, <1>8 DEF Inv

-----------------------------------------------------------------------------
\* The constructor with formatLog.
LEMMA FormatKeeps ==
  ASSUME Inv, Format
  PROVE  Inv'
<1>1. /\ mode = "off" /\ mode' = "formatting" /\ promised' = EmptyGraph
      /\ doubt' = FALSE /\ Log!format /\ UNCHANGED <<checkpoint, nodes>>
  BY DEF Format
<1>2. LP!Inv'
  BY <1>1, LogStepKeeps DEF Inv, Log!Next
<1>3. /\ superblock'.valid /\ phase' # "open"
      /\ \/ superblock'.generation = superblock.generation + 1
         \/ superblock'.generation = 0 /\ ~superblock.valid
  BY <1>1 DEF Log!format, Log!BeginGeneration
<1>4. superblock.generation \in Nat
  BY LogIs DEF Inv, LogFacts
<1>5. Shape' /\ Held'
  BY <1>1, <1>3, EmptyIsGood DEF Inv, Shape, Held, Modes, Serving
<1>6. Matched'
  <2>1. checkpoint.version \in 0 .. superblock'.generation \cup {BlockMagic}
    BY <1>3, <1>4 DEF Inv, Matched
  <2> QED
    BY <1>1, <1>3, <2>1 DEF Inv, Matched
<1>7. Sound' /\ Kept'
  BY <1>1 DEF Sound, Kept, Sure
<1> QED
  BY <1>2, <1>5, <1>6, <1>7 DEF Inv

LEMMA FormatLogKeeps ==
  ASSUME Inv, FormatLog
  PROVE  Inv'
<1>1. /\ mode = "formatting" /\ (Log!FormatGeneration \/ Log!EmptyFirstBlock)
      /\ UNCHANGED <<checkpoint, nodes, mode, promised, doubt>>
  BY DEF FormatLog
<1>2. LP!Inv'
  BY <1>1, LogStepKeeps DEF Inv, Log!Next
<1>3. superblock.generation \in Nat /\ (phase = "beginning" => logged = <<>>)
  BY LogIs DEF Inv, LogFacts
<1>4. /\ logged' = <<>>
      /\ \/ superblock'.generation = superblock.generation + 1 /\ superblock'.valid
         \/ superblock' = superblock
  BY <1>1, <1>3 DEF Log!FormatGeneration, Log!EmptyFirstBlock, Log!BeginGeneration
<1>5. Shape' /\ Held'
  BY <1>1, <1>4 DEF Inv, Shape, Held, Serving
<1>6. Matched'
  <2>1. checkpoint.version \in 0 .. superblock'.generation \cup {BlockMagic}
    BY <1>3, <1>4 DEF Inv, Matched
  <2> QED
    BY <1>1, <1>4, <2>1 DEF Inv, Matched
<1>7. Sound' /\ Kept'
  BY <1>1 DEF Sound, Kept, Sure
<1> QED
  BY <1>2, <1>5, <1>6, <1>7 DEF Inv

LEMMA FormatCheckpointKeeps ==
  ASSUME Inv, FormatCheckpoint
  PROVE  Inv'
<1>1. /\ mode = "formatting" /\ phase = "open" /\ mode' = "serving"
      /\ checkpoint' = Erased /\ UNCHANGED <<logVars, nodes, promised, doubt>>
  BY DEF FormatCheckpoint, formatCheckpoint
<1>2. LP!Inv'
  <2>1. UNCHANGED LP!vars
    BY <1>1 DEF logVars, LP!vars
  <2> QED
    BY <2>1, Sizes, LP!StepKeepsInv DEF Inv
<1>3. /\ superblock' = superblock /\ logged' = logged /\ intact' = intact
      /\ superblock.generation \in Nat
  BY <1>1, LogIs DEF Inv, LogFacts, logVars
<1>4. nodes = EmptyGraph /\ promised = EmptyGraph /\ logged = <<>>
  BY <1>1 DEF Inv, Held
<1>5. /\ checkpoint'.version = 0 /\ checkpoint'.whole
      /\ checkpoint'.data = EmptyGraph /\ checkpoint' \in Checkpoints
  BY <1>1, ErasedIs DEF Erased
<1>6. Shape' /\ Held' /\ Matched'
  BY <1>1, <1>3, <1>4, <1>5 DEF Inv, Shape, Held, Matched, Modes, Serving
<1>7. Sound'
  BY <1>1, <1>4, <1>5, EmptyIsGood DEF Sound
<1>8. Kept'
  <2>1. Rebuilt(EmptyGraph) = EmptyGraph
    BY EmptyIsGood, RebuiltIs
  <2>2. Restored(superblock.generation - 1)' = promised'
    BY <1>1, <1>4, <1>5, <2>1 DEF Restored
  <2> QED
    BY <1>1, <1>3, <1>4, <1>6, <2>2, KeptEmpty
<1> QED
  BY <1>2, <1>6, <1>7, <1>8 DEF Inv

-----------------------------------------------------------------------------
\* Recovery.
LEMMA StartKeeps ==
  ASSUME Inv, Start
  PROVE  Inv'
<1>1. /\ mode = "off" /\ Log!init
      /\ mode' \in {"exited", "overrun", "restoring"}
      /\ mode' = "exited" => phase' = "exited" \/ ~InRange
      /\ UNCHANGED <<checkpoint, nodes, promised, doubt>>
  <2>1. phase' = "open" \/ phase' = "exited"
    BY DEF Start, Log!init
  <2> QED
    BY <2>1 DEF Start, Overwritten
<1>2. LP!Inv'
  BY <1>1, LogStepKeeps DEF Inv, Log!Next
<1>3. UNCHANGED <<superblock, logged, intact>> /\ phase' \in {"open", "exited"}
  BY <1>1 DEF Log!init, Log!disk
<1>4. mode' = "exited" => ~intact' \/ ~InRange'
  BY <1>1, <1>2, <1>3, LogWillBe DEF LogFacts, InRange
<1>5. Shape' /\ Held' /\ Matched'
  BY <1>1, <1>3 DEF Inv, Shape, Held, Matched, Modes, Serving
<1>6. Sound'
  BY <1>1, <1>3, <1>4 DEF Inv, Sound
<1>7. Kept'
  BY <1>1, <1>3, KeptStays DEF Inv, Sure, InRange
<1> QED
  BY <1>2, <1>5, <1>6, <1>7 DEF Inv

\* What is restored is a graph, and well formed unless there is doubt.
LEMMA RestoredIs ==
  ASSUME Inv, mode # "formatting", NEW g
  PROVE  Restored(g) \in Graphs /\ (~doubt => Good(Restored(g)))
<1>1. checkpoint.data \in Graphs /\ (Remote # {} => checkpoint.data = EmptyGraph)
  BY DEF Inv, Shape, Checkpoints, Matched
<1>2. ~doubt => Good(checkpoint.data)
  BY DEF Inv, Sound
<1> QED
  BY <1>1, <1>2, RebuiltIs, EmptyIsGood DEF Restored

LEMMA RestoreKeeps ==
  ASSUME Inv, Restore
  PROVE  Inv'
<1> DEFINE g == superblock.generation - 1
<1>1. mode = "restoring" /\ UNCHANGED <<checkpoint, promised, doubt>>
  BY DEF Restore
<1>2. superblock.generation \in 0 .. MaxGeneration
  BY LogIs DEF Inv, LogFacts
<1>3. CASE /\ Matches(g) /\ ~checkpoint.whole /\ mode' = "garbled"
           /\ UNCHANGED <<logVars, nodes>>
  <2>1. UNCHANGED LP!vars
    BY <1>3 DEF logVars, LP!vars
  <2>2. LP!Inv'
    BY <2>1, Sizes, LP!StepKeepsInv DEF Inv
  <2>3. UNCHANGED <<superblock, logged, intact>>
    BY <1>3 DEF logVars
  <2>4. checkpoint.version \notin {superblock.generation, BlockMagic}
    BY <1>2, <1>3, DeviceSizes DEF Matches, BlockMagic
  <2>5. doubt
    BY <1>1, <1>3, <2>4 DEF Inv, Sound
  <2>6. Shape' /\ Held' /\ Matched'
    BY <1>1, <1>3, <2>3 DEF Inv, Shape, Held, Matched, Modes, Serving
  <2>7. Sound' /\ Kept'
    BY <1>1, <1>3, <2>5 DEF Sound, Kept, Sure
  <2> QED
    BY <2>2, <2>6, <2>7 DEF Inv
<1>4. CASE /\ nodes' = Restored(g) /\ Log!readLog
           /\ mode' = IF phase' = "reading" THEN "replaying" ELSE "exited"
  <2>1. LP!Inv'
    BY <1>4, LogStepKeeps DEF Inv, Log!Next
  <2>2. /\ UNCHANGED <<superblock, logged, intact>> /\ phase' \in {"reading", "exited"}
        /\ phase' = "reading" => reader'.got = <<>>
    BY <1>4 DEF Log!readLog, Log!disk, Log!NoReader
  <2>3. mode' = "exited" => ~intact'
    BY <1>4, <2>1, <2>2, LogWillBe DEF LogFacts
  <2>4. Restored(g) \in Graphs /\ (~doubt => Good(Restored(g)))
    BY <1>1, RestoredIs
  <2>5. Shape' /\ Held' /\ Matched'
    BY <1>1, <1>4, <2>2, <2>4 DEF Inv, Shape, Held, Matched, Modes, Serving
  <2>6. Sound'
    BY <1>1, <1>4, <2>2, <2>3, <2>4 DEF Inv, Sound
  <2>7. Kept'
    <3> SUFFICES ASSUME Sure'
                 PROVE  \E h : /\ Leads(h)'
                               /\ mode' = "replaying" => nodes' = h[Len(reader'.got)]
      BY DEF Kept
    <3>1. PICK h : Leads(h)
      BY <1>1, <2>2 DEF Inv, Kept, Sure, InRange
    <3>2. h[0] = Restored(g)' /\ h[0] = nodes'
      BY <1>1, <1>4, <2>2, <3>1, RestoredStays DEF Leads
    <3>3. Leads(h)'
      BY <1>1, <2>2, <3>1, <3>2 DEF Leads, Apply
    <3>4. mode' = "replaying" => Len(reader'.got) = 0
      BY <1>4, <2>2
    <3> QED
      BY <3>2, <3>3, <3>4
  <2> QED
    BY <2>1, <2>5, <2>6, <2>7 DEF Inv
<1> QED
  BY <1>3, <1>4 DEF Restore

LEMMA ReplayNextKeeps ==
  ASSUME Inv, ReplayNext
  PROVE  Inv'
<1> DEFINE e == Log!NextEntry
           r == Replay(nodes, e)
           n == Len(reader.got)
<1>1. /\ mode = "replaying" /\ Log!getNext /\ UNCHANGED <<checkpoint, promised>>
  BY DEF ReplayNext
<1>2. LP!Inv'
  BY <1>1, LogStepKeeps DEF Inv, Log!Next
<1>3. UNCHANGED <<superblock, logged, intact>> /\ phase = "reading"
  BY <1>1 DEF Log!getNext, Log!disk
<1>4. LogFacts /\ LogFacts'
  BY <1>2, LogIs, LogWillBe DEF Inv
<1>5. CASE phase' = "exited"
  <2>1. mode' = "exited" /\ UNCHANGED <<nodes, doubt>>
    BY <1>5 DEF ReplayNext
  <2>2. ~intact'
    BY <1>4, <1>5 DEF LogFacts
  <2>3. Shape' /\ Held' /\ Matched'
    BY <1>1, <1>3, <2>1 DEF Inv, Shape, Held, Matched, Modes, Serving
  <2>4. Sound' /\ Kept'
    BY <1>1, <1>3, <2>1, <2>2 DEF Inv, Sound, Kept, Sure
  <2> QED
    BY <1>2, <2>3, <2>4 DEF Inv
<1>6. CASE phase' # "exited"
  <2>1. /\ nodes' = r.nodes /\ (mode' = IF r.status = "EXIT" THEN "exited" ELSE mode)
        /\ doubt' = (doubt \/ e.op = "REMOVE_EDGE")
    BY <1>6 DEF ReplayNext
  <2>2. reader'.got = Append(reader.got, e) /\ phase' = "reading"
    BY <1>1, <1>3, <1>6 DEF Log!getNext
  <2>3. /\ n \in Nat /\ Len(reader'.got) = n + 1 /\ reader'.got[n + 1] = e
        /\ e \in Entry \cup {ZeroEntry}
    <3> HIDE DEF e
    <3>1. /\ n \in Nat /\ Len(reader'.got) = n + 1 /\ reader'.got[n + 1] = e
      BY <1>4, <2>2 DEF LogFacts
    <3>2. n + 1 \in 1 .. Len(reader'.got) /\ reader'.got \in Seq(Entry \cup {ZeroEntry})
      BY <1>4, <3>1 DEF LogFacts
    <3>3. reader'.got[n + 1] \in Entry \cup {ZeroEntry}
      BY <3>2
    <3> QED
      BY <3>1, <3>3
  <2>4. Shape /\ Held /\ Matched /\ Sound /\ Kept
    BY DEF Inv
  <2>5. r.nodes \in Graphs
    BY <2>3, <2>4, ReplayStaysAGraph DEF Shape
  <2>6. ~doubt' => /\ ~doubt /\ r = Apply(nodes, e)
                   /\ Good(r.nodes) /\ r.status # "EXIT"
    <3>1. e.op # "REMOVE_EDGE" => r = Apply(nodes, e)
      BY DEF Replay
    <3> QED
      BY <1>1, <2>1, <2>3, <2>4, <3>1, ApplyKeeps DEF Shape, Sound
  <2>7. mode' \in {"replaying", "exited"} /\ (mode' = "exited" => doubt')
    BY <1>1, <2>1, <2>6
  <2>8. doubt' \in BOOLEAN
    BY <2>1, <2>4 DEF Shape
  <2> HIDE DEF r
  <2>9. Shape' /\ Held' /\ Matched'
    BY <1>1, <1>3, <2>1, <2>4, <2>5, <2>7, <2>8 DEF Shape, Held, Matched, Modes, Serving
  <2>10. Sound'
    BY <1>1, <1>3, <2>1, <2>4, <2>6, <2>7 DEF Sound
  <2>11. Kept'
    <3> SUFFICES ASSUME Sure'
                 PROVE  \E h : /\ Leads(h)'
                               /\ mode' = "replaying" => nodes' = h[Len(reader'.got)]
      BY DEF Kept
    <3>1. Sure
      BY <1>1, <1>3, <2>6 DEF Sure, InRange
    <3>2. PICK h : Leads(h) /\ nodes = h[n]
      BY <1>1, <2>4, <3>1 DEF Kept
    <3>3. Leads(h)'
      <4>1. h[0] = Restored(superblock.generation - 1)'
        BY <1>1, <1>3, <3>2, RestoredStays DEF Leads
      <4> QED
        BY <1>1, <1>3, <3>2, <4>1 DEF Leads, Apply
    <3>4. n + 1 \in 1 .. Len(logged) /\ logged[n + 1] = e
      <4>1. intact' /\ n + 1 \in 1 .. Len(reader'.got)
        BY <2>3 DEF Sure
      <4>2. n + 1 <= Len(logged') /\ reader'.got[n + 1] = logged'[n + 1]
        BY <1>4, <2>2, <4>1 DEF LogFacts
      <4>3. Len(logged) \in Nat
        BY <1>4 DEF LogFacts
      <4> QED
        BY <1>3, <2>3, <4>2, <4>3
    <3>5. h[n + 1] = Apply(h[n], e).nodes
      <4>1. (n + 1) - 1 = n
        BY <2>3
      <4> QED
        BY <3>2, <3>4, <4>1 DEF Leads
    <3>6. nodes' = h[n + 1]
      BY <2>1, <2>6, <3>2, <3>5 DEF Sure
    <3> QED
      BY <2>3, <3>3, <3>6
  <2> QED
    BY <1>2, <2>9, <2>10, <2>11 DEF Inv
<1> QED
  BY <1>5, <1>6

\* At the end of an intact log the graph is the one that was promised.
LEMMA RecoveredIs ==
  ASSUME Inv, mode = "replaying", phase = "reading", ~Log!hasNext, Sure
  PROVE  nodes = promised
<1>1. PICK h : Leads(h) /\ nodes = h[Len(reader.got)]
  BY DEF Inv, Kept
<1>2. LP!Done /\ LP!Inv /\ intact
  BY DEF LP!Done, LP!hasNext, Log!hasNext, Inv, Sure
<1>3. reader.got = logged
  BY <1>2, Sizes, LP!ReadsItAll
<1> QED
  BY <1>1, <1>3 DEF Leads

LEMMA FinishRecoveryKeeps ==
  ASSUME Inv, FinishRecovery
  PROVE  Inv'
<1>1. /\ mode = "replaying" /\ mode' = "serving" /\ Log!close
      /\ promised' = nodes /\ UNCHANGED <<checkpoint, nodes, doubt>>
  BY DEF FinishRecovery
<1>2. LP!Inv'
  BY <1>1, LogStepKeeps DEF Inv, Log!Next
<1>3. /\ phase = "reading" /\ ~Log!hasNext
      /\ UNCHANGED <<superblock, logged, intact>>
  BY <1>1 DEF Log!close, Log!disk
<1>4. Shape' /\ Held' /\ Matched'
  BY <1>1, <1>3 DEF Inv, Shape, Held, Matched, Modes, Serving
<1>5. Sound'
  BY <1>1, <1>3 DEF Inv, Sound
<1>6. Kept'
  <2>1. CASE ~Sure'
    BY <2>1 DEF Kept
  <2>2. CASE Sure'
    <3>1. Sure
      BY <1>1, <1>3, <2>2 DEF Sure, InRange
    <3>2. promised' = promised
      BY <1>1, <1>3, <3>1, RecoveredIs
    <3> QED
      BY <1>1, <1>3, <3>1, <3>2, KeptStays DEF Inv
  <2> QED
    BY <2>1, <2>2
<1> QED
  BY <1>2, <1>4, <1>5, <1>6 DEF Inv

LEMMA CrashKeeps ==
  ASSUME Inv, Crash
  PROVE  Inv'
<1>1. /\ Log!Crash /\ mode' = "off" /\ nodes' = EmptyGraph
      /\ doubt' = (doubt \/ mode = "formatting")
      /\ UNCHANGED <<checkpoint, promised>>
  BY DEF Crash
<1>2. LP!Inv'
  BY <1>1, LogStepKeeps DEF Inv, Log!Next
<1>3. UNCHANGED <<superblock, logged>> /\ (intact' => intact)
  BY <1>1 DEF Log!Crash, Log!disk
<1>4. doubt' \in BOOLEAN
  BY <1>1 DEF Inv, Shape
<1>5. Shape' /\ Held' /\ Matched'
  BY <1>1, <1>3, <1>4, EmptyIsGood DEF Inv, Shape, Held, Matched, Modes, Serving
<1>6. Sound'
  BY <1>1, <1>3, EmptyIsGood DEF Inv, Sound
<1>7. Kept'
  BY <1>1, <1>3, KeptStays DEF Inv, Sure, InRange
<1> QED
  BY <1>2, <1>5, <1>6, <1>7 DEF Inv

-----------------------------------------------------------------------------
LEMMA StepKeepsInv ==
  ASSUME Inv, [Next]_vars
  PROVE  Inv'
<1>1. CASE UNCHANGED vars
  <2>1. UNCHANGED LP!vars /\ UNCHANGED logVars
    BY <1>1 DEF vars, logVars, LP!vars
  <2>2. LP!Inv'
    BY <2>1, Sizes, LP!StepKeepsInv DEF Inv
  <2>3. UNCHANGED <<superblock, phase, reader, logged, intact, checkpoint, nodes,
                    mode, promised, doubt>>
    BY <1>1, <2>1 DEF vars, logVars
  <2>4. Shape' /\ Held' /\ Matched' /\ Sound'
    BY <2>3 DEF Inv, Shape, Held, Matched, Sound, InRange
  <2>5. Kept'
    <3> SUFFICES ASSUME Sure'
                 PROVE  \E h : /\ Leads(h)'
                               /\ mode' = "replaying" => nodes' = h[Len(reader'.got)]
      BY DEF Kept
    <3>1. PICK h : Leads(h) /\ (mode = "replaying" => nodes = h[Len(reader.got)])
      BY <2>3 DEF Inv, Kept, Sure, InRange
    <3>2. Leads(h)'
      <4>1. h[0] = Restored(superblock.generation - 1)'
        BY <2>3, <3>1, RestoredStays DEF Leads
      <4> QED
        BY <2>3, <3>1, <4>1 DEF Leads, Apply
    <3> QED
      BY <2>3, <3>1, <3>2
  <2> QED
    BY <2>2, <2>4, <2>5 DEF Inv
<1>2. CASE Next
  BY <1>2, CallKeeps, FinishCallKeeps, BeginCheckpointKeeps, WriteCheckpointKeeps,
     RenewLogKeeps, FinishCheckpointKeeps, FormatKeeps, FormatLogKeeps,
     FormatCheckpointKeeps, StartKeeps, RestoreKeeps, ReplayNextKeeps,
     FinishRecoveryKeeps, CrashKeeps
  DEF Next
<1> QED
  BY <1>1, <1>2

LEMMA InvAlways == Spec => []Inv
<1>1. Init => Inv
  BY InitHasInv
<1>2. Inv /\ [Next]_vars => Inv'
  BY StepKeepsInv
<1> QED
  BY <1>1, <1>2, PTL DEF Spec

-----------------------------------------------------------------------------
\* What is in memory and what was promised are graphs, and the checkpoint is
\* never of a generation that the log has not begun.
THEOREM TypeAlways == Spec => []TypeOK
<1>1. Inv => TypeOK
  BY GraphsAre DEF Inv, Shape, Matched, TypeOK, Here, Ids
<1> QED
  BY <1>1, InvAlways, PTL

\* On a device of any size, through any number of crashes, checkpoints and
\* generations, recovery of a log that is within its own range of blocks gives
\* back the graph of the operations that were logged, unless a crash fell
\* between two writes of one call, a format was cut short, a checkpoint was left
\* unfinished or a REMOVE_EDGE was replayed.  That a log past its range writes
\* over the checkpoint, in this generation or an earlier one, is part of the
\* steps it holds through: a finished checkpoint is whole again.
THEOREM DurableAlways == Spec => []Durable
<1>1. ASSUME Inv, Recovered, InRange, intact, ~doubt, ~CheckpointBegun
      PROVE  nodes = promised
  <2>1. mode = "replaying" /\ phase = "reading" /\ ~Log!hasNext
    BY <1>1 DEF Recovered, Log!Done
  <2>2. Sure
    BY <1>1, <2>1 DEF Sure, CheckpointBegun
  <2> QED
    BY <1>1, <2>1, <2>2, RecoveredIs
<1>2. Inv => Durable
  BY <1>1 DEF Durable
<1> QED
  BY <1>2, InvAlways, PTL

\* What is served after any crash is well formed: no half of an edge, and no
\* neighbour without a node.
THEOREM ServesAlways == Spec => []ServesAGraph
<1>1. Inv => ServesAGraph
  BY DEF Inv, Sound, Good, Here, ServesAGraph
<1> QED
  BY <1>1, InvAlways, PTL

\* No assertion of the log, the checkpoint or the MemoryStore ends the process
\* without a crash between two writes, a REMOVE_EDGE replayed or a log past its
\* range.
THEOREM StartsAlways == Spec => []StartsAgain
<1>1. Inv => StartsAgain
  BY DEF Inv, Sound, StartsAgain
<1> QED
  BY <1>1, InvAlways, PTL

\* A checkpoint that is restored is whole.
THEOREM RestoresAlways == Spec => []RestoresWhole
<1>1. Inv => RestoresWhole
  BY DEF Inv, Sound, RestoresWhole
<1> QED
  BY <1>1, InvAlways, PTL
-----------------------------------------------------------------------------
\* The store uses its log as LogManager's calls allow, and as nothing else:
\* what is proved of the log holds of the store's, where no checkpoint is written
\* over a log that has outgrown its range (mode "overrun").
LEMMA StepIsALogStep ==
  ASSUME [Next]_vars
  PROVE  [Log!Next]_(Log!vars)
<1>1. CASE UNCHANGED logVars
  BY <1>1 DEF logVars, Log!vars, Log!disk
<1>2. ASSUME NEW e \in Entry, Call(e)
      PROVE  Log!Next
  BY <1>2 DEF Call, Log!Next, Log!logOperation
<1>3. CASE FinishCall \/ RenewLog \/ FinishCheckpoint
  BY <1>3 DEF FinishCall, RenewLog, FinishCheckpoint, Log!Next
<1>4. CASE Format \/ FormatLog \/ Start
  BY <1>4 DEF Format, FormatLog, Start, Log!Next
<1>5. CASE Restore
  BY <1>1, <1>5 DEF Restore, Log!Next
<1>6. CASE ReplayNext \/ FinishRecovery \/ Crash
  BY <1>6 DEF ReplayNext, FinishRecovery, Crash, Log!Next
<1>7. CASE BeginCheckpoint \/ WriteCheckpoint \/ CloseCheckpoint \/ FormatCheckpoint
  BY <1>1, <1>7 DEF BeginCheckpoint, WriteCheckpoint, CloseCheckpoint, FormatCheckpoint
<1> QED
  BY <1>1, <1>2, <1>3, <1>4, <1>5, <1>6, <1>7 DEF Next, vars

THEOREM UsesLogManager == Spec => Log!Init /\ [][Log!Next]_(Log!vars)
<1>1. Init => Log!Init
  BY DEF Init
<1>2. [Next]_vars => [Log!Next]_(Log!vars)
  BY StepIsALogStep
<1> QED
  BY <1>1, <1>2, PTL DEF Spec

\* A recovery that comes to the end of the log has replayed every operation
\* that was logged in this generation, in order, whatever crashes fell between
\* two writes of a call, and whatever else it has replayed.  A log with the
\* checkpoint written over one of its blocks is not replayed here at all (mode
\* "overrun"), and nothing is said of it.
THEOREM ReplaysAllAlways == Spec => []Log!NothingWrittenIsLost
<1>1. Init => LP!LogKept
  <2>1. Init => LP!Init
    BY DEF Init, Log!Init, LP!Init, Log!NoReader, LP!NoReader, Log!Blocks, LP!Blocks
  <2> QED
    BY <2>1, Sizes, LP!InitKeepsLog
<1>2. LP!LogKept /\ [Next]_vars => LP!LogKept'
  <2>1. [Next]_vars => [LP!Next]_(LP!vars)
    BY StepIsALogStep, LogStepIs DEF Log!vars, LP!vars, Log!disk, LP!disk
  <2> QED
    BY <2>1, Sizes, LP!StepKeepsLog
<1>3. LP!LogKept => Log!NothingWrittenIsLost
  <2>1. LP!LogKept /\ LP!Done => LP!IsSubsequence(logged, reader.got)
    BY Sizes, LP!LosesNothing
  <2>2. Log!Done => LP!Done
    BY DEF Log!Done, LP!Done, Log!hasNext, LP!hasNext
  <2> QED
    BY <2>1, <2>2 DEF Log!NothingWrittenIsLost, Log!IsSubsequence, LP!IsSubsequence
<1> QED
  BY <1>1, <1>2, <1>3, PTL DEF Spec
=============================================================================
