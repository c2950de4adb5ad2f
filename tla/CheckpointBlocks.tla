-------------------------- MODULE CheckpointBlocks --------------------------
(***************************************************************************)
(* The data blocks of a checkpoint: performCheckpoint's BlockWriter puts   *)
(* the graph into them word by word, restoreCheckpoint's BlockReader takes *)
(* it out again.  CheckpointManager says of all this only that a graph     *)
(* either fits in CheckpointWords words or does not, and that what is      *)
(* restored is the graph that was written; here that is shown.             *)
(*                                                                         *)
(* A word is a node id or a number of edges: nothing but its place says    *)
(* which.  The blocks still hold what an earlier checkpoint has left in    *)
(* them.  Crashes are LoggedStore's: a checkpoint is restored here only    *)
(* after it was written to the end.                                        *)
(***************************************************************************)
EXTENDS GraphData, FiniteSets, Naturals

CONSTANTS Id,          \* node ids, of 64 bits
          BlockWords,  \* words in a block
          Blocks       \* the data blocks are 1 .. Blocks

ASSUME BlocksAssumption ==
  /\ Id \subseteq Nat /\ IsFiniteSet(Id)
  /\ BlockWords \in Nat \ {0} /\ Blocks \in Nat \ {0}

VARIABLES
  graph,   \* the graph of the store that is checkpointed
  device,  \* device[b][i]: word i of block b
  phase,   \* what performCheckpoint or restoreCheckpoint is doing
  block,   \* _currentBlock of the writer, or of the reader
  place,   \* the words of that block that are written, or read
  buffer,  \* _current, the block itself
  nodes,   \* the nodes that are still to be written
  edges,   \* the edges of node that are still to be written
  node,    \* the node whose edges are written, or read
  store,   \* the graph that is being restored
  nodesRemaining,  \* how many nodes are still to be read
  edgeCounts       \* how many edges of node are still to be read

position == <<block, place, buffer>>
writer == <<nodes, edges>>
reader == <<store, nodesRemaining, edgeCounts>>
vars == <<graph, device, phase, position, node, writer, reader>>

Place == 1 .. BlockWords
Zeroed == [i \in Place |-> 0]

\* CheckpointManager's view: the checkpoint of generation 1 is whole once it is
\* written to the end.
Whole == phase \in {"written", "readNode", "readCount", "readEdge", "restored"}

C == INSTANCE CheckpointManager
       WITH CheckpointWords <- Blocks * BlockWords,
            checkpoint <- [version |-> 1, checkpointed |-> FALSE, whole |-> Whole,
                           data |-> IF Whole THEN graph ELSE EmptyGraph]

Graphs == {g \in UNION {[H -> SUBSET Id] : H \in SUBSET Id} : WellFormed(g, Id)}

Init ==
  /\ graph = EmptyGraph /\ store = EmptyGraph
  /\ device = [b \in 1 .. Blocks |-> Zeroed]
  /\ phase = "idle"
  /\ block = 0 /\ place = 0 /\ buffer = Zeroed
  /\ nodes = {} /\ edges = {} /\ node = 0
  /\ nodesRemaining = 0 /\ edgeCounts = 0

-----------------------------------------------------------------------------
\* performCheckpoint of the graph g, after its first superblock write.
performCheckpoint(g) ==
  /\ phase \in {"idle", "noSpace", "written", "restored"}
  /\ graph' = g
  /\ phase' = "node"
  /\ block' = 1 /\ place' = 0 /\ buffer' = Zeroed
  /\ nodes' = DOMAIN g /\ edges' = {}
  /\ UNCHANGED <<device, node, reader>>

\* A fault: the block after the last one is taken as well.
HasRoomPast == place < BlockWords \/ block <= Blocks

\* writeUint64 finds room, in this block or a next one.
HasRoom == place < BlockWords \/ block < Blocks

\* A fault: a full block is not written before the next one is begun.
PutOver(word) ==
  /\ HasRoom
  /\ IF place < BlockWords
     THEN /\ place' = place + 1 /\ buffer' = [buffer EXCEPT ![place + 1] = word]
          /\ UNCHANGED block
     ELSE /\ block' = block + 1 /\ place' = 1
          /\ buffer' = [Zeroed EXCEPT ![1] = word]
  /\ UNCHANGED device

\* writeUint64: a full block is written when the next word comes.
writeUint64(word) ==
  /\ HasRoom
  /\ IF place < BlockWords
     THEN /\ place' = place + 1 /\ buffer' = [buffer EXCEPT ![place + 1] = word]
          /\ UNCHANGED <<block, device>>
     ELSE /\ device' = [device EXCEPT ![block] = buffer]
          /\ block' = block + 1 /\ place' = 1
          /\ buffer' = [Zeroed EXCEPT ![1] = word]

\* The nodes come by their ids, the edges of each in any order.
WriteNode(n) ==
  /\ phase = "node" /\ \A m \in nodes : n <= m
  /\ writeUint64(n)
  /\ phase' = "count" /\ node' = n
  /\ nodes' = nodes \ {n}
  /\ UNCHANGED <<graph, edges, reader>>

WriteCount ==
  /\ phase = "count"
  /\ writeUint64(Cardinality(graph[node]))
  /\ phase' = IF graph[node] = {} THEN "node" ELSE "edge"
  /\ edges' = graph[node]
  /\ UNCHANGED <<graph, nodes, node, reader>>

WriteEdge(m) ==
  /\ phase = "edge" /\ m \in edges
  /\ writeUint64(m)
  /\ phase' = IF edges = {m} THEN "node" ELSE "edge"
  /\ edges' = edges \ {m}
  /\ UNCHANGED <<graph, nodes, node, reader>>

\* OutOfSpaceException at a word: the last block is not written.
NoSpace ==
  /\ phase \in {"count", "edge"} \/ (phase = "node" /\ nodes # {})
  /\ ~HasRoom
  /\ phase' = "noSpace"
  /\ UNCHANGED <<graph, device, position, node, writer, reader>>

\* flush, after the last word.
flush ==
  /\ phase = "node" /\ nodes = {}
  /\ device' = [device EXCEPT ![block] = buffer]
  /\ phase' = "written"
  /\ UNCHANGED <<graph, position, node, writer, reader>>

-----------------------------------------------------------------------------
\* restoreCheckpoint of the version that was written, into an empty store.
restoreCheckpoint ==
  /\ phase = "written"
  /\ phase' = "readNode"
  /\ block' = 1 /\ place' = 0 /\ buffer' = device[1]
  /\ nodesRemaining' = Cardinality(DOMAIN graph) /\ edgeCounts' = 0
  /\ store' = EmptyGraph
  /\ UNCHANGED <<graph, device, node, writer>>

\* What is read of block b; past the data blocks there may be anything.
Block(b) == IF b \in DOMAIN device THEN device[b] ELSE Zeroed

\* The word that comes next.
Word == IF place < BlockWords THEN buffer[place + 1] ELSE Block(block + 1)[1]

\* A fault: the next block is read when the last word of this one has been.
readEarly ==
  IF place + 1 < BlockWords
  THEN place' = place + 1 /\ UNCHANGED <<block, buffer>>
  ELSE block' = block + 1 /\ place' = 0 /\ buffer' = Block(block + 1)

\* readUint64: the next block is read when the first word of it is needed.
readUint64 ==
  IF place < BlockWords
  THEN place' = place + 1 /\ UNCHANGED <<block, buffer>>
  ELSE block' = block + 1 /\ place' = 1 /\ buffer' = Block(block + 1)

ReadNode ==
  /\ phase = "readNode" /\ nodesRemaining > 0
  /\ readUint64 /\ node' = Word
  /\ phase' = "readCount"
  /\ nodesRemaining' = nodesRemaining - 1
  /\ UNCHANGED <<graph, device, writer, store, edgeCounts>>

ReadCount ==
  /\ phase = "readCount"
  /\ readUint64 /\ edgeCounts' = Word
  /\ phase' = IF edgeCounts' = 0 THEN "readNode" ELSE "readEdge"
  /\ store' = AddNode(store, node).nodes
  /\ UNCHANGED <<graph, device, writer, node, nodesRemaining>>

\* A neighbour that has no Node gets one; the edge is added at its one end.
ReadEdge ==
  /\ phase = "readEdge"
  /\ readUint64
  /\ store' = LinkOneWay(AddNode(store, Word).nodes, node, Word)
  /\ edgeCounts' = edgeCounts - 1
  /\ phase' = IF edgeCounts = 1 THEN "readNode" ELSE "readEdge"
  /\ UNCHANGED <<graph, device, writer, node, nodesRemaining>>

FinishRestore ==
  /\ phase = "readNode" /\ nodesRemaining = 0
  /\ phase' = "restored"
  /\ UNCHANGED <<graph, device, position, node, writer, reader>>

-----------------------------------------------------------------------------
Write == \/ \E n \in nodes : WriteNode(n)
         \/ WriteCount
         \/ \E m \in edges : WriteEdge(m)
         \/ NoSpace \/ flush

Read == ReadNode \/ ReadCount \/ ReadEdge \/ FinishRestore

Next == (\E g \in Graphs : performCheckpoint(g)) \/ Write \/ restoreCheckpoint \/ Read

Spec == Init /\ [][Next]_vars

-----------------------------------------------------------------------------
\* A checkpoint succeeds exactly when the words of its graph fit in the blocks,
\* the last of them included: what CheckpointManager's WriteNodes and OutOfSpace
\* say of the writer.
FitsOrNot ==
  /\ phase = "written" => C!Words(graph) <= Blocks * BlockWords
  /\ phase = "noSpace" => C!Words(graph) > Blocks * BlockWords

\* What is read back is what was written, in whatever order the edges come
\* and wherever a block ends between them, and nothing of an earlier
\* checkpoint: what CheckpointManager's Restored says of the reader.
RestoresWritten == phase = "restored" => store = C!Restored(1)

\* Neither writer nor reader takes a block past the last one, which the reader's
\* invariant(_currentBlock < _end) would notice one block too late.
StaysInBlocks == block <= Blocks
=============================================================================
