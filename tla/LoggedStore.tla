---------------------------- MODULE LoggedStore ----------------------------
(***************************************************************************)
(* LoggedStore: a MemoryStore made durable by a LogManager and a           *)
(* CheckpointManager on one device, through crashes and recoveries.        *)
(*                                                                         *)
(* A call logs its operation and then applies it to the MemoryStore.       *)
(* checkpoint() writes the graph out and begins a new log generation.      *)
(* recover() restores the checkpoint of the generation before the log's    *)
(* and replays the log.  Everything runs under _lock, so the actions of    *)
(* one call follow each other; the process may crash between any two       *)
(* writes to the device.                                                   *)
(*                                                                         *)
(* A call that fits in the last log block is one action: once its entry is *)
(* on the device nothing is left of the process but what recovery rebuilds *)
(* from it, whether the crash comes before or after the MemoryStore is     *)
(* updated.                                                                *)
(***************************************************************************)
EXTENDS CheckpointManager, Sequences

CONSTANTS Local, Remote,  \* as in MemoryStore
          Entry,          \* the operations asked for: [op, a, b]
          BlockEntries, DeviceBlocks, MaxGeneration,
          LogBlocks       \* blocks of the log's own range, behind its superblock

OpCode == {"ADD_NODE", "ADD_EDGE", "ADD_EDGE_PART",
           "REMOVE_NODE", "REMOVE_EDGE", "REMOVE_EDGE_PART"}

\* Zero bytes are the entry ADD_NODE of node 0.
ZeroEntry == [op |-> "ADD_NODE", a |-> 0, b |-> 0]

\* A store with partitions (Remote # {}) is not asked for checkpoints or to
\* remove nodes: http_controller.cc:137 and :425.  It has the first node of each
\* edge.  Node 0, which zero bytes name, is not one that belongs elsewhere.
ASSUME EntriesAreOperations ==
  /\ Entry \subseteq [op : OpCode, a : Local, b : Local \cup Remote \cup {0}]
  /\ \A e \in Entry : e.op \in {"ADD_EDGE_PART", "REMOVE_EDGE_PART"} => e.b \in Remote
  /\ Remote # {} => \A e \in Entry : e.op # "REMOVE_NODE"
  /\ Local \cap Remote = {} /\ 0 \notin Remote

\* The checkpoint begins at a fifth of the device, the log at block 0: a device
\* of ten blocks or more has a log block.
ASSUME DeviceSizes == /\ BlockEntries \in Nat \ {0}
                      /\ DeviceBlocks \in Nat \ {0}
                      /\ MaxGeneration \in Nat \ {0}
                      /\ LogBlocks \in 1 .. DeviceBlocks - 1

VARIABLES
  superblock, block, phase, pending, reader, logged, intact,  \* LogManager
  nodes,      \* _memoryStore
  mode,       \* where the LoggedStore is, see Modes
  promised,   \* history: the graph the calls that were logged add up to
  doubt       \* history: a crash interrupted format, or recover() has run the
              \* fall-through of its REMOVE_EDGE case

Log == INSTANCE LogManager

logVars == <<superblock, block, phase, pending, reader, logged, intact>>
vars == <<logVars, checkpoint, nodes, mode, promised, doubt>>

Modes == {"off",         \* no process
          "formatting",  \* constructor, formatLog: before _checkpoint.format
          "restoring",   \* constructor: before restoreCheckpoint
          "replaying",   \* recover: reading the log
          "serving",     \* taking calls
          "header",      \* checkpoint: first superblock write done
          "data",        \* checkpoint: data blocks written
          "closed",      \* checkpoint: second superblock write done
          "renewing",    \* checkpoint: increaseGeneration half done
          "garbled",     \* recover: reads a checkpoint that is not whole
          "overrun",     \* constructor: reads the checkpoint as blocks of the log
          "exited"}      \* an invariant(...) failed

Init ==
  /\ Log!Init
  /\ checkpoint = Erased
  /\ nodes = EmptyGraph
  /\ mode = "off"
  /\ promised = EmptyGraph
  /\ doubt = FALSE

-----------------------------------------------------------------------------
\* The log and the checkpoint are on one device.  logOperation takes blocks up
\* to the device's end: block LogBlocks + 1 is the checkpoint's superblock.
InRange == superblock.size <= LogBlocks

\* Where the checkpoint's superblock has its version, a log block has its magic
\* number, 1234567: not a generation of any log followed here.
BlockMagic == MaxGeneration + 1

\* What a write of the log's last block does to the checkpoint.  A block further
\* on goes over data of a checkpoint that is overwritten already, or was left
\* unfinished.
LogBlockWritten ==
  checkpoint' = IF superblock.size = LogBlocks + 1
                THEN [checkpoint EXCEPT !.version = BlockMagic]
                ELSE checkpoint

\* The log counts a block that is the checkpoint's: one that it has not written
\* yet, or that performCheckpoint has written over.
Overwritten == ~InRange /\ checkpoint.version # BlockMagic

-----------------------------------------------------------------------------
\* What a call does to the MemoryStore.
Apply(g, e) ==
  CASE e.op = "ADD_NODE"         -> AddNode(g, e.a)
    [] e.op = "REMOVE_NODE"      -> RemoveNode(g, e.a)
    [] e.op = "ADD_EDGE"         -> AddEdge(g, e.a, e.b)
    [] e.op = "REMOVE_EDGE"      -> RemoveEdge(g, e.a, e.b)
    [] e.op = "ADD_EDGE_PART"    -> AddEdgePart(g, e.a, e.b)
    [] e.op = "REMOVE_EDGE_PART" -> RemoveEdgePart(g, e.a, e.b)

\* What recover() does for its entry: the REMOVE_EDGE case has no break.
Replay(g, e) ==
  IF e.op = "REMOVE_EDGE" /\ Apply(g, e).status # "EXIT"
  THEN AddEdgePart(Apply(g, e).nodes, e.a, e.b)
  ELSE Apply(g, e)

\* The MemoryStore's part of a call that has been logged.
Perform(e) ==
  LET r == Apply(nodes, e)
  IN /\ nodes' = r.nodes
     /\ promised' = r.nodes
     /\ mode' = IF r.status = "EXIT" THEN "exited" ELSE mode

\* addNode, removeNode, addEdge, removeEdge, addEdgePart and removeEdgePart:
\* log, then apply; NO_SPACE is returned before anything is applied.
Call(e) ==
  /\ mode = "serving"
  /\ \/ Log!AppendEntry(e) /\ LogBlockWritten /\ Perform(e)
     \/ /\ Log!Extend(e) \/ Log!Refuse
        /\ UNCHANGED <<checkpoint, nodes, promised, mode>>
  /\ UNCHANGED doubt

\* The rest of a call that needed a new log block.
FinishCall ==
  /\ mode = "serving"
  /\ Log!WriteNewBlock
  /\ LogBlockWritten
  /\ Perform(pending)
  /\ UNCHANGED doubt

-----------------------------------------------------------------------------
\* checkpoint(), write by write.
BeginCheckpoint ==
  /\ mode = "serving" /\ phase = "open" /\ Remote = {}
  /\ superblock.generation < MaxGeneration
  /\ WriteHeader(superblock.generation, nodes)
  /\ mode' = "header"
  /\ UNCHANGED <<logVars, nodes, promised, doubt>>

\* A fault: NO_SPACE is not looked at.
WriteSomeCheckpoint ==
  /\ mode = "header"
  /\ WriteNodes(nodes) \/ OutOfSpace(nodes)
  /\ mode' = "data"
  /\ UNCHANGED <<logVars, nodes, promised, doubt>>

WriteCheckpoint ==
  /\ mode = "header"
  /\ \/ WriteNodes(nodes) /\ mode' = "data"
     \/ OutOfSpace(nodes) /\ mode' = "serving"
  /\ UNCHANGED <<logVars, nodes, promised, doubt>>

CloseCheckpoint ==
  /\ mode = "data"
  /\ WriteCheckpointed
  /\ mode' = "closed"
  /\ UNCHANGED <<logVars, nodes, promised, doubt>>

RenewLog ==
  /\ mode = "closed"
  /\ Log!increaseGeneration
  /\ mode' = "renewing"
  /\ UNCHANGED <<checkpoint, nodes, promised, doubt>>

FinishCheckpoint ==
  /\ mode = "renewing"
  /\ Log!EmptyFirstBlock
  /\ mode' = "serving"
  /\ UNCHANGED <<checkpoint, nodes, promised, doubt>>

-----------------------------------------------------------------------------
\* The constructor with formatLog: _log.format(), then _checkpoint.format().
Format ==
  /\ mode = "off"
  /\ Log!format
  /\ mode' = "formatting"
  /\ promised' = EmptyGraph
  /\ doubt' = FALSE
  /\ UNCHANGED <<checkpoint, nodes>>

FormatLog ==
  /\ mode = "formatting"
  /\ Log!FormatGeneration \/ Log!EmptyFirstBlock
  /\ UNCHANGED <<checkpoint, nodes, mode, promised, doubt>>

FormatCheckpoint ==
  /\ mode = "formatting" /\ phase = "open"
  /\ formatCheckpoint
  /\ mode' = "serving"
  /\ UNCHANGED <<logVars, nodes, promised, doubt>>

\* The constructor without it: _log.init(), _checkpoint.init(), recover().  What
\* they make of blocks of the checkpoint that they take for the log's is not
\* followed: an assertion may fail, or something be replayed.
Start ==
  /\ mode = "off"
  /\ Log!init
  /\ mode' \in IF Overwritten THEN {"exited", "overrun"}
               ELSE IF phase' = "open" THEN {"restoring"} ELSE {"exited"}
  /\ UNCHANGED <<checkpoint, nodes, promised, doubt>>

\* What the words of a checkpoint that is not whole make of the graph is not
\* followed any further.
Restore ==
  /\ mode = "restoring"
  /\ LET g == superblock.generation - 1
     IN IF Matches(g) /\ ~checkpoint.whole
        THEN /\ mode' = "garbled"
             /\ UNCHANGED <<logVars, nodes>>
        ELSE /\ nodes' = Restored(g)
             /\ Log!readLog
             /\ mode' = IF phase' = "reading" THEN "replaying" ELSE "exited"
  /\ UNCHANGED <<checkpoint, promised, doubt>>

ReplayNext ==
  /\ mode = "replaying"
  /\ Log!getNext
  /\ IF phase' = "exited"
     THEN mode' = "exited" /\ UNCHANGED <<nodes, doubt>>
     ELSE LET r == Replay(nodes, Log!NextEntry)
          IN /\ nodes' = r.nodes
             /\ mode' = IF r.status = "EXIT" THEN "exited" ELSE mode
             /\ doubt' = (doubt \/ Log!NextEntry.op = "REMOVE_EDGE")
  /\ UNCHANGED <<checkpoint, promised>>

\* From here on the callers see what recovery made of the graph.
FinishRecovery ==
  /\ mode = "replaying"
  /\ Log!close
  /\ mode' = "serving"
  /\ promised' = nodes
  /\ UNCHANGED <<checkpoint, nodes, doubt>>

Crash ==
  /\ Log!Crash
  /\ mode' = "off"
  /\ nodes' = EmptyGraph
  /\ doubt' = (doubt \/ mode = "formatting")
  /\ UNCHANGED <<checkpoint, promised>>

-----------------------------------------------------------------------------
Next ==
  \/ \E e \in Entry : Call(e)
  \/ FinishCall
  \/ BeginCheckpoint \/ WriteCheckpoint \/ CloseCheckpoint
  \/ RenewLog \/ FinishCheckpoint
  \/ Format \/ FormatLog \/ FormatCheckpoint
  \/ Start \/ Restore \/ ReplayNext \/ FinishRecovery
  \/ Crash

Spec == Init /\ [][Next]_vars

-----------------------------------------------------------------------------
TypeOK ==
  /\ IsGraph(nodes, Local \cup {0}, Local \cup Remote \cup {0})
  /\ IsGraph(promised, Local \cup {0}, Local \cup Remote \cup {0})
  /\ mode \in Modes
  /\ checkpoint.version \in 0 .. superblock.generation \cup {BlockMagic}

Recovered == mode = "replaying" /\ Log!Done

\* performCheckpoint has written over the checkpoint that the running
\* generation's log starts from.
CheckpointBegun == checkpoint.version = superblock.generation

\* Recovery gives back exactly the graph of the calls that were logged: through
\* any number of crashes and checkpoints and over all blocks of the log's range,
\* as long as no crash fell between the two writes of a LogManager call or into
\* a format, no checkpoint was left unfinished, and no REMOVE_EDGE has been
\* replayed.  In a log that has grown past its range there is nothing like it:
\* its blocks have replaced the checkpoint it starts from.  A finished
\* checkpoint puts that right, whatever had become of the last one.
Durable ==
  Recovered /\ InRange /\ intact /\ ~doubt /\ ~CheckpointBegun => nodes = promised

\* Whatever crashes damaged, what is served is a graph: lost or repeated
\* operations, or a checkpoint lost to a log past its range, never leave half an
\* edge or a missing neighbour.
ServesAGraph == mode = "serving" /\ ~doubt => WellFormed(nodes, Local \cup {0})

\* No invariant(...) of the log, the checkpoint or the MemoryStore ends the
\* process unless a crash fell between two writes, a REMOVE_EDGE was replayed or
\* the log has grown past its range.
StartsAgain == mode = "exited" => doubt \/ ~intact \/ ~InRange

\* restoreCheckpoint reads data blocks that are whole, although it never asks
\* whether the checkpoint was finished; only a format cut short can mislead it.
RestoresWhole == mode = "garbled" => doubt

-----------------------------------------------------------------------------
\* What the source says of the store and a run refutes.

\* logged_store.h:92, "Recover operations from the on disk log."
RecoversTheLog ==
  Recovered /\ InRange /\ intact /\ ~CheckpointBegun => nodes = promised

\* logged_store.h:13, "maintains an on disk log and checkpoint [...] This
\* enables durability.": with no REMOVE_EDGE, no crash inside a LogManager call
\* and a log that fits in its range, what was answered is recovered.
EnablesDurability == Recovered /\ InRange /\ intact /\ ~doubt => nodes = promised
=============================================================================
