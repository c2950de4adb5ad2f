------------------------- MODULE CheckpointManager -------------------------
(***************************************************************************)
(* CheckpointManager: one copy of the graph on the device, with a          *)
(* superblock that says which log generation it closes.  There is only one *)
(* copy: a new checkpoint is written over the last one.                    *)
(*                                                                         *)
(* performCheckpoint writes the superblock, the data blocks and the        *)
(* superblock again.  The data blocks are abstracted to the graph they     *)
(* hold, and whole says that they hold all nodeCount nodes of it: they do  *)
(* not from the first superblock write until the last data block's.        *)
(***************************************************************************)
EXTENDS GraphData, FiniteSets, Integers

CONSTANT CheckpointWords  \* words that fit in the checkpoint's data blocks

VARIABLE checkpoint  \* on the device: [version, checkpointed, whole, data]

\* format: the superblock is zeroes, so a checkpoint of no nodes, version 0.
Erased == [version |-> 0, checkpointed |-> FALSE, whole |-> TRUE,
           data |-> EmptyGraph]

formatCheckpoint == checkpoint' = Erased

\* A node is written as its id, its number of edges and the edges.
Words(g) == 2 * Cardinality(DOMAIN g)
              + Cardinality(UNION {{n} \X g[n] : n \in DOMAIN g})

\* A fault: the generation that comes next.
WriteNextHeader(generation, g) ==
  checkpoint' = [version |-> generation + 1, checkpointed |-> FALSE,
                 whole |-> g = EmptyGraph, data |-> EmptyGraph]

\* performCheckpoint, the first superblock write: the last checkpoint is gone.
WriteHeader(generation, g) ==
  checkpoint' = [version |-> generation, checkpointed |-> FALSE,
                 whole |-> g = EmptyGraph, data |-> EmptyGraph]

\* The data blocks, unless they do not all fit.
WriteNodes(g) ==
  /\ Words(g) <= CheckpointWords
  /\ checkpoint' = [checkpoint EXCEPT !.whole = TRUE, !.data = g]

OutOfSpace(g) == Words(g) > CheckpointWords /\ UNCHANGED checkpoint

\* The second superblock write.
WriteCheckpointed == checkpoint' = [checkpoint EXCEPT !.checkpointed = TRUE]

-----------------------------------------------------------------------------
\* A fault: the checkpoint is taken for one of the running generation.
MatchesNext(generation) == checkpoint.version = generation + 1

\* restoreCheckpoint compares the version only, not checkpointed.
Matches(generation) == checkpoint.version = generation

\* A fault: an edge is added at one of its ends.
RebuiltOneWay(g) == [n \in DOMAIN g |-> {m \in g[n] : m > n}]

\* The graph it builds: a neighbour that has no Node gets one, and each edge is
\* added at the end it was written for.
Rebuilt(g) ==
  [n \in DOMAIN g \cup UNION {g[m] : m \in DOMAIN g} |->
     IF n \in DOMAIN g THEN g[n] ELSE {}]

Restored(generation) ==
  IF Matches(generation) THEN Rebuilt(checkpoint.data) ELSE EmptyGraph
=============================================================================
