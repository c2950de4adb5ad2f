# A verification model of graph_store

graph_store is a small graph database: an HTTP server that keeps an undirected
graph in memory, optionally on a log and a checkpoint on a device, optionally
spread over partitions, optionally copied along a chain of replicas.  The
modules here model its own code (`src/src/`), TLC checks them on small
instances, and TLAPS proves what matters most of each part for every value of
its constants.

## The system

| Component | State | Operations | What makes it correct |
|---|---|---|---|
| MemoryStore (`db/memory_store.cc`, `db/types.cc`) | `_nodes`: id -> Node with the set of its neighbours; every edge is kept twice | addNode, removeNode, findNode, addEdge, removeEdge, getEdge, the three edge-part calls, getNeighbors; all under one mutex | the copies of an edge agree, no neighbour is missing, no `invariant(...)` fails, callers see an undirected graph |
| shortestPath (`db/memory_store.cc:249`) | two queues and the set of ids found | one breadth-first search, under the store's mutex | the distance is that of a shortest path, no distance means no path, the search ends |
| LogManager (`db/log_manager.cc`) | superblock (generation, number of blocks) and log blocks on the device; `_currentBlock`; one Reader | format, init, logOperation, increaseGeneration, readLog, hasNext, getNext, close | what was logged is read back, in order, across blocks, generations and crashes; a generation number is used once |
| CheckpointManager (`db/checkpoint_manager.cc`) | superblock (version, checkpointed, nodeCount) and data blocks on the device; BlockWriter and BlockReader over them | format, init, performCheckpoint, restoreCheckpoint | what is restored is a whole graph of the right generation, word for word, wherever the blocks end |
| LoggedStore (`db/logged_store.cc`) | a MemoryStore, a LogManager and a CheckpointManager on one device | each call logs and applies; checkpoint; recover | what calls did survives crashes |
| PartitionConfig, PartitionManager, PartitionServer, PartitionOutbound | which partition owns a node: `id % partitions` | add/removeEdgePart on the other partition | the two halves of an edge agree |
| HTTPController (`net/http_controller.cc`) | none of its own | one handler per route, on one thread | no handler ends the process; every request is answered |
| ReplicationManager, -Server, -Outbound (`db/replication_manager.cc`, `net/replication_*`) | the place in the chain and the connection to the successor, opened once | a write goes down the chain, each replica but the head committing before it calls the next; the head commits last | an acknowledged write is on every replica; replicas differ only by writes that were cut off; every write is answered |
| BufferManager, Buffer (`io/`) | the device's file descriptor | get, write of one block, O_DIRECT and O_SYNC | a block is written when write returns |

How they interact.  An HTTP handler calls the store (a mutex inside every
call), before that the replication manager, and for an edge with one node
elsewhere the partition manager, which makes a Thrift call to the other
partition's server; that server runs on a thread of its own and calls its own
store.  A LoggedStore writes the log before it changes the graph; a checkpoint
writes the graph and then begins a new log generation, and recovery restores
the checkpoint of the generation before the log's and replays the log on it.
`main.cc` gives every process a MemoryStore (logging is switched off in it),
always builds a PartitionManager, and starts a partition server if `-p` is
given.

Where it is hard: crashes between the writes of a log call, of a checkpoint
and of a format; block boundaries and running out of blocks; handlers of two
partitions changing one edge at the same time; connections that break after
the other side has acted; processes that come back empty; replicas that commit
before their successors.  `PROJECT.json` lists each hazard with its line and
the properties that watch it.

## The modules

| Module | Models | Notes |
|---|---|---|
| `GraphData` | the MemoryStore's data and each call as a function of it | no variables; used by all stores below |
| `GraphStore` | what a store promises: an undirected graph | the abstract specification |
| `MemoryStore` | the store as a state machine, one action per call | `Refines` is `GraphStore!Spec` under `vertices <- DOMAIN nodes`, `links <- Links(nodes)` |
| `ShortestPath` | shortestPath's loop over any graph a store can hold | |
| `LogManager` | the log on the device, write by write | |
| `CheckpointManager` | the checkpoint on the device, as steps on its variable | not a state machine of its own |
| `CheckpointBlocks` | the checkpoint's data blocks, word by word | instantiates `CheckpointManager` for what it says of a checkpoint as a whole |
| `LoggedStore` | the composition: `Log == INSTANCE LogManager`, the steps of `CheckpointManager`, the operations of `GraphData` | |
| `PartitionedEdges` | processes that add and remove the edges between partitions | |
| `ReplicationChain` | a chain of replicas, each with a store | |
| `MCLoggedStore`, `MCPartitionedEdges` | values of constants for TLC | |
| `GraphDataProofs` | lemmas about `GraphData`'s operators | TLAPS, as all below |
| `MemoryStoreProofs`, `ShortestPathProofs`, `LogManagerProofs`, `CheckpointBlocksProofs`, `LoggedStoreProofs`, `PartitionedEdgesProofs`, `ReplicationChainProofs` | theorems about the module each is named for | |

**GraphData and MemoryStore.**  A graph is a function from ids to sets of ids,
exactly `_nodes` and each Node's `_edges`.  An operator returns the status and
the graph; `"EXIT"` stands for a failed `invariant(...)`, which calls
`std::exit`.  `reply` is the last call and its answer, so that the refinement
compares answers as well as graphs; `getNeighbors` returns a list whose order
the code leaves open, hence a set.  `removeNode` is only asked for without
partitions (`http_controller.cc:137`): with edge parts its lookup of a
neighbour that is elsewhere would end the process.

**ShortestPath.**  The mutex is held throughout, so the graph stands still; it
is any graph without edge parts (`http_controller.cc:400`).  A level is a set,
and its nodes are looked at in any order, because `_edges` is a hash set.  The
start is not in `found`, exactly as in the code, and is queued a second time.
`Walk` and `Apart` are the reference definitions: distance by walks, and no path
by a set that is closed under edges.

**LogManager.**  `superblock` and `block` are the device.  A block has its
validity, its generation and its entries; sizes and checksums are data that the
properties do not tell apart, except that a block of zeroes passes the xor
checksum.  `increaseGeneration` and a `logOperation` that needs a new block
write twice, so each is two actions and `phase` says which write is to come;
`Crash` may fall between them.  `logged` (what this generation's calls wrote)
and `intact` (no crash fell between two writes of a call in this generation)
are history.  The device's first content is all four combinations of a zeroed
or garbage superblock and zeroed or garbage blocks.

**CheckpointManager and LoggedStore.**  `checkpoint` is the superblock's
version and flag and the graph the data blocks hold; `whole` is false from the
first superblock write until the last data block is written.  Node and edge
words are counted against the space (`Words`); that this is when `BlockWriter`
runs out, and that `BlockReader` gives back what was written, is what
`CheckpointBlocks` shows.  `mode`
says where the constructor, `checkpoint()` or `recover()` is.  `promised` is
the graph that the logged calls add up to.  A call that fits in the last block
is one action: after the entry is on the device, nothing in the process
survives a crash anyway.  The log and the checkpoint share the device: the log's
range ends where the checkpoint's superblock is (`logged_store.cc:13-16`), but
`logOperation` compares with the device's end only and never with `_logMaxBlock`
(`log_manager.cc:129`).  `LogBlocks` is the range.  A log block that is written
just past it has its magic number where the checkpoint's version was
(`LogBlockWritten`), so the checkpoint is not found again; blocks further on go
over data of a checkpoint that is lost already.  The other way round,
`performCheckpoint` writes over the blocks of a log that has outgrown its range,
and that log counts them still (`Overwritten`): what `init` and the reader make
of them is not followed (`mode` `"overrun"` or `"exited"`).  Replaying has the code's fall-through from
REMOVE_EDGE into ADD_EDGE_PART; `doubt` records that it has been run, or that a
format was cut short, so that the properties can speak of the rest.

**PartitionedEdges.**  A process has a store and an HTTP thread (`http[p]`):
a handler looks at its half, makes the remote call (`StartEdge`), the other
process's server runs it (`Serve`), and the handler then changes its own half
(`Finish`), or the process ends if that fails.  `Disconnect` is the exception
of a broken connection; a call whose caller has given up may still be run
(`late`, `ServeLate`), because the server takes connections in turn.  `Crash`
empties a store.  `failed`, `broken` and `raced` are history, for stating when
halves may differ and when an assertion may fail.  The assertion of
`add_edge` also fails when the request names a local node that does not exist
(`http_controller.cc:206`): the far half is added first, and then the process
ends.  `ExitsOnlyOnRaces` names this case.

**CheckpointBlocks.**  `writeUint64` and `readUint64` step through blocks that
still hold an earlier checkpoint's words.  `performCheckpoint` and
`restoreCheckpoint` are one action per word, so that a block may end before a
node, before its count or between two edges.

**ReplicationChain.**  `work[i]` is the one thread of replica `i` that counts:
the head's HTTP thread, or the replication server's.  A server runs a call on
its own store and passes it on only if that succeeded (`CarryOn`); the head asks
first and changes its own store last (`Finish`).  `link[i]` is the connection
to the successor, opened when the process starts and never again.  `Disconnect`
and `Crash` break connections; a call that was with a server then may still be
run (`late`, in order, before the calls of a newer connection, for
TSimpleServer takes connections in turn).  `cut` and `lost` are history: the
nodes and edges of writes that were cut off, and the replicas that have lost
their store.

Operators described as "A fault" stand beside the definition they would
replace.  They are not part of any specification: each is a plausible mistake
in that piece of code, and each property is broken by at least one of them.

## What the runs show

| Run | Instance | Shows |
|---|---|---|
| `memory_single` | 4 ids | `StaysWellFormed`, `NoAssertionFails`, `Refines`, for every sequence of calls |
| `memory_partition` | 3 ids here, 2 elsewhere | the same with edge parts; `TypeOK`: a far id never becomes a Node |
| `log` | 2 entries, 3 blocks of 2, generations 0-2 | `ReadsBack`, `NothingWrittenIsLost`, `StartsAgain`, `GenerationsOnlyGrow`, `ReaderFinishes` |
| `store_graph` | 2 nodes and node 0, 1 edge, all calls, 3 blocks of 1, of which 2 are the log's, generations 0-3, checkpoint of 7 words | `TypeOK`, `Durable`, `ServesAGraph`, `StartsAgain`, `RestoresWhole` |
| `edges` | 1 edge, 2 partitions, 2 late calls | `HalvesAgree`, `ExitsOnlyOnRaces`, `StrandedForGood`, `EveryRequestEnds` |
| `path` | every graph of up to 5 nodes | `DistanceIsShortest`, `NoneMeansApart`, `SearchEnds` |
| `blocks` | every graph of up to 3 nodes, 5 blocks of 2 words, one checkpoint over another | `FitsOrNot`, `RestoresWritten`, `StaysInBlocks` |
| `chain` | head, middle and tail, 2 nodes and their edge, 1 late call each | `ReplicasAgree`, `AnsweredMeansCommitted`, `NeverStuck`, `StrandedForGood`, `EveryWriteEnds` |

Four runs show that the code does not do what its comments or assertions say:

- `store_removal`: recovery of REMOVE_EDGE leaves half an edge
  (`logged_store.cc:136`, no `break`).
- `store_checkpoint`: a crash just after a checkpoint began loses the last one
  (`checkpoint_manager.cc:106`); the log alone does not reach back that far.
- `log_stale`: after a crash between the two writes of `increaseGeneration`
  the old generation's entries are read as the new one's
  (`log_manager.cc:158`).
- `edges_remove`: two removals of one edge from both ends end the process
  (`http_controller.cc:284`).

One more fault of the code is in the steps and has no run of its own: a log that
has grown past its range has replaced the checkpoint it starts from, without an
error, and the next recovery serves what the log alone makes
(`log_manager.cc:129`).  `_logMaxBlock` is commented "The maximum block used by
the log." (`log_manager.h`), and `NO_SPACE` is promised "if the log is full".  So
`Durable` has `InRange` as a premise: without it, `store_graph` reaches a
recovery that does not give back what was promised (a checkpoint, three entries
in the log's two blocks and the one behind them, a crash).
`ServesAGraph` and `RestoresWhole` hold there as well, and `Durable` holds again
from the next checkpoint that is finished.

### Bounds

Every bound is a constant.  Four ids give two disjoint edges, triangles and
paths, and every pattern an edge operation can see; two far ids let a node have
several edge parts.  `MaxGeneration` stops new generations: three allow a
checkpoint of a log that itself started from a checkpoint.  Three log blocks of
two entries have a first, a middle and a last block, full and partly full.  In
`store_graph` a block has one entry, two blocks are in the log's range and the
third is the checkpoint's superblock; `CheckpointWords` lets two nodes and their
edge fit (6 words) and not node 0 as well (8), which replaying an empty block
adds.  `MaxLate` bounds the calls that nobody
waits for at one time.  Five nodes have paths of four edges, two ways of equal
and of different length between two nodes, cycles, and nodes apart.  Five blocks
of two words hold a path of three nodes (10 words) and nothing more: a triangle
(12 words) runs over.  While the path is written and read, blocks end behind an
id, behind a count, between the two edges of its middle node and between nodes.
Three replicas have
a head, a middle one, whose commit lies between two others', and a tail.
Deadlock is checked in every run.

### Fairness

`LogManager`: a process that reads the log goes on reading (`getNext` or
`close`), because `recover()` is one loop; nothing forces a crash or a restart.
`PartitionedEdges`: a handler's call is run by a peer that is up or fails with
one that is down, and the handler then finishes.  The two are one fairness
condition, for a peer may go down and come up again while the call waits.  This
is what the two threads of a process give: the partition server does not
wait for the HTTP thread.  No other action is fair, requests, faults and
restarts least of all.
`ShortestPath`: the thread in the loop goes on.  `ReplicationChain`: each
replica's thread, and the head's, goes on when it can.  Calls have no timeout
(`replication_manager.cc:23`, "TODO handle timeout."), so the head waits as long
as its successor's connection stands; that every write is answered nevertheless
rests on a crash breaking the connections, and on the calls of broken
connections, which are served first, being finite in number.

## What is proved

Every theorem is about the specification of its module as TLC checks it, for
all values of the constants that its named assumption allows.

**`MemoryStoreProofs`**, for any disjoint sets `Local` and `Remote`, finite or
not (`DisjointIds`): `TypeCorrect`, `WellFormedAlways`, `NeverExits` (`TypeOK`,
`StaysWellFormed` and `NoAssertionFails` are invariants) and `Implements`
(`Spec => Refines`, the store implements `GraphStore`).  The inductive invariant
`IInv` conjoins the three: that no assertion fails needs that the copies of an
edge agree in the state before, and that they agree after `removeNode` needs
that the node's neighbours are known and that, without partitions, every id
belongs here (`NoDangling`).  For each call a lemma says that it preserves
`IInv`, and a second that its status and its effect on `Links(nodes)` are what
`GraphStore` says of the same call; the facts about `Links` are in
`GraphDataProofs`.

**`ShortestPathProofs`**, for any set of ids, so for infinite graphs as well:
`ShortestAlways`, `ApartAlways`, and `SearchSurvives` (it queues no id without a
Node).  The invariant (`SearchInv`) says what the queues hold (`Levels`), that
whatever is at most as far as this level is on it or settled, and whatever was
queued is in a queue or settled (`Frontier`), and that the node looked for is no
closer (`NotYet`).  `Frontier` is what makes a level complete when the next
begins, and the settled nodes are the closed set that shows two nodes apart.
`SearchAdvances` is the part of `SearchEnds` that TLAPS can check: on a finite
graph each step of the loop makes the natural number `Left` smaller, in which an
id that was not found counts three times, one on the next level twice and one on
this level once.

**`LogManagerProofs`**, for any block size, device and entries (`LogSizes`):
`TypeAlways`, `ReadsBackAlways`, `NothingLostAlways`, `StartsAlways`,
`GenerationsAlways`, `ReaderAdvances`.  While no
crash has fallen between two writes, the blocks hold `logged` one after the
other, all but the last of them full and only the first perhaps empty
(`Written`): entry `j` of block `i` is entry `Start(i) + j` of `logged`.  A
reader has returned the part of `logged` before its position (`ReadSoFar`), and
that no block after the first is empty is what carries `getNext` over the end
of a block.  `NothingLostAlways` has no such premise: its invariant (`LogKept`)
holds through every crash, and does not say what else the blocks hold.  Each
entry of `logged` has a place in them, and the places are in order (`PlacedAt`);
what of them the reader has passed it has returned, in order (`Returned`).  A
block that the superblock counts already and that is still to be written is not
among the blocks up to `Last`.  If the process dies before that write, the block
counts whatever it holds, and the next entry goes behind it.  At the
end a reader has passed them all (`LosesNothing`).  `ReaderAdvances` is the part
of `ReaderFinishes` that TLAPS can check: each `getNext` leaves fewer slots to
read.

**`CheckpointBlocksProofs`**, for any block size, number of blocks and finite
set of ids (`BlocksAssumption`; an id has 64 bits): `FitsOrNotAlways`,
`RestoresWrittenAlways`, `StaysInBlocksAlways`, so every invariant of `blocks`.
Two things make the words easy to speak of.  They are one sequence that goes on
from block to block (`Index` says which word a place holds), so that the end of
a block is no case of its own; and a node's words begin behind those of the
nodes with smaller ids (`Start`), so that where they are depends on the graph
and not on how the writer got there.  The writer is between two nodes or within
one (`Written`), some sequence is what it has put so far (`Held`), and when it
is done the device holds it (`Stored`).  The reader is at the same place of that
sequence and has rebuilt the nodes before it and the edges read so far
(`Reads`).  That `restoreCheckpoint` adds the far ends of edges as it meets them
and their own words later is in `RebuiltOf`.

**`LoggedStoreProofs`**, for any operations (`EntriesAreOperations`), block
size and device (`DeviceSizes`): `TypeAlways`, `DurableAlways`, `ServesAlways`,
`StartsAlways`, `RestoresAlways`, so every invariant of `store_graph`.  The log's
part of the invariant is that of `LogManagerProofs`, which is instantiated as
`LP`.  `UsesLogManager` says that every step of the store is a step of
`LogManager` or leaves the log alone, so that what is proved of the log holds
of the store's: `ReplaysAllAlways` is `NothingWrittenIsLost` for the log that
`recover()` replays.  A log with a checkpoint written over some of its blocks is
not replayed in the model, so neither theorem says anything of it.
`DurableAlways` is about a log in its range of blocks, after any history: an
earlier log may have outgrown it and taken a checkpoint with it.
`Durable` speaks of the end of recovery only; what carries it there is `Kept`:
there is a sequence of graphs that begins with what the checkpoint restores,
goes on with one logged operation at a time and ends with what was promised, and
a recovery that runs has the graph at the reader's position.  A call makes the
sequence longer, a finished checkpoint replaces it by one that has a single
graph (`KeptEmpty`), and a crash leaves it as it is.  A finished checkpoint is
restored as it was written because it is of a well formed graph (`RebuiltIs`),
which is why `Sound` is about the graph on the device as well, and it is whole
because a generation is closed only when its blocks are written (`Matched`).
One assumption is about the program's use and not its code: node 0, which a
block of zeroes names, is not a node of another partition.  A store with
partitions whose node 0 is elsewhere can come back from a crash between two
writes with a Node for it, and with edge parts that lack their other half.

**`PartitionedEdgesProofs`**, for any partitions, nodes and placement
(`HomeIsPartition`): `TypeAlways`, `HalvesAlways`, `ExitsAlways`,
`StrandedAlways`, `RequestsAdvance`.  `HalvesAgree` is not inductive: the invariant `Settled` says
of an edge of which nothing was lost that its halves differ exactly when one end
is halfway and the other is not, what the far half is meanwhile, and that two
ends that are both halfway are there with the same request.  It rests on
`LateIsLost`: a call that is run late is for an edge that counts as lost.
`ExitsOnlyOnRaces` follows from `OwnHalfKept`, that without a race the own half
is what it was when the handler looked, and this from `BothRace`, that two ends
at work on an edge both know.  The first steps are lemmas on what an update does
to one half and leaves of all others (`ApplyIs`, `UpdateIs`).
`RequestsAdvance` is the part of `EveryRequestEnds` that needs no fairness: what
the thread of a partition has yet to do for its request gets less with each of
its steps, and no step of another partition, late call or fault undoes it.

**`ReplicationChainProofs`**, for a chain of any length and any nodes
(`ChainAssumption`): `TypeAlways`, `CommittedAlways`, `StrandedAlways`,
`AgreeAlways`, `StuckNever` and `ChainAdvances`.  That an answer means that all have
committed needs an invariant about every replica in between: a waiting caller's
successor is at work on the same write (`Aligned`), a replica that carries a
write on has it in its own store (`CommittedHere`), and once it has answered
with success all after it have it as well (`CommittedOn`).  That replicas agree
needs in addition how far the write has come: it is at every replica down to
where it is, unless it was cut off (`InOrder`); those it has not reached agree
about it and have not done it (`AgreeAhead`); and one that failed on its way has
changed no store (`AgreeAfterFailure`), for replicas that agree refuse a write at
the first of them that is asked.  All this needs that nodes are
added at the head last (`HeadLeast`), and that whoever a replica with its store
still reaches has its store as well (`LinkedAreKept`).  The last two
are the parts of `EveryWriteEnds` that TLAPS can check.  `StuckNever`: the last
replica in a call has a successor that runs and either has an answer or can serve
(`LastReplica`, `Aligned`), so the replicas do not all wait for one another.
`ChainAdvances`: what is left to do, `Debt`, is a natural number that each step
of a thread makes smaller and only a request makes larger.  A call that replica
k is still to run counts for the steps that it can cause at k and after it
(`PerCall`), so that passing a call on costs one step, and a call that a broken
connection leaves to be run late owes no more than its caller did
(`LateInstead`).  `Debt` is the size of a set of pairs of a replica and a number
up to what it owes, for sums need induction and sizes of finite sets do not.

Only model-checked: the liveness properties (`ReaderFinishes`,
`EveryRequestEnds`, `SearchEnds`, `EveryWriteEnds`), which rest on fairness and
are beyond TLAPS.  Of each of them the measure that decreases is proved, and of
`EveryWriteEnds` also that the chain is never stuck; what is left to TLC is that
fairness makes the steps happen.

## What is not modelled

- Torn block writes: each write of a block is one step, and the xor checksum's
  strength is not in question.
- What recovery makes of a log some of whose blocks the checkpoint has been
  written over, or that counts the checkpoint's superblock as a block it has not
  written yet: both need a log that has outgrown its range, and from there
  the model goes on only with a format.  A log block takes a checkpoint's version
  for good, because no log has as many generations as its magic number
  (`BlockMagic`).  A device of fewer than ten blocks, whose log has no block of
  its own.
- A device whose checkpoint area holds garbage before the first format; it
  matters only when the first format is cut short.
- Connections that one end sees broken and the other does not, yet.
- `removeNode` and `checkpoint` down the chain: `main.cc` always passes a
  PartitionManager and no log, so the handlers refuse both before they are
  replicated.  Edges to other partitions are not replicated by the code.
- HTTP parsing, response codes and JSON; option parsing; shutdown; Thrift,
  mongoose-cpp and jsoncpp, which are used through the behaviour described
  above.  The handlers that only read wrap one call of the store.
- A process started without partition addresses: `PartitionConfig::target`
  then takes a remainder by zero.
- Everything outside `src/src/`: the vendored build system and libraries, the
  tests.

## Plan

Done: all the modules above, and a theorem for every invariant and action
property that a run shows to hold.  Open:

1. Torn writes in `LogManager`, if they fit the runs.
