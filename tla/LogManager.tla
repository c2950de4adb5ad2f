----------------------------- MODULE LogManager -----------------------------
(***************************************************************************)
(* LogManager: the write-ahead log on the device, its writer, its reader   *)
(* and the crashes between its writes.                                     *)
(*                                                                         *)
(* The log is a superblock, naming the generation and how many blocks the  *)
(* log has, and the blocks that follow it.  BufferManager::write is one    *)
(* O_SYNC pwrite of a block: each is one step here, and the process may    *)
(* crash between any two.  A call that writes two blocks is therefore two  *)
(* actions, and phase says which write is still to come.  The in-memory    *)
(* copies _superblock and _currentBlock equal the blocks on the device     *)
(* whenever phase is "open", so they are not kept apart from them.         *)
(*                                                                         *)
(* A block that was never written holds what the device held.  All zeroes  *)
(* pass the xor checksum and look like an empty block, or a superblock of  *)
(* generation 0 and no blocks; anything else is taken to fail it.  Of      *)
(* entries[] only the first nEntries slots are kept: a later slot is read  *)
(* only in a block of zeroes, as ZeroEntry.                                *)
(***************************************************************************)
EXTENDS Integers, Sequences

CONSTANTS Entry,          \* the log entries
          ZeroEntry,      \* zero bytes read as an entry: (ADD_NODE, 0, 0)
          BlockEntries,   \* LOG_BLOCK_ENTRY_COUNT
          DeviceBlocks,   \* blocks from the log's superblock to the device's end
          MaxGeneration   \* bound: no new generation is begun after this one

ASSUME LogSizes == /\ BlockEntries \in Nat \ {0}
                   /\ DeviceBlocks \in Nat \ {0}
                   /\ MaxGeneration \in Nat \ {0}

VARIABLES
  superblock,  \* on the device: [valid, generation, size]
  block,       \* on the device: block[i] is the block i after the superblock
  phase,       \* where the process is, see Phases
  pending,     \* the entry that the call in progress has still to write
  reader,      \* the open Reader: where it is and what getNext has returned
  logged,      \* history: the entries written in this generation, in order
  intact       \* history: no crash fell between two writes of a call since
               \* this generation began

disk == <<superblock, block>>
vars == <<superblock, block, phase, pending, reader, logged, intact>>

Phases == {"down",        \* not running
           "open",        \* between two calls
           "formatting",  \* format: a first superblock is written
           "beginning",   \* increaseGeneration: superblock written, block 1 not
           "extending",   \* logOperation: superblock written, new block not
           "reading",     \* a Reader is open
           "exited"}      \* an invariant(...) failed

Blocks == 1 .. DeviceBlocks

NoReader == [block |-> 0, index |-> 0, got |-> <<>>]

LogBlock(entries) == [valid |-> TRUE, generation |-> superblock.generation,
                      entries |-> entries]

\* The last block of the log, _currentBlock.
current == block[superblock.size]

Init ==
  /\ \E blank \in BOOLEAN :
       superblock = [valid |-> blank, generation |-> 0, size |-> 0]
  /\ \E zeroed \in BOOLEAN :
       block = [i \in Blocks |->
                  [valid |-> zeroed, generation |-> 0, entries |-> <<>>]]
  /\ phase = "down"
  /\ pending = ZeroEntry
  /\ reader = NoReader
  /\ logged = <<>>
  /\ intact = FALSE

-----------------------------------------------------------------------------
\* increaseGeneration, up to its first write: the log is empty from here on,
\* but its first block still holds the previous generation.
BeginGeneration ==
  /\ superblock.generation < MaxGeneration
  /\ superblock' = [valid |-> TRUE, generation |-> superblock.generation + 1,
                    size |-> 1]
  /\ logged' = <<>>
  /\ intact' = FALSE
  /\ phase' = "beginning"
  /\ UNCHANGED <<block, pending, reader>>

increaseGeneration == phase = "open" /\ BeginGeneration

\* A fault: the block is written with the entries it has.
KeepFirstBlock ==
  /\ phase = "beginning"
  /\ block' = [block EXCEPT ![1] = LogBlock(block[1].entries)]
  /\ intact' = TRUE
  /\ phase' = "open"
  /\ UNCHANGED <<superblock, pending, reader, logged>>

\* increaseGeneration, its second write.
EmptyFirstBlock ==
  /\ phase = "beginning"
  /\ block' = [block EXCEPT ![1] = LogBlock(<<>>)]
  /\ intact' = TRUE
  /\ phase' = "open"
  /\ UNCHANGED <<superblock, pending, reader, logged>>

\* A fault: a superblock that is there is not looked at.
FormatAfresh ==
  /\ phase = "down"
  /\ superblock' = [valid |-> TRUE, generation |-> 0, size |-> 0]
  /\ phase' = "formatting"
  /\ UNCHANGED <<block, pending, reader, logged, intact>>

\* format at startup.  A valid superblock keeps its generation number, so that
\* no generation is used twice on one device.
format ==
  /\ phase = "down"
  /\ \/ superblock.valid /\ BeginGeneration
     \/ /\ ~superblock.valid
        /\ superblock' = [valid |-> TRUE, generation |-> 0, size |-> 0]
        /\ phase' = "formatting"
        /\ UNCHANGED <<block, pending, reader, logged, intact>>

FormatGeneration == phase = "formatting" /\ BeginGeneration

-----------------------------------------------------------------------------
\* A fault: one entry too many.
FullTooLate == Len(current.entries) > BlockEntries

Full == Len(current.entries) = BlockEntries

\* Blocks are taken up to the end of the device; _logMaxBlock is not asked.
NoSpace == Full /\ superblock.size = DeviceBlocks

\* logOperation, when the last block has room: one write.
AppendEntry(e) ==
  /\ phase = "open"
  /\ ~Full
  /\ block' = [block EXCEPT ![superblock.size].entries = Append(@, e)]
  /\ logged' = Append(logged, e)
  /\ UNCHANGED <<superblock, phase, pending, reader, intact>>

\* logOperation, when it has none: the superblock is written first...
Extend(e) ==
  /\ phase = "open"
  /\ Full /\ ~NoSpace
  /\ superblock' = [superblock EXCEPT !.size = @ + 1]
  /\ pending' = e
  /\ phase' = "extending"
  /\ UNCHANGED <<block, reader, logged, intact>>

\* A fault: the new block is not written until it has another entry.
NewBlockInMemory ==
  /\ phase = "extending"
  /\ logged' = Append(logged, pending)
  /\ phase' = "open"
  /\ UNCHANGED <<disk, pending, reader, intact>>

\* ... and then the block it already counts.
WriteNewBlock ==
  /\ phase = "extending"
  /\ block' = [block EXCEPT ![superblock.size] = LogBlock(<<pending>>)]
  /\ logged' = Append(logged, pending)
  /\ phase' = "open"
  /\ UNCHANGED <<superblock, pending, reader, intact>>

\* logOperation returns NO_SPACE and changes nothing.
Refuse == phase = "open" /\ NoSpace /\ UNCHANGED vars

logOperation(e) == AppendEntry(e) \/ Extend(e) \/ Refuse

-----------------------------------------------------------------------------
\* init at startup.  Without a log block (size = 0) the block before the first
\* is taken for one: the superblock itself, behind which its block holds what
\* the device held, or on a device of zeroes no block at all.
init ==
  /\ phase = "down"
  /\ LET ok == superblock.valid /\ superblock.size > 0 /\ current.valid
     IN phase' = IF ok THEN "open" ELSE "exited"
  /\ UNCHANGED <<disk, pending, reader, logged, intact>>

readLog ==
  /\ phase = "open"
  /\ LET ok == block[1].valid
     IN /\ phase' = IF ok THEN "reading" ELSE "exited"
        /\ reader' = IF ok THEN [NoReader EXCEPT !.block = 1] ELSE NoReader
  /\ UNCHANGED <<disk, pending, logged, intact>>

\* A fault: only the block at hand is looked at.
HasNextInBlock == reader.index < Len(block[reader.block].entries)

hasNext == \/ reader.block < superblock.size
           \/ reader.index < Len(block[reader.block].entries)

\* entries[i] of block b, counted from 0.
Slot(b, i) == IF i < Len(block[b].entries) THEN block[b].entries[i + 1]
                                           ELSE ZeroEntry

\* Where getNext reads: at the end of a block, slot 0 of the next one, whether
\* or not that block has any entries.
NextPosition ==
  IF reader.index = Len(block[reader.block].entries)
  THEN [block |-> reader.block + 1, index |-> 0]
  ELSE [block |-> reader.block, index |-> reader.index]

\* The entry the getNext below returns.
NextEntry == Slot(NextPosition.block, NextPosition.index)

getNext ==
  /\ phase = "reading"
  /\ hasNext
  /\ IF block[NextPosition.block].valid /\ NextPosition.index < BlockEntries
     THEN /\ reader' = [block |-> NextPosition.block,
                        index |-> NextPosition.index + 1,
                        got   |-> Append(reader.got, NextEntry)]
          /\ UNCHANGED phase
     ELSE phase' = "exited" /\ reader' = NoReader
  /\ UNCHANGED <<disk, pending, logged, intact>>

\* A fault: the log is not told that the reader is done.
CloseReaderOnly ==
  /\ phase = "reading"
  /\ ~hasNext
  /\ UNCHANGED vars

close ==
  /\ phase = "reading"
  /\ ~hasNext
  /\ phase' = "open"
  /\ reader' = NoReader
  /\ UNCHANGED <<disk, pending, logged, intact>>

\* The process dies, in the middle of a call or not; or a process that has
\* exited is started again.
Crash ==
  /\ phase # "down"
  /\ phase' = "down"
  /\ intact' = (intact /\ phase # "extending")
  /\ pending' = ZeroEntry
  /\ reader' = NoReader
  /\ UNCHANGED <<disk, logged>>

-----------------------------------------------------------------------------
Next ==
  \/ format \/ FormatGeneration
  \/ increaseGeneration \/ EmptyFirstBlock
  \/ \E e \in Entry : logOperation(e)
  \/ WriteNewBlock
  \/ init \/ readLog \/ getNext \/ close
  \/ Crash

\* A reader is read to its end: recover() does nothing else meanwhile.
Spec == Init /\ [][Next]_vars /\ WF_vars(getNext \/ close)

-----------------------------------------------------------------------------
TypeOK ==
  /\ superblock \in [valid : BOOLEAN, generation : 0 .. MaxGeneration,
                     size : 0 .. DeviceBlocks]
  /\ \A i \in Blocks :
       /\ block[i].valid \in BOOLEAN
       /\ block[i].generation \in 0 .. MaxGeneration
       /\ block[i].entries \in Seq(Entry) /\ Len(block[i].entries) <= BlockEntries
  /\ phase \in Phases
  /\ pending \in Entry \cup {ZeroEntry}
  /\ reader.got \in Seq(Entry \cup {ZeroEntry})
  /\ intact \in BOOLEAN

Done == phase = "reading" /\ ~hasNext

\* While no crash has fallen between the two writes of a call, a reader returns
\* what logOperation wrote in this generation: nothing older, whatever the
\* blocks held before, nothing twice, in order across block boundaries.
ReadsBack == Done /\ intact => reader.got = logged

\* s is t with some elements left out: each element of s has a place in t, in
\* order.
IsSubsequence(s, t) ==
  \E place \in [1 .. Len(s) -> 1 .. Len(t)] :
    \A i \in 1 .. Len(s) :
      t[place[i]] = s[i] /\ \A j \in 1 .. i - 1 : place[j] < place[i]

\* Whatever the crashes, a reader that gets to the end has returned every entry
\* that was written, in order, though perhaps with others between them.
NothingWrittenIsLost == Done => IsSubsequence(logged, reader.got)

\* No invariant(...) of init or the reader stops the process from starting
\* unless a crash fell between two writes.
StartsAgain == phase = "exited" => ~intact

\* A generation number names one log for the life of the device: it never
\* comes back, through crashes and formats, and within one generation blocks
\* are only added.  Checkpoints are matched to logs by this number.
GenerationsOnlyGrow ==
  [][superblock.valid =>
       \/ superblock'.generation = superblock.generation + 1
       \/ /\ superblock'.generation = superblock.generation
          /\ superblock'.size >= superblock.size]_superblock

\* A reader comes to its end: getNext always moves on.
ReaderFinishes == phase = "reading" ~> phase # "reading"

-----------------------------------------------------------------------------
\* What the source says of the log and a run refutes.

\* log_manager.cc:30, "First valid log block of this generation.": read from
\* there to its end, the log is what was logged in this generation.
ReadsOnlyThisGeneration == Done => reader.got = logged
=============================================================================
