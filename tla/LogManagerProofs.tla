-------------------------- MODULE LogManagerProofs --------------------------
(***************************************************************************)
(* Proofs about LogManager, for any entries, block size, device and bound  *)
(* on the generations.  Inv says what an intact log holds, entry by entry; *)
(* LogKept, on top of it, what a log holds whatever crashes it has seen.   *)
(***************************************************************************)
EXTENDS LogManager, SequenceTheorems, TLAPS

\* How many entries the blocks before block i hold, when they are full.
Start(i) == (i - 1) * BlockEntries

Contents == [valid : BOOLEAN, generation : 0 .. MaxGeneration, entries : Seq(Entry)]

Shape ==
  /\ block \in [Blocks -> Contents]
  /\ reader \in [block : 0 .. DeviceBlocks, index : 0 .. BlockEntries,
                 got : Seq(Entry \cup {ZeroEntry})]
  /\ logged \in Seq(Entry)
  /\ phase \in {"open", "beginning", "extending", "reading"} =>
       superblock.size > 0 /\ superblock.valid
  /\ phase = "beginning" => superblock.size = 1 /\ logged = <<>>
  /\ phase = "extending" => pending \in Entry
  /\ phase = "reading" => reader.block \in 1 .. superblock.size

\* The last block that was written.
Last == IF phase = "extending" THEN superblock.size - 1 ELSE superblock.size

\* While intact, the blocks of the log hold what was logged, one after the
\* other: all are valid, all but the last are full, and only the first can be
\* empty.
Written ==
  intact =>
    /\ superblock.valid /\ phase \notin {"formatting", "beginning", "exited"}
    /\ Last \in Blocks
    /\ \A i \in 1 .. Last :
         /\ block[i].valid
         /\ i < Last => Len(block[i].entries) = BlockEntries
         /\ i > 1 => Len(block[i].entries) > 0
    /\ phase = "extending" => Len(block[Last].entries) = BlockEntries
    /\ Len(logged) = Start(Last) + Len(block[Last].entries)
    /\ \A i \in 1 .. Last : \A j \in 1 .. Len(block[i].entries) :
         /\ Start(i) + j \in 1 .. Len(logged)
         /\ logged[Start(i) + j] = block[i].entries[j]

\* While intact, a reader has returned what is logged up to where it is.
ReadSoFar ==
  intact /\ phase = "reading" =>
    /\ reader.index <= Len(block[reader.block].entries)
    /\ Len(reader.got) = Start(reader.block) + reader.index
    /\ \A x \in 1 .. Len(reader.got) : x <= Len(logged) /\ reader.got[x] = logged[x]

Inv == TypeOK /\ Shape /\ Written /\ ReadSoFar

-----------------------------------------------------------------------------
LEMMA StartIs ==
  /\ Start(1) = 0
  /\ \A i \in Nat \ {0} : Start(i) \in Nat /\ Start(i + 1) = Start(i) + BlockEntries
<1>1. BlockEntries \in Nat \ {0}
  BY LogSizes
<1>2. Start(1) = 0
  BY <1>1 DEF Start
<1>3. ASSUME NEW i \in Nat \ {0}
      PROVE  Start(i) \in Nat /\ Start(i + 1) = Start(i) + BlockEntries
  BY <1>1 DEF Start
<1> QED
  BY <1>2, <1>3

LEMMA InitHasInv ==
  ASSUME Init
  PROVE  Inv
<1>1. PICK blank \in BOOLEAN, zeroed \in BOOLEAN :
        /\ superblock = [valid |-> blank, generation |-> 0, size |-> 0]
        /\ block = [i \in Blocks |->
                      [valid |-> zeroed, generation |-> 0, entries |-> <<>>]]
  BY DEF Init
<1>2. /\ phase = "down" /\ pending = ZeroEntry /\ reader = NoReader
      /\ logged = <<>> /\ intact = FALSE
  BY DEF Init
<1>3. 0 \in 0 .. MaxGeneration /\ 0 \in 0 .. DeviceBlocks /\ 0 \in 0 .. BlockEntries
  BY LogSizes
<1>4. <<>> \in Seq(Entry) /\ <<>> \in Seq(Entry \cup {ZeroEntry}) /\ Len(<<>>) = 0
  OBVIOUS
<1>5. block \in [Blocks -> Contents]
  BY <1>1, <1>3, <1>4 DEF Contents
<1>6. \A i \in Blocks : Len(block[i].entries) <= BlockEntries
  BY <1>1, <1>4, LogSizes
<1>7. TypeOK
  BY <1>1, <1>2, <1>3, <1>4, <1>5, <1>6 DEF TypeOK, Contents, NoReader, Phases
<1>8. Shape
  BY <1>2, <1>3, <1>4, <1>5 DEF Shape, NoReader
<1>9. Written /\ ReadSoFar
  BY <1>2 DEF Written, ReadSoFar
<1> QED
  BY <1>7, <1>8, <1>9 DEF Inv

LEMMA BeginKeepsInv ==
  ASSUME Inv, BeginGeneration
  PROVE  Inv'
<1>1. /\ superblock' = [valid |-> TRUE, generation |-> superblock.generation + 1,
                        size |-> 1]
      /\ logged' = <<>> /\ intact' = FALSE /\ phase' = "beginning"
      /\ UNCHANGED <<block, pending, reader>>
  BY DEF BeginGeneration
<1>2. superblock' \in [valid : BOOLEAN, generation : 0 .. MaxGeneration,
                       size : 0 .. DeviceBlocks]
  <2>1. superblock.generation \in 0 .. MaxGeneration /\ superblock.generation < MaxGeneration
    BY DEF BeginGeneration, Inv, TypeOK
  <2>2. superblock.generation + 1 \in 0 .. MaxGeneration /\ 1 \in 0 .. DeviceBlocks
    BY <2>1, LogSizes
  <2> QED
    BY <1>1, <2>2
<1>3. TypeOK'
  BY <1>1, <1>2 DEF Inv, TypeOK, Phases
<1>4. Shape'
  BY <1>1 DEF Inv, Shape
<1>5. Written' /\ ReadSoFar'
  BY <1>1 DEF Written, ReadSoFar
<1> QED
  BY <1>3, <1>4, <1>5 DEF Inv

\* A block that is written with at most as many entries as it can hold.
LEMMA WriteBlock ==
  ASSUME Inv, NEW k \in Blocks, NEW c \in Contents, Len(c.entries) <= BlockEntries,
         block' = [block EXCEPT ![k] = c]
  PROVE  /\ block'[k] = c /\ \A i \in Blocks : i # k => block'[i] = block[i]
         /\ block' \in [Blocks -> Contents]
         /\ \A i \in Blocks :
              /\ block'[i].valid \in BOOLEAN
              /\ block'[i].generation \in 0 .. MaxGeneration
              /\ block'[i].entries \in Seq(Entry) /\ Len(block'[i].entries) <= BlockEntries
<1>1. block \in [Blocks -> Contents]
  BY DEF Inv, Shape
<1>2. block'[k] = c /\ \A i \in Blocks : i # k => block'[i] = block[i]
  BY <1>1
<1>3. block' \in [Blocks -> Contents]
  BY <1>1
<1>4. \A i \in Blocks : Len(block'[i].entries) <= BlockEntries
  BY <1>2 DEF Inv, TypeOK
<1>5. \A i \in Blocks : /\ block'[i].valid \in BOOLEAN
                        /\ block'[i].generation \in 0 .. MaxGeneration
                        /\ block'[i].entries \in Seq(Entry)
  BY <1>3 DEF Contents
<1> QED
  BY <1>2, <1>3, <1>4, <1>5

LEMMA LogBlockIs ==
  ASSUME Inv, NEW s \in Seq(Entry)
  PROVE  /\ LogBlock(s) \in Contents /\ LogBlock(s).entries = s /\ LogBlock(s).valid
BY DEF Inv, TypeOK, LogBlock, Contents

LEMMA EmptyKeepsInv ==
  ASSUME Inv, EmptyFirstBlock
  PROVE  Inv'
<1>1. /\ phase = "beginning" /\ phase' = "open" /\ intact' = TRUE
      /\ block' = [block EXCEPT ![1] = LogBlock(<<>>)]
      /\ UNCHANGED <<superblock, pending, reader, logged>>
  BY DEF EmptyFirstBlock
<1>2. /\ superblock.size = 1 /\ superblock.valid /\ logged = <<>>
      /\ 1 \in Blocks /\ <<>> \in Seq(Entry) /\ Len(<<>>) = 0
  BY <1>1, LogSizes DEF Inv, Shape, Blocks
<1>3. Len(LogBlock(<<>>).entries) <= BlockEntries
  <2>1. LogBlock(<<>>).entries = <<>>
    BY <1>2, LogBlockIs
  <2>2. 0 <= BlockEntries
    BY LogSizes
  <2> QED
    BY <1>2, <2>1, <2>2
<1>4. /\ block'[1] = LogBlock(<<>>) /\ block' \in [Blocks -> Contents]
      /\ \A i \in Blocks :
           /\ block'[i].valid \in BOOLEAN
           /\ block'[i].generation \in 0 .. MaxGeneration
           /\ block'[i].entries \in Seq(Entry) /\ Len(block'[i].entries) <= BlockEntries
  BY <1>1, <1>2, <1>3, LogBlockIs, WriteBlock
<1>5. TypeOK'
  BY <1>1, <1>4 DEF Inv, TypeOK, Phases
<1>6. Shape'
  BY <1>1, <1>2, <1>4 DEF Inv, Shape
<1>7. Written'
  <2>1. Last' = 1
    BY <1>1, <1>2 DEF Last
  <2>2. block'[1].valid /\ block'[1].entries = <<>>
    BY <1>2, <1>4, LogBlockIs
  <2> QED
    BY <1>1, <1>2, <2>1, <2>2, StartIs DEF Written
<1>8. ReadSoFar'
  BY <1>1 DEF ReadSoFar
<1> QED
  BY <1>5, <1>6, <1>7, <1>8 DEF Inv

\* format on a device without a superblock.
LEMMA FormatKeepsInv ==
  ASSUME Inv, phase = "down", ~superblock.valid,
         superblock' = [valid |-> TRUE, generation |-> 0, size |-> 0],
         phase' = "formatting", UNCHANGED <<block, pending, reader, logged, intact>>
  PROVE  Inv'
<1>1. superblock' \in [valid : BOOLEAN, generation : 0 .. MaxGeneration,
                       size : 0 .. DeviceBlocks]
  BY LogSizes
<1>2. TypeOK'
  BY <1>1 DEF Inv, TypeOK, Phases
<1>3. Shape'
  BY DEF Inv, Shape
<1>4. Written' /\ ReadSoFar'
  BY DEF Inv, Written, ReadSoFar
<1> QED
  BY <1>2, <1>3, <1>4 DEF Inv

-----------------------------------------------------------------------------
\* logOperation.
LEMMA AppendKeepsInv ==
  ASSUME Inv, NEW e \in Entry, AppendEntry(e)
  PROVE  Inv'
<1> DEFINE k == superblock.size
           s == block[k].entries
           c == [block[k] EXCEPT !.entries = Append(s, e)]
<1>1. /\ phase = "open" /\ Len(s) # BlockEntries
      /\ logged' = Append(logged, e)
      /\ UNCHANGED <<superblock, phase, pending, reader, intact>>
  BY DEF AppendEntry, Full, current
<1>2. /\ k \in Blocks /\ logged \in Seq(Entry) /\ s \in Seq(Entry) /\ block[k] \in Contents
      /\ Len(s) \in Nat /\ Len(s) < BlockEntries
  BY <1>1, LogSizes DEF Inv, Shape, TypeOK, Blocks
<1>3. block' = [block EXCEPT ![k] = c]
  BY DEF AppendEntry
<1>4. /\ c \in Contents /\ c.entries = Append(s, e) /\ c.valid = block[k].valid
      /\ Len(c.entries) = Len(s) + 1
  <2>1. Append(s, e) \in Seq(Entry) /\ Len(Append(s, e)) = Len(s) + 1
    BY <1>2
  <2> HIDE DEF s
  <2>2. c \in Contents /\ c.entries = Append(s, e) /\ c.valid = block[k].valid
    BY <1>2, <2>1 DEF Contents
  <2> QED
    BY <2>1, <2>2
<1> HIDE DEF c
<1>5. Len(c.entries) <= BlockEntries
  BY <1>2, <1>4, LogSizes
<1> HIDE DEF k, s
<1>6. /\ block'[k] = c /\ \A i \in Blocks : i # k => block'[i] = block[i]
      /\ block' \in [Blocks -> Contents]
      /\ \A i \in Blocks :
           /\ block'[i].valid \in BOOLEAN
           /\ block'[i].generation \in 0 .. MaxGeneration
           /\ block'[i].entries \in Seq(Entry) /\ Len(block'[i].entries) <= BlockEntries
  BY <1>2, <1>3, <1>4, <1>5, WriteBlock
<1>7. TypeOK'
  BY <1>1, <1>6 DEF Inv, TypeOK
<1>8. Shape'
  BY <1>1, <1>2, <1>6 DEF Inv, Shape
<1>9. Written'
  <2> SUFFICES ASSUME intact PROVE Written'
    BY <1>1 DEF Written
  <2>1. /\ superblock.valid /\ Last = k /\ Last' = k
        /\ \A i \in 1 .. k :
             /\ block[i].valid
             /\ i < k => Len(block[i].entries) = BlockEntries
             /\ i > 1 => Len(block[i].entries) > 0
        /\ Len(logged) = Start(k) + Len(s)
        /\ \A i \in 1 .. k : \A j \in 1 .. Len(block[i].entries) :
             /\ Start(i) + j \in 1 .. Len(logged)
             /\ logged[Start(i) + j] = block[i].entries[j]
    BY <1>1 DEF Inv, Written, Last, k, s
  <2>2. /\ k \in 1 .. DeviceBlocks /\ 1 .. k \subseteq Blocks
        /\ Start(k) \in Nat
    <3>1. k \in 1 .. DeviceBlocks /\ k \in Nat \ {0}
      BY <1>2, LogSizes DEF Blocks
    <3>2. 1 .. k \subseteq Blocks
      BY <3>1, LogSizes DEF Blocks
    <3> QED
      BY <3>1, <3>2, StartIs
  <2>3. /\ Len(logged') = Len(logged) + 1 /\ logged'[Len(logged) + 1] = e
        /\ \A x \in 1 .. Len(logged) : logged'[x] = logged[x]
    BY <1>1, <1>2
  <2>4. /\ c.entries[Len(s) + 1] = e
        /\ \A j \in 1 .. Len(s) : c.entries[j] = s[j]
    BY <1>2, <1>4
  <2>5. \A i \in 1 .. k : /\ block'[i].valid
                          /\ i < k => Len(block'[i].entries) = BlockEntries
                          /\ i > 1 => Len(block'[i].entries) > 0
    <3>1. block'[k].valid /\ Len(block'[k].entries) = Len(s) + 1
      <4>1. k \in 1 .. k
        BY <2>2
      <4> QED
        BY <1>4, <1>6, <2>1, <4>1
    <3>2. \A i \in 1 .. k : i # k => block'[i] = block[i]
      BY <1>6, <2>2
    <3>3. Len(s) + 1 > 0 /\ ~(k < k)
      BY <1>2, <2>2
    <3> QED
      BY <2>1, <3>1, <3>2, <3>3
  <2>6. Len(logged') = Start(k) + Len(block'[k].entries)
    BY <1>2, <1>4, <1>6, <2>1, <2>2, <2>3
  <2>7. ASSUME NEW i \in 1 .. k, NEW j \in 1 .. Len(block'[i].entries)
        PROVE  /\ Start(i) + j \in 1 .. Len(logged')
               /\ logged'[Start(i) + j] = block'[i].entries[j]
    <3>1. CASE i # k
      <4>1. block'[i] = block[i]
        BY <1>6, <2>2, <3>1
      <4>2. Start(i) + j \in 1 .. Len(logged) /\ logged[Start(i) + j] = block[i].entries[j]
        BY <2>1, <4>1
      <4>3. Len(logged) \in Nat
        BY <1>2
      <4> QED
        BY <2>3, <4>1, <4>2, <4>3
    <3>2. CASE i = k /\ j <= Len(s)
      <4>1. j \in 1 .. Len(s) /\ block[i].entries = s
        BY <1>2, <3>2 DEF s
      <4>2. Start(i) + j \in 1 .. Len(logged) /\ logged[Start(i) + j] = s[j]
        BY <2>1, <4>1
      <4>3. Len(logged) \in Nat /\ block'[i].entries[j] = s[j]
        BY <1>2, <1>6, <2>4, <3>2, <4>1
      <4> QED
        BY <2>3, <4>2, <4>3
    <3>3. CASE i = k /\ j = Len(s) + 1
      BY <1>2, <1>6, <2>1, <2>2, <2>3, <2>4, <3>3
    <3> QED
      BY <1>2, <1>4, <1>6, <3>1, <3>2, <3>3
  <2> QED
    BY <1>1, <1>2, <2>1, <2>5, <2>6, <2>7 DEF Written
<1>10. ReadSoFar'
  BY <1>1 DEF ReadSoFar
<1> QED
  BY <1>7, <1>8, <1>9, <1>10 DEF Inv

LEMMA ExtendKeepsInv ==
  ASSUME Inv, NEW e \in Entry, Extend(e)
  PROVE  Inv'
<1>1. /\ phase = "open" /\ phase' = "extending" /\ pending' = e
      /\ Len(block[superblock.size].entries) = BlockEntries
      /\ superblock.size # DeviceBlocks
      /\ superblock' = [superblock EXCEPT !.size = @ + 1]
      /\ UNCHANGED <<block, reader, logged, intact>>
  BY DEF Extend, Full, NoSpace, current
<1>2. /\ superblock \in [valid : BOOLEAN, generation : 0 .. MaxGeneration,
                         size : 0 .. DeviceBlocks]
      /\ superblock.size > 0 /\ superblock.valid
  BY <1>1 DEF Inv, TypeOK, Shape
<1>3. /\ superblock' \in [valid : BOOLEAN, generation : 0 .. MaxGeneration,
                          size : 0 .. DeviceBlocks]
      /\ superblock'.size = superblock.size + 1 /\ superblock'.valid
  BY <1>1, <1>2, LogSizes
<1>4. TypeOK'
  BY <1>1, <1>3 DEF Inv, TypeOK, Phases
<1>5. Shape'
  BY <1>1, <1>2, <1>3 DEF Inv, Shape
<1>6. Written'
  <2>1. Last = superblock.size /\ Last' = superblock.size
    BY <1>1, <1>2, <1>3 DEF Last
  <2> QED
    BY <1>1, <1>3, <2>1 DEF Inv, Written
<1>7. ReadSoFar'
  BY <1>1 DEF ReadSoFar
<1> QED
  BY <1>4, <1>5, <1>6, <1>7 DEF Inv

LEMMA NewBlockKeepsInv ==
  ASSUME Inv, WriteNewBlock
  PROVE  Inv'
<1> DEFINE k == superblock.size
           c == LogBlock(<<pending>>)
<1>1. /\ phase = "extending" /\ phase' = "open"
      /\ logged' = Append(logged, pending)
      /\ UNCHANGED <<superblock, pending, reader, intact>>
      /\ block' = [block EXCEPT ![k] = c]
  BY DEF WriteNewBlock
<1>2. /\ k \in Blocks /\ logged \in Seq(Entry) /\ pending \in Entry /\ superblock.valid
      /\ <<pending>> \in Seq(Entry) /\ Len(<<pending>>) = 1
  BY <1>1, LogSizes DEF Inv, Shape, TypeOK, Blocks
<1>3. c \in Contents /\ c.entries = <<pending>> /\ c.valid
  BY <1>2, LogBlockIs
<1> HIDE DEF c, k
<1>4. Len(c.entries) <= BlockEntries
  BY <1>2, <1>3, LogSizes
<1>5. /\ block'[k] = c /\ \A i \in Blocks : i # k => block'[i] = block[i]
      /\ block' \in [Blocks -> Contents]
      /\ \A i \in Blocks :
           /\ block'[i].valid \in BOOLEAN
           /\ block'[i].generation \in 0 .. MaxGeneration
           /\ block'[i].entries \in Seq(Entry) /\ Len(block'[i].entries) <= BlockEntries
  BY <1>1, <1>2, <1>3, <1>4, WriteBlock
<1>6. TypeOK'
  BY <1>1, <1>5 DEF Inv, TypeOK, Phases
<1>7. Shape'
  BY <1>1, <1>2, <1>5 DEF Inv, Shape
<1>8. Written'
  <2> SUFFICES ASSUME intact PROVE Written'
    BY <1>1 DEF Written
  <2>1. /\ Last = k - 1 /\ Last' = k
        /\ Last \in Blocks
        /\ \A i \in 1 .. k - 1 :
             /\ block[i].valid
             /\ i < k - 1 => Len(block[i].entries) = BlockEntries
             /\ i > 1 => Len(block[i].entries) > 0
        /\ Len(block[k - 1].entries) = BlockEntries
        /\ Len(logged) = Start(k - 1) + Len(block[k - 1].entries)
        /\ \A i \in 1 .. k - 1 : \A j \in 1 .. Len(block[i].entries) :
             /\ Start(i) + j \in 1 .. Len(logged)
             /\ logged[Start(i) + j] = block[i].entries[j]
    BY <1>1 DEF Inv, Written, Last, k
  <2>2. /\ k \in 1 .. DeviceBlocks /\ 1 .. k \subseteq Blocks /\ k - 1 \in Nat \ {0}
        /\ k \notin 1 .. k - 1
    BY <1>2, <2>1, LogSizes DEF Blocks
  <2>3. Len(logged) = Start(k) /\ Start(k) \in Nat
    <3>1. Start((k - 1) + 1) = Start(k - 1) + BlockEntries
      BY <2>2, StartIs
    <3>2. (k - 1) + 1 = k /\ k \in Nat \ {0}
      BY <2>2
    <3> QED
      BY <2>1, <3>1, <3>2, StartIs
  <2>4. /\ Len(logged') = Len(logged) + 1 /\ logged'[Len(logged) + 1] = pending
        /\ \A x \in 1 .. Len(logged) : logged'[x] = logged[x]
    BY <1>1, <1>2
  <2>5. /\ block'[k].valid /\ Len(block'[k].entries) = 1 /\ block'[k].entries[1] = pending
        /\ \A i \in 1 .. k - 1 : block'[i] = block[i]
    <3>1. \A i \in 1 .. k - 1 : i \in Blocks /\ i # k
      BY <2>2
    <3>2. block'[k].valid /\ block'[k].entries = <<pending>>
      BY <1>3, <1>5
    <3> QED
      BY <1>2, <1>5, <3>1, <3>2
  <2>6. \A i \in 1 .. k : /\ block'[i].valid
                          /\ i < k => Len(block'[i].entries) = BlockEntries
                          /\ i > 1 => Len(block'[i].entries) > 0
    BY <2>1, <2>2, <2>5
  <2>7. ASSUME NEW i \in 1 .. k, NEW j \in 1 .. Len(block'[i].entries)
        PROVE  /\ Start(i) + j \in 1 .. Len(logged')
               /\ logged'[Start(i) + j] = block'[i].entries[j]
    <3>1. CASE i # k
      <4>1. i \in 1 .. k - 1 /\ j \in 1 .. Len(block[i].entries)
        BY <2>2, <2>5, <3>1
      <4>2. Start(i) + j \in 1 .. Len(logged) /\ logged[Start(i) + j] = block[i].entries[j]
        BY <2>1, <4>1
      <4>3. Len(logged) \in Nat /\ block'[i] = block[i]
        BY <1>2, <2>5, <4>1
      <4> QED
        BY <2>4, <4>2, <4>3
    <3>2. CASE i = k
      <4>1. j = 1 /\ block'[i].entries[j] = pending
        <5>1. block'[i] = block'[k]
          BY <3>2
        <5>2. j \in 1 .. 1
          BY <2>5, <5>1
        <5>3. j = 1
          BY <5>2
        <5> QED
          BY <2>5, <5>1, <5>3
      <4>2. Start(i) + j = Len(logged) + 1 /\ Len(logged) \in Nat
        BY <1>2, <2>3, <3>2, <4>1
      <4> QED
        BY <2>4, <4>1, <4>2
    <3> QED
      BY <3>1, <3>2
  <2>8. Len(logged') = Start(k) + Len(block'[k].entries)
    BY <2>3, <2>4, <2>5
  <2> QED
    BY <1>1, <1>2, <2>1, <2>6, <2>7, <2>8 DEF Written
<1>9. ReadSoFar'
  BY <1>1 DEF ReadSoFar
<1> QED
  BY <1>6, <1>7, <1>8, <1>9 DEF Inv

-----------------------------------------------------------------------------
\* Startup and the reader.
LEMMA InitCallKeepsInv ==
  ASSUME Inv, init
  PROVE  Inv'
<1>1. /\ phase = "down" /\ UNCHANGED <<superblock, block, pending, reader, logged, intact>>
      /\ \/ /\ phase' = "open"
            /\ superblock.valid /\ superblock.size > 0
         \/ /\ phase' = "exited"
            /\ ~(superblock.valid /\ superblock.size > 0 /\ block[superblock.size].valid)
  BY DEF init, disk, current
<1>2. TypeOK'
  BY <1>1 DEF Inv, TypeOK, Phases
<1>3. Shape'
  BY <1>1 DEF Inv, Shape
<1>4. Last' = Last /\ Last = superblock.size
  BY <1>1 DEF Last
<1>5. intact => phase' = "open"
  <2>1. intact => superblock.valid /\ superblock.size \in Blocks /\ block[superblock.size].valid
    BY <1>4, LogSizes DEF Inv, Written, Blocks
  <2> QED
    BY <1>1, <2>1, LogSizes DEF Blocks
<1>6. Written'
  BY <1>1, <1>4, <1>5 DEF Inv, Written
<1>7. ReadSoFar'
  BY <1>1 DEF ReadSoFar
<1> QED
  BY <1>2, <1>3, <1>6, <1>7 DEF Inv

LEMMA ReadLogKeepsInv ==
  ASSUME Inv, readLog
  PROVE  Inv'
<1>1. /\ phase = "open" /\ UNCHANGED <<superblock, block, pending, logged, intact>>
      /\ \/ /\ phase' = "reading" /\ reader' = [block |-> 1, index |-> 0, got |-> <<>>]
         \/ phase' = "exited" /\ reader' = NoReader /\ ~block[1].valid
  BY DEF readLog, disk, NoReader
<1>2. superblock.size \in 1 .. DeviceBlocks /\ superblock.valid
  BY <1>1 DEF Inv, TypeOK, Shape
<1>3. <<>> \in Seq(Entry \cup {ZeroEntry}) /\ Len(<<>>) = 0
  OBVIOUS
<1>4. reader' \in [block : 0 .. DeviceBlocks, index : 0 .. BlockEntries,
                   got : Seq(Entry \cup {ZeroEntry})]
  <2>1. 0 \in 0 .. DeviceBlocks /\ 1 \in 0 .. DeviceBlocks /\ 0 \in 0 .. BlockEntries
    BY LogSizes
  <2>2. reader'.got = <<>> /\ reader'.index = 0 /\ reader'.block \in {0, 1}
        /\ reader' = [block |-> reader'.block, index |-> 0, got |-> <<>>]
    BY <1>1 DEF NoReader
  <2> QED
    BY <1>3, <2>1, <2>2
<1>5. TypeOK'
  BY <1>1, <1>4 DEF Inv, TypeOK, Phases
<1>6. Shape'
  <2>1. phase' = "reading" => reader'.block = 1 /\ 1 \in 1 .. superblock.size
    BY <1>1, <1>2
  <2> QED
    BY <1>1, <1>2, <1>4, <2>1 DEF Inv, Shape
<1>7. Last' = Last /\ Last = superblock.size
  BY <1>1 DEF Last
<1>8. intact => phase' = "reading"
  <2>1. 1 \in 1 .. Last
    BY <1>2, <1>7
  <2> QED
    BY <1>1, <2>1 DEF Inv, Written
<1>9. Written'
  BY <1>1, <1>7, <1>8 DEF Inv, Written
<1>10. ReadSoFar'
  <2>1. SUFFICES ASSUME intact, phase' = "reading"
                 PROVE  /\ reader'.index <= Len(block[reader'.block].entries)
                        /\ Len(reader'.got) = Start(reader'.block) + reader'.index
                        /\ \A x \in 1 .. Len(reader'.got) :
                             x <= Len(logged) /\ reader'.got[x] = logged[x]
    BY <1>1 DEF ReadSoFar
  <2>2. reader'.block = 1 /\ reader'.index = 0 /\ reader'.got = <<>>
    BY <1>1, <2>1
  <2>3. Len(block[1].entries) \in Nat
    <3>1. 1 \in Blocks
      BY LogSizes DEF Blocks
    <3>2. block[1].entries \in Seq(Entry)
      BY <3>1 DEF Inv, TypeOK
    <3> QED
      BY <3>2
  <2> QED
    BY <1>3, <2>2, <2>3, StartIs
<1> QED
  BY <1>5, <1>6, <1>9, <1>10 DEF Inv

\* Where getNext reads is a block of the log.
LEMMA NextIs ==
  ASSUME Inv, phase = "reading", hasNext
  PROVE  /\ NextPosition.block \in 1 .. superblock.size
         /\ NextPosition.block \in Blocks
         /\ NextPosition.index \in 0 .. BlockEntries
<1>1. /\ reader.block \in 1 .. superblock.size /\ reader.index \in 0 .. BlockEntries
      /\ superblock.size \in 0 .. DeviceBlocks
  BY DEF Inv, Shape, TypeOK
<1>2. NextPosition.block \in 1 .. superblock.size /\ NextPosition.index \in 0 .. BlockEntries
  <2>1. CASE reader.index = Len(block[reader.block].entries)
    <3>1. NextPosition = [block |-> reader.block + 1, index |-> 0]
      BY <2>1 DEF NextPosition
    <3>2. reader.block < superblock.size
      BY <1>1, <2>1 DEF hasNext
    <3>3. reader.block + 1 \in 1 .. superblock.size /\ 0 \in 0 .. BlockEntries
      BY <1>1, <3>2, LogSizes
    <3> QED
      BY <3>1, <3>3
  <2>2. CASE reader.index # Len(block[reader.block].entries)
    <3>1. NextPosition = [block |-> reader.block, index |-> reader.index]
      BY <2>2 DEF NextPosition
    <3> QED
      BY <1>1, <3>1
  <2> QED
    BY <2>1, <2>2
<1>3. NextPosition.block \in Blocks
  BY <1>1, <1>2, LogSizes DEF Blocks
<1> QED
  BY <1>2, <1>3

\* While intact it is the position behind what was returned so far.
LEMMA NextIsNext ==
  ASSUME Inv, phase = "reading", hasNext, intact
  PROVE  LET b == NextPosition.block
             i == NextPosition.index
         IN  /\ block[b].valid /\ i < BlockEntries
             /\ i + 1 <= Len(block[b].entries)
             /\ Len(reader.got) = Start(b) + i
             /\ Len(reader.got) + 1 <= Len(logged)
             /\ NextEntry = logged[Len(reader.got) + 1]
<1> DEFINE b == NextPosition.block
           i == NextPosition.index
           k == superblock.size
<1>1. /\ b \in 1 .. k /\ b \in Blocks /\ i \in 0 .. BlockEntries
      /\ Last = k /\ k \in 0 .. DeviceBlocks
      /\ reader.block \in 1 .. k /\ reader.index \in 0 .. BlockEntries
  BY NextIs DEF Last, Inv, Shape, TypeOK
<1>2. /\ block[b].valid /\ block[b].entries \in Seq(Entry)
      /\ Len(block[b].entries) \in Nat /\ Len(block[b].entries) <= BlockEntries
  BY <1>1 DEF Inv, Written, TypeOK
<1>3. /\ reader.index <= Len(block[reader.block].entries)
      /\ Len(reader.got) = Start(reader.block) + reader.index
  BY DEF Inv, ReadSoFar
<1>4. i < Len(block[b].entries) /\ Len(reader.got) = Start(b) + i
  <2>1. CASE reader.index = Len(block[reader.block].entries)
    <3>1. NextPosition = [block |-> reader.block + 1, index |-> 0]
      BY <2>1 DEF NextPosition
    <3>2. reader.block < k
      BY <1>1, <2>1 DEF hasNext
    <3>3. b = reader.block + 1 /\ i = 0 /\ b > 1
      BY <1>1, <3>1
    <3>4. Len(block[b].entries) > 0
      BY <1>1, <3>3 DEF Inv, Written
    <3>5. reader.index = BlockEntries
      BY <1>1, <2>1, <3>2 DEF Inv, Written
    <3>6. Start(b) = Start(reader.block) + BlockEntries /\ Start(b) \in Nat
      <4>1. reader.block \in Nat \ {0} /\ b \in Nat \ {0}
        BY <1>1, <3>3
      <4> QED
        BY <3>3, <4>1, StartIs
    <3> HIDE DEF b, i
    <3> QED
      BY <1>3, <3>3, <3>4, <3>5, <3>6
  <2>2. CASE reader.index # Len(block[reader.block].entries)
    <3>1. NextPosition = [block |-> reader.block, index |-> reader.index]
      BY <2>2 DEF NextPosition
    <3>2. b = reader.block /\ i = reader.index
      BY <3>1
    <3> HIDE DEF b, i
    <3> QED
      BY <1>1, <1>2, <1>3, <2>2, <3>2
  <2> QED
    BY <2>1, <2>2
<1>5. NextEntry = block[b].entries[i + 1]
  BY <1>4 DEF NextEntry, Slot
<1> HIDE DEF b, i
<1>6. i + 1 \in 1 .. Len(block[b].entries)
  BY <1>1, <1>2, <1>4
<1>7. /\ Start(b) + (i + 1) \in 1 .. Len(logged)
      /\ logged[Start(b) + (i + 1)] = block[b].entries[i + 1]
  BY <1>1, <1>6 DEF Inv, Written
<1>8. Start(b) \in Nat
  BY <1>1, StartIs
<1>9. Start(b) + (i + 1) = Len(reader.got) + 1
  BY <1>1, <1>4, <1>8
<1>10. Len(reader.got) + 1 <= Len(logged)
  BY <1>7, <1>9
<1>11. i < BlockEntries /\ i + 1 <= Len(block[b].entries)
  BY <1>1, <1>2, <1>4, <1>6, LogSizes
<1> QED
  BY <1>2, <1>4, <1>5, <1>7, <1>9, <1>10, <1>11 DEF b, i

LEMMA GetNextKeepsInv ==
  ASSUME Inv, getNext
  PROVE  Inv'
<1> DEFINE b == NextPosition.block
           i == NextPosition.index
           r == [block |-> b, index |-> i + 1, got |-> Append(reader.got, NextEntry)]
<1>1. /\ phase = "reading" /\ hasNext /\ UNCHANGED <<superblock, block, pending, logged, intact>>
      /\ \/ /\ block[b].valid /\ i < BlockEntries
            /\ reader' = r /\ phase' = "reading"
         \/ /\ ~(block[b].valid /\ i < BlockEntries)
            /\ phase' = "exited" /\ reader' = NoReader
  BY DEF getNext, disk
<1>2. b \in 1 .. superblock.size /\ b \in Blocks /\ i \in 0 .. BlockEntries
  BY <1>1, NextIs
<1>3. reader.got \in Seq(Entry \cup {ZeroEntry}) /\ superblock.size \in 0 .. DeviceBlocks
  BY DEF Inv, TypeOK
<1>4. NextEntry \in Entry \cup {ZeroEntry}
  <2>1. block[b].entries \in Seq(Entry)
    BY <1>2 DEF Inv, TypeOK
  <2>2. CASE i < Len(block[b].entries)
    <3>1. NextEntry = block[b].entries[i + 1]
      BY <2>2 DEF NextEntry, Slot
    <3>2. i + 1 \in 1 .. Len(block[b].entries)
      BY <1>2, <2>1, <2>2
    <3> HIDE DEF b, i
    <3> QED
      BY <2>1, <3>1, <3>2
  <2>3. CASE ~(i < Len(block[b].entries))
    BY <2>3 DEF NextEntry, Slot
  <2> QED
    BY <2>2, <2>3
<1> HIDE DEF b, i
<1>5. /\ Append(reader.got, NextEntry) \in Seq(Entry \cup {ZeroEntry})
      /\ Len(Append(reader.got, NextEntry)) = Len(reader.got) + 1
      /\ Append(reader.got, NextEntry)[Len(reader.got) + 1] = NextEntry
      /\ \A x \in 1 .. Len(reader.got) : Append(reader.got, NextEntry)[x] = reader.got[x]
  BY <1>3, <1>4
<1>6. reader' \in [block : 0 .. DeviceBlocks, index : 0 .. BlockEntries,
                   got : Seq(Entry \cup {ZeroEntry})]
  <2>1. CASE reader' = NoReader
    <3>1. 0 \in 0 .. DeviceBlocks /\ 0 \in 0 .. BlockEntries
          /\ <<>> \in Seq(Entry \cup {ZeroEntry})
      BY LogSizes
    <3> QED
      BY <2>1, <3>1 DEF NoReader
  <2>2. CASE reader' = r /\ i < BlockEntries
    <3>1. b \in 0 .. DeviceBlocks /\ i + 1 \in 0 .. BlockEntries
      BY <1>2, <1>3, <2>2, LogSizes
    <3> QED
      BY <1>5, <2>2, <3>1
  <2> QED
    BY <1>1, <2>1, <2>2
<1>7. TypeOK'
  BY <1>1, <1>6 DEF Inv, TypeOK, Phases
<1>8. Shape'
  BY <1>1, <1>2, <1>6 DEF Inv, Shape
<1>9. intact => reader' = r /\ phase' = "reading"
  BY <1>1, NextIsNext DEF b, i
<1>10. Written'
  <2>1. Last' = Last
    BY <1>1 DEF Last
  <2> QED
    BY <1>1, <1>9, <2>1 DEF Inv, Written
<1>11. ReadSoFar'
  <2>1. SUFFICES ASSUME intact, phase' = "reading"
                 PROVE  /\ reader'.index <= Len(block[reader'.block].entries)
                        /\ Len(reader'.got) = Start(reader'.block) + reader'.index
                        /\ \A x \in 1 .. Len(reader'.got) :
                             x <= Len(logged) /\ reader'.got[x] = logged[x]
    BY <1>1 DEF ReadSoFar
  <2>2. /\ i + 1 <= Len(block[b].entries)
        /\ Len(reader.got) = Start(b) + i
        /\ Len(reader.got) + 1 <= Len(logged)
        /\ NextEntry = logged[Len(reader.got) + 1]
    BY <1>1, <2>1, NextIsNext DEF b, i
  <2>3. /\ reader'.block = b /\ reader'.index = i + 1
        /\ reader'.got = Append(reader.got, NextEntry)
    BY <1>9, <2>1
  <2>4. Len(reader'.got) = Start(b) + (i + 1)
    <3>1. Start(b) \in Nat
      BY <1>2, StartIs
    <3> QED
      BY <1>2, <1>5, <2>2, <2>3, <3>1
  <2>5. ASSUME NEW x \in 1 .. Len(reader'.got)
        PROVE  x <= Len(logged) /\ reader'.got[x] = logged[x]
    <3>1. CASE x = Len(reader.got) + 1
      BY <1>5, <2>2, <2>3, <3>1
    <3>2. CASE x # Len(reader.got) + 1
      <4>1. x \in 1 .. Len(reader.got)
        BY <1>3, <1>5, <2>3, <3>2
      <4>2. x <= Len(logged) /\ reader.got[x] = logged[x]
        BY <1>1, <2>1, <4>1 DEF Inv, ReadSoFar
      <4> QED
        BY <1>5, <2>3, <4>1, <4>2
    <3> QED
      BY <3>1, <3>2
  <2> QED
    BY <2>2, <2>3, <2>4, <2>5
<1> QED
  BY <1>7, <1>8, <1>10, <1>11 DEF Inv

\* close, and every crash: the reader is gone and the device as it was.
LEMMA LeaveKeepsInv ==
  ASSUME Inv, UNCHANGED <<superblock, block, logged>>, reader' = NoReader,
         \/ phase = "reading" /\ phase' = "open" /\ UNCHANGED <<pending, intact>>
         \/ /\ phase' = "down" /\ pending' = ZeroEntry
            /\ intact' = (intact /\ phase # "extending")
  PROVE  Inv'
<1>1. NoReader \in [block : 0 .. DeviceBlocks, index : 0 .. BlockEntries,
                    got : Seq(Entry \cup {ZeroEntry})]
  <2>1. /\ 0 \in 0 .. DeviceBlocks /\ 0 \in 0 .. BlockEntries
        /\ <<>> \in Seq(Entry \cup {ZeroEntry})
    BY LogSizes
  <2> QED
    BY <2>1 DEF NoReader
<1>2. TypeOK'
  <2>1. reader'.got \in Seq(Entry \cup {ZeroEntry})
    BY <1>1
  <2> QED
    BY <2>1 DEF Inv, TypeOK, Phases
<1>3. Shape'
  BY <1>1 DEF Inv, Shape
<1>4. Written'
  <2>1. intact' => intact /\ Last' = Last /\ phase' # "extending"
    BY DEF Last
  <2> QED
    BY <2>1 DEF Inv, Written
<1>5. ReadSoFar'
  BY DEF ReadSoFar
<1> QED
  BY <1>2, <1>3, <1>4, <1>5 DEF Inv

-----------------------------------------------------------------------------
LEMMA StepKeepsInv ==
  ASSUME Inv, [Next]_vars
  PROVE  Inv'
<1>1. CASE UNCHANGED vars
  <2>1. UNCHANGED <<superblock, block, phase, pending, reader, logged, intact>>
    BY <1>1 DEF vars, disk
  <2> QED
    BY <2>1 DEF Inv, TypeOK, Shape, Written, ReadSoFar, Last
<1>2. CASE format
  BY <1>2, BeginKeepsInv, FormatKeepsInv DEF format
<1>3. CASE FormatGeneration \/ increaseGeneration
  BY <1>3, BeginKeepsInv DEF FormatGeneration, increaseGeneration
<1>4. ASSUME NEW e \in Entry, logOperation(e)
      PROVE  Inv'
  BY <1>1, <1>4, AppendKeepsInv, ExtendKeepsInv DEF logOperation, Refuse
<1>5. CASE close
  BY <1>5, LeaveKeepsInv DEF close, disk
<1>6. CASE Crash
  BY <1>6, LeaveKeepsInv DEF Crash, disk
<1> QED
  BY <1>1, <1>2, <1>3, <1>4, <1>5, <1>6, EmptyKeepsInv, NewBlockKeepsInv,
     InitCallKeepsInv, ReadLogKeepsInv, GetNextKeepsInv DEF Next

LEMMA InvAlways == Spec => []Inv
<1>1. Init => Inv
  BY InitHasInv
<1>2. Inv /\ [Next]_vars => Inv'
  BY StepKeepsInv
<1> QED
  BY <1>1, <1>2, PTL DEF Spec

\* Every state of the log is of the declared shape, and no block has more
\* entries than it can hold.
THEOREM TypeAlways == Spec => []TypeOK
<1>1. Inv => TypeOK
  BY DEF Inv
<1> QED
  BY <1>1, InvAlways, PTL

\* A reader at the end of an intact log has returned what was logged.
LEMMA ReadsItAll ==
  ASSUME Inv, Done, intact
  PROVE  reader.got = logged
<1> DEFINE k == superblock.size
<1>1. /\ phase = "reading" /\ ~(reader.block < k)
      /\ ~(reader.index < Len(block[reader.block].entries))
  BY DEF Done, hasNext
<1>2. /\ k \in 0 .. DeviceBlocks /\ reader.block \in 1 .. k
      /\ reader.index \in 0 .. BlockEntries
      /\ reader.got \in Seq(Entry \cup {ZeroEntry}) /\ logged \in Seq(Entry)
  BY <1>1 DEF Inv, Shape, TypeOK
<1>3. reader.block = k /\ Last = k /\ k \in Blocks
  BY <1>1, <1>2, LogSizes DEF Last, Blocks
<1>4. /\ reader.index <= Len(block[k].entries)
      /\ Len(reader.got) = Start(k) + reader.index
      /\ \A x \in 1 .. Len(reader.got) : reader.got[x] = logged[x]
  BY <1>1, <1>3 DEF Inv, ReadSoFar
<1>5. Len(logged) = Start(k) + Len(block[k].entries)
  BY <1>3 DEF Inv, Written
<1>6. Len(block[k].entries) \in Nat
  <2>1. block[k].entries \in Seq(Entry)
    BY <1>3 DEF Inv, TypeOK
  <2> QED
    BY <2>1
<1>7. Len(reader.got) = Len(logged)
  BY <1>1, <1>2, <1>3, <1>4, <1>5, <1>6
<1>8. logged \in Seq(Entry \cup {ZeroEntry})
  BY <1>2
<1> QED
  BY <1>2, <1>4, <1>7, <1>8, SeqEqual

\* A reader that comes to the end of an intact log has returned what was logged
\* in this generation, no more and no less, in order.
THEOREM ReadsBackAlways == Spec => []ReadsBack
<1>1. Inv => ReadsBack
  BY ReadsItAll DEF ReadsBack
<1> QED
  BY <1>1, InvAlways, PTL

\* No assertion of init or of the reader stops the process while the log is
\* intact.
THEOREM StartsAlways == Spec => []StartsAgain
<1>1. Inv => StartsAgain
  BY DEF Inv, Written, StartsAgain
<1> QED
  BY <1>1, InvAlways, PTL

\* A write of a valid superblock begins the next generation or adds a block to
\* this one.
THEOREM GenerationsAlways == Spec => GenerationsOnlyGrow
<1>1. ASSUME Inv, Next, superblock' # superblock, superblock.valid
      PROVE  \/ superblock'.generation = superblock.generation + 1
             \/ /\ superblock'.generation = superblock.generation
                /\ superblock'.size >= superblock.size
  <2>1. CASE BeginGeneration
    BY <2>1 DEF BeginGeneration
  <2>2. ASSUME NEW e \in Entry, Extend(e)
        PROVE  /\ superblock'.generation = superblock.generation
               /\ superblock'.size >= superblock.size
    BY <1>1, <2>2 DEF Extend, Inv, TypeOK
  <2> QED
    BY <1>1, <2>1, <2>2
    DEF Next, format, FormatGeneration, increaseGeneration, EmptyFirstBlock,
        logOperation, AppendEntry, Refuse, WriteNewBlock, init, readLog, getNext,
        close, Crash, disk, vars
<1>2. Inv /\ [Next]_vars =>
        [superblock.valid =>
           \/ superblock'.generation = superblock.generation + 1
           \/ /\ superblock'.generation = superblock.generation
              /\ superblock'.size >= superblock.size]_superblock
  BY <1>1 DEF vars, disk
<1> QED
  BY <1>2, InvAlways, PTL DEF Spec, GenerationsOnlyGrow
-----------------------------------------------------------------------------
(***************************************************************************)
(* What no crash takes away.  The blocks may hold entries besides what was *)
(* logged in this generation: where a crash fell between the two writes of *)
(* a call, whatever the block held before.  But what was logged is there,  *)
(* each entry at a place of its own, in order.                             *)
(***************************************************************************)

\* Entry x of block b comes before entry y of block c.
Earlier(b, x, c, y) == b < c \/ (b = c /\ x < y)

\* The reader has passed entry x of block b.
Passed(b, x) == b < reader.block \/ (b = reader.block /\ x <= reader.index)

\* The entry logged[i] is entry x[i] of block b[i].
PlacedAt(b, x) ==
  \A i \in 1 .. Len(logged) :
    /\ b[i] \in 1 .. Last /\ x[i] \in 1 .. Len(block[b[i]].entries)
    /\ block[b[i]].entries[x[i]] = logged[i]
    /\ \A j \in 1 .. i - 1 : Earlier(b[j], x[j], b[i], x[i])

\* What the reader has passed it has returned: logged[i] as got[f[i]].
Returned(b, x, f) ==
  \A i \in 1 .. Len(logged) :
    Passed(b[i], x[i]) =>
      /\ f[i] \in 1 .. Len(reader.got) /\ reader.got[f[i]] = logged[i]
      /\ \A j \in 1 .. i - 1 : f[j] < f[i]

Indices(s) == 1 .. Len(s)

Placed ==
  \E b \in [Indices(logged) -> Blocks], x \in [Indices(logged) -> 1 .. BlockEntries] :
    /\ PlacedAt(b, x)
    /\ phase = "reading" =>
         \E f \in [Indices(logged) -> 0 .. Len(reader.got)] : Returned(b, x, f)

\* Where there is no superblock, or none that counts a block, nothing was
\* logged.
EmptyLog ==
  /\ ~superblock.valid => superblock.size = 0
  /\ superblock.size = 0 => logged = <<>>

LogKept == Inv /\ EmptyLog /\ Placed

LEMMA LastIs ==
  ASSUME Inv
  PROVE  /\ Last \in Int /\ Last <= superblock.size /\ superblock.size <= DeviceBlocks
         /\ superblock.size \in Nat /\ logged \in Seq(Entry)
         /\ phase \in {"open", "reading"} => Last = superblock.size
<1>1. superblock.size \in 0 .. DeviceBlocks /\ logged \in Seq(Entry)
  BY DEF Inv, TypeOK, Shape
<1> QED
  BY <1>1, LogSizes DEF Last

\* An entry of a block is at a place that a block can hold.
LEMMA EntryIs ==
  ASSUME Inv, NEW i \in Blocks
  PROVE  /\ block[i].entries \in Seq(Entry) /\ Len(block[i].entries) \in Nat
         /\ 1 .. Len(block[i].entries) \subseteq 1 .. BlockEntries
<1>1. block[i].entries \in Seq(Entry) /\ Len(block[i].entries) <= BlockEntries
  BY DEF Inv, TypeOK
<1>2. Len(block[i].entries) \in Nat
  BY <1>1
<1> QED
  BY <1>1, <1>2, LogSizes

\* Of an empty log there is nothing to lose.
LEMMA EmptyIsPlaced ==
  ASSUME logged' = <<>>, phase' # "reading"
  PROVE  Placed'
<1>1. Len(logged') = 0 /\ Indices(logged)' = {}
  BY DEF Indices
<1> DEFINE none == [i \in {} |-> 0]
<1>2. none \in [Indices(logged)' -> Blocks] /\ none \in [Indices(logged)' -> 1 .. BlockEntries]
  BY <1>1
<1>3. \A i \in 1 .. Len(logged') : FALSE
  BY <1>1
<1>4. PICK b \in [Indices(logged)' -> Blocks], x \in [Indices(logged)' -> 1 .. BlockEntries] : TRUE
  BY <1>2
<1>5. PlacedAt(b, x)'
  BY <1>3 DEF PlacedAt
<1> QED
  BY <1>5 DEF Placed

\* A step that leaves the blocks and what was logged, and counts no fewer
\* blocks.
LEMMA LeaveKeepsPlaced ==
  ASSUME Inv, Placed, UNCHANGED <<block, logged>>, Last' \in Int, Last' >= Last,
         phase' # "reading"
  PROVE  Placed'
<1>1. PICK b \in [Indices(logged) -> Blocks], x \in [Indices(logged) -> 1 .. BlockEntries] :
        PlacedAt(b, x)
  BY DEF Placed
<1>2. 1 .. Last \subseteq 1 .. Last'
  BY LastIs
<1>3. PlacedAt(b, x)'
  BY <1>1, <1>2 DEF PlacedAt
<1>4. Indices(logged)' = Indices(logged)
  BY DEF Indices
<1> QED
  BY <1>1, <1>3, <1>4 DEF Placed

\* The entries that were there are before entry kx of block kb, and stay there.
Behind(kb, kx) ==
  \A i \in 1 .. Last : \A j \in 1 .. Len(block[i].entries) :
    /\ Earlier(i, j, kb, kx)
    /\ j \in 1 .. Len(block'[i].entries)
    /\ block'[i].entries[j] = block[i].entries[j]

\* A step that logs e at entry kx of block kb, behind what was there.
LEMMA AddKeepsPlaced ==
  ASSUME Inv, Placed, NEW kb \in Blocks, NEW kx \in 1 .. BlockEntries, NEW e,
         logged' = Append(logged, e), Len(logged') = Len(logged) + 1,
         logged'[Len(logged) + 1] = e,
         \A i \in 1 .. Len(logged) : logged'[i] = logged[i],
         Last' \in Int, Last' >= Last, kb \in 1 .. Last',
         kx \in 1 .. Len(block'[kb].entries), block'[kb].entries[kx] = e,
         Behind(kb, kx), phase' # "reading"
  PROVE  Placed'
<1>1. PICK b \in [Indices(logged) -> Blocks], x \in [Indices(logged) -> 1 .. BlockEntries] :
        PlacedAt(b, x)
  BY DEF Placed
<1>2. PICK n : n = Len(logged) + 1
  OBVIOUS
<1>3. PICK c : c = [i \in 1 .. n |-> IF i = n THEN kb ELSE b[i]]
  OBVIOUS
<1>4. PICK y : y = [i \in 1 .. n |-> IF i = n THEN kx ELSE x[i]]
  OBVIOUS
<1>5. Len(logged) \in Nat /\ n \in Nat \ {0} /\ Len(logged') = n
  BY <1>2, LastIs
<1>6. \A i \in 1 .. n : i # n => i \in Indices(logged)
  BY <1>2, <1>5 DEF Indices
<1>7. c \in [1 .. n -> Blocks] /\ y \in [1 .. n -> 1 .. BlockEntries]
  BY <1>1, <1>3, <1>4, <1>6
<1>8. c[n] = kb /\ y[n] = kx
  BY <1>3, <1>4, <1>5
<1>9. \A i \in 1 .. Len(logged) : c[i] = b[i] /\ y[i] = x[i]
  BY <1>2, <1>3, <1>4, <1>5
<1>10. 1 .. Last \subseteq 1 .. Last'
  BY LastIs
<1>11. ASSUME NEW i \in 1 .. Len(logged)
       PROVE  /\ b[i] \in 1 .. Last /\ x[i] \in 1 .. Len(block[b[i]].entries)
              /\ block[b[i]].entries[x[i]] = logged[i]
              /\ \A j \in 1 .. i - 1 : Earlier(b[j], x[j], b[i], x[i])
              /\ Earlier(b[i], x[i], kb, kx)
              /\ x[i] \in 1 .. Len(block'[b[i]].entries)
              /\ block'[b[i]].entries[x[i]] = logged[i]
  <2>1. /\ b[i] \in 1 .. Last /\ x[i] \in 1 .. Len(block[b[i]].entries)
        /\ block[b[i]].entries[x[i]] = logged[i]
        /\ \A j \in 1 .. i - 1 : Earlier(b[j], x[j], b[i], x[i])
    BY <1>1 DEF PlacedAt
  <2>2. /\ Earlier(b[i], x[i], kb, kx)
        /\ x[i] \in 1 .. Len(block'[b[i]].entries)
        /\ block'[b[i]].entries[x[i]] = block[b[i]].entries[x[i]]
    BY <2>1 DEF Behind
  <2> QED
    BY <2>1, <2>2
<1>12. ASSUME NEW i \in 1 .. n
       PROVE  /\ c[i] \in 1 .. Last' /\ y[i] \in 1 .. Len(block'[c[i]].entries)
              /\ block'[c[i]].entries[y[i]] = logged'[i]
              /\ \A j \in 1 .. i - 1 : Earlier(c[j], y[j], c[i], y[i])
  <2>1. CASE i = n
    <3>1. i - 1 = Len(logged)
      BY <1>2, <1>5, <2>1
    <3>2. \A j \in 1 .. i - 1 : Earlier(c[j], y[j], c[i], y[i])
      BY <1>8, <1>9, <1>11, <2>1, <3>1
    <3> QED
      BY <1>2, <1>8, <2>1, <3>2
  <2>2. CASE i # n
    <3>1. i \in 1 .. Len(logged) /\ 1 .. i - 1 \subseteq 1 .. Len(logged)
      BY <1>2, <1>5, <2>2
    <3>2. \A j \in 1 .. i - 1 : Earlier(c[j], y[j], c[i], y[i])
      BY <1>9, <1>11, <3>1
    <3> QED
      BY <1>9, <1>10, <1>11, <3>1, <3>2
  <2> QED
    BY <2>1, <2>2
<1>13. PlacedAt(c, y)'
  BY <1>5, <1>12 DEF PlacedAt, Earlier
<1>14. Indices(logged)' = 1 .. n
  BY <1>5 DEF Indices
<1> QED
  BY <1>7, <1>13, <1>14 DEF Placed

LEMMA AppendKeepsPlaced ==
  ASSUME LogKept, NEW e \in Entry, AppendEntry(e)
  PROVE  Placed'
<1>1. PICK k : k = superblock.size
  OBVIOUS
<1>2. PICK s : s = block[k].entries
  OBVIOUS
<1>3. /\ Inv /\ Placed /\ phase = "open" /\ Len(s) # BlockEntries
      /\ logged' = Append(logged, e)
      /\ block' = [block EXCEPT ![k] = [block[k] EXCEPT !.entries = Append(s, e)]]
      /\ UNCHANGED <<superblock, phase, pending, reader, intact>>
  BY <1>1, <1>2 DEF AppendEntry, Full, current, LogKept
<1>4. /\ k \in Blocks /\ k \in Nat /\ Last = k /\ Last' = k
      /\ block \in [Blocks -> Contents]
  <2>1. superblock.size > 0 /\ block \in [Blocks -> Contents]
    BY <1>3 DEF Inv, Shape
  <2>2. Last = k /\ k \in Nat /\ k <= DeviceBlocks /\ Last' = Last
    BY <1>1, <1>3, LastIs DEF Last
  <2> QED
    BY <1>1, <2>1, <2>2, LogSizes DEF Blocks
<1>5. /\ s \in Seq(Entry) /\ Len(s) \in Nat /\ Len(s) + 1 \in 1 .. BlockEntries
  <2>1. s \in Seq(Entry) /\ Len(s) \in Nat /\ Len(s) <= BlockEntries
    BY <1>2, <1>3, <1>4 DEF Inv, TypeOK
  <2> QED
    BY <1>3, <2>1, LogSizes
<1>6. /\ block'[k].entries = Append(s, e)
      /\ \A i \in Blocks : i # k => block'[i] = block[i]
  BY <1>3, <1>4 DEF Contents
<1>7. /\ Len(Append(s, e)) = Len(s) + 1 /\ Append(s, e)[Len(s) + 1] = e
      /\ \A j \in 1 .. Len(s) : Append(s, e)[j] = s[j]
  BY <1>5
<1>8. 1 .. k \subseteq Blocks /\ k \in 1 .. k
  BY <1>4, LogSizes DEF Blocks
<1>9. ASSUME NEW i \in 1 .. Last, NEW j \in 1 .. Len(block[i].entries)
      PROVE  /\ Earlier(i, j, k, Len(s) + 1)
             /\ j \in 1 .. Len(block'[i].entries)
             /\ block'[i].entries[j] = block[i].entries[j]
  <2>1. CASE i # k
    BY <1>4, <1>6, <1>8, <2>1 DEF Earlier
  <2>2. CASE i = k
    <3>1. j \in 1 .. Len(s)
      BY <1>2, <2>2
    <3>2. Earlier(i, j, k, Len(s) + 1) /\ j \in 1 .. Len(s) + 1
      BY <1>4, <1>5, <2>2, <3>1 DEF Earlier
    <3> QED
      BY <1>2, <1>6, <1>7, <2>2, <3>1, <3>2
  <2> QED
    BY <2>1, <2>2
<1>10. Behind(k, Len(s) + 1)
  BY <1>9 DEF Behind
<1>11. /\ Len(logged') = Len(logged) + 1 /\ logged'[Len(logged) + 1] = e
       /\ \A i \in 1 .. Len(logged) : logged'[i] = logged[i]
  BY <1>3, LastIs
<1>12. Last' \in Int /\ Last' >= Last /\ k \in 1 .. Last'
  BY <1>4, <1>8
<1>13. /\ Len(s) + 1 \in 1 .. Len(block'[k].entries)
       /\ block'[k].entries[Len(s) + 1] = e
  BY <1>5, <1>6, <1>7
<1> QED
  BY <1>3, <1>4, <1>5, <1>10, <1>11, <1>12, <1>13, AddKeepsPlaced

LEMMA NewBlockKeepsPlaced ==
  ASSUME LogKept, WriteNewBlock
  PROVE  Placed'
<1>1. PICK k : k = superblock.size
  OBVIOUS
<1>2. PICK c : c = LogBlock(<<pending>>)
  OBVIOUS
<1>3. /\ Inv /\ Placed /\ phase = "extending" /\ phase' = "open"
      /\ logged' = Append(logged, pending)
      /\ UNCHANGED <<superblock, pending, reader, intact>>
      /\ block' = [block EXCEPT ![k] = c]
  BY <1>1, <1>2 DEF WriteNewBlock, LogKept
<1>4. /\ k \in Blocks /\ k \in Nat /\ Last = k - 1 /\ Last' = k /\ k \in 1 .. k
      /\ pending \in Entry /\ block \in [Blocks -> Contents]
  <2>1. superblock.size > 0 /\ pending \in Entry /\ block \in [Blocks -> Contents]
    BY <1>3 DEF Inv, Shape
  <2>2. k \in Nat /\ k <= DeviceBlocks /\ Last = k - 1 /\ Last' = k
    BY <1>1, <1>3, LastIs DEF Last
  <2> QED
    BY <1>1, <2>1, <2>2, LogSizes DEF Blocks
<1>5. block'[k] = c /\ \A i \in Blocks : i # k => block'[i] = block[i]
  BY <1>3, <1>4
<1>6. c.entries = <<pending>>
  <2>1. <<pending>> \in Seq(Entry)
    BY <1>4
  <2> QED
    BY <1>2, <1>3, <2>1, LogBlockIs
<1>7. Len(<<pending>>) = 1 /\ <<pending>>[1] = pending
  OBVIOUS
<1>8. ASSUME NEW i \in 1 .. Last, NEW j \in 1 .. Len(block[i].entries)
      PROVE  /\ Earlier(i, j, k, 1)
             /\ j \in 1 .. Len(block'[i].entries)
             /\ block'[i].entries[j] = block[i].entries[j]
  <2>1. i \in Blocks /\ i # k /\ i < k
    BY <1>4, LogSizes DEF Blocks
  <2> QED
    BY <1>5, <2>1 DEF Earlier
<1>9. Behind(k, 1)
  BY <1>8 DEF Behind
<1>10. /\ Len(logged') = Len(logged) + 1 /\ logged'[Len(logged) + 1] = pending
       /\ \A i \in 1 .. Len(logged) : logged'[i] = logged[i]
  BY <1>3, LastIs
<1>11. /\ Last' \in Int /\ Last' >= Last /\ k \in 1 .. Last' /\ 1 \in 1 .. BlockEntries
  BY <1>4, LogSizes
<1>12. 1 \in 1 .. Len(block'[k].entries) /\ block'[k].entries[1] = pending
  BY <1>5, <1>6, <1>7
<1> QED
  BY <1>3, <1>4, <1>9, <1>10, <1>11, <1>12, AddKeepsPlaced

\* A reader that is opened has passed nothing.
LEMMA ReadLogKeepsPlaced ==
  ASSUME LogKept, readLog
  PROVE  Placed'
<1>1. /\ Inv /\ Placed /\ phase = "open"
      /\ UNCHANGED <<superblock, block, pending, logged, intact>>
      /\ \/ /\ phase' = "reading" /\ reader' = [block |-> 1, index |-> 0, got |-> <<>>]
         \/ phase' = "exited" /\ reader' = NoReader
  BY DEF readLog, disk, NoReader, LogKept
<1>2. Last' = Last /\ Last \in Int
  BY <1>1, LastIs DEF Last
<1>3. CASE phase' = "exited"
  BY <1>1, <1>2, <1>3, LeaveKeepsPlaced
<1>4. CASE phase' = "reading"
  <2>1. reader'.block = 1 /\ reader'.index = 0 /\ Len(reader'.got) = 0
    BY <1>1, <1>4
  <2>2. PICK b \in [Indices(logged) -> Blocks], x \in [Indices(logged) -> 1 .. BlockEntries] :
          PlacedAt(b, x)
    BY <1>1 DEF Placed
  <2>3. PICK f : f = [i \in Indices(logged) |-> 0]
    OBVIOUS
  <2>4. f \in [Indices(logged) -> 0 .. Len(reader'.got)]
    BY <2>1, <2>3
  <2>5. ASSUME NEW i \in 1 .. Len(logged)
        PROVE  ~Passed(b[i], x[i])'
    <3>1. b[i] \in 1 .. DeviceBlocks /\ x[i] \in 1 .. BlockEntries
      BY <2>2 DEF Indices, Blocks
    <3>2. ~(b[i] < 1) /\ ~(x[i] <= 0)
      BY <3>1, LogSizes
    <3> QED
      BY <2>1, <3>2 DEF Passed
  <2>6. Returned(b, x, f)'
    BY <1>1, <2>5 DEF Returned, Passed
  <2>7. PlacedAt(b, x)' /\ Indices(logged)' = Indices(logged)
    BY <1>1, <1>2, <2>2 DEF PlacedAt, Indices
  <2> QED
    BY <2>2, <2>4, <2>6, <2>7 DEF Placed
<1> QED
  BY <1>1, <1>3, <1>4

\* getNext passes one entry at most of those that the log's blocks have: the
\* one that it returns.
LEMMA PassesOne ==
  ASSUME Inv, phase = "reading", hasNext, NEW nb, NEW ni,
         nb = NextPosition.block, ni = NextPosition.index,
         NEW p \in Blocks, NEW q \in 1 .. Len(block[p].entries)
  PROVE  /\ p < nb \/ (p = nb /\ q <= ni + 1) =>
              Passed(p, q) \/ (p = nb /\ q = ni + 1)
         /\ p = nb /\ q = ni + 1 => NextEntry = block[p].entries[q]
         /\ Passed(p, q) => ~Earlier(nb, ni + 1, p, q)
<1>1. PICK rb : rb = reader.block
  OBVIOUS
<1>2. PICK ri : ri = reader.index
  OBVIOUS
<1>3. PICK l : l = Len(block[rb].entries)
  OBVIOUS
<1>4. rb \in Nat /\ ri \in Nat /\ p \in Nat /\ q \in Nat /\ nb \in Nat /\ ni \in Nat
  <2>1. reader.block \in 1 .. superblock.size /\ reader.index \in 0 .. BlockEntries
    BY DEF Inv, Shape
  <2>2. p \in 1 .. DeviceBlocks /\ q \in 1 .. BlockEntries
    BY EntryIs DEF Blocks
  <2>3. nb \in 1 .. superblock.size /\ ni \in 0 .. BlockEntries
    BY NextIs
  <2>4. superblock.size \in Nat /\ BlockEntries \in Nat /\ DeviceBlocks \in Nat
    BY LastIs, LogSizes
  <2> QED
    BY <1>1, <1>2, <2>1, <2>2, <2>3, <2>4
<1>5. \/ ri = l /\ nb = rb + 1 /\ ni = 0
      \/ ri # l /\ nb = rb /\ ni = ri
  BY <1>1, <1>2, <1>3 DEF NextPosition
<1>6. p = rb => q <= l
  BY <1>3, <1>4, EntryIs
<1>7. Passed(p, q) <=> p < rb \/ (p = rb /\ q <= ri)
  BY <1>1, <1>2 DEF Passed
<1>8. p = nb /\ q = ni + 1 => NextEntry = block[p].entries[q]
  <2> SUFFICES ASSUME p = nb, q = ni + 1
               PROVE  NextEntry = block[p].entries[q]
    OBVIOUS
  <2>1. Len(block[p].entries) \in Nat
    BY EntryIs
  <2>2. ni < Len(block[nb].entries)
    BY <1>4, <2>1
  <2> QED
    BY <2>2 DEF NextEntry, Slot
<1>9. p < nb \/ (p = nb /\ q <= ni + 1) =>
        Passed(p, q) \/ (p = nb /\ q = ni + 1)
  BY <1>4, <1>5, <1>6, <1>7
<1>10. Passed(p, q) => ~Earlier(nb, ni + 1, p, q)
  BY <1>4, <1>5, <1>7 DEF Earlier
<1> QED
  BY <1>8, <1>9, <1>10

LEMMA GetNextKeepsPlaced ==
  ASSUME LogKept, getNext
  PROVE  Placed'
<1>1. PICK nb : nb = NextPosition.block
  OBVIOUS
<1>2. PICK ni : ni = NextPosition.index
  OBVIOUS
<1>3. PICK n : n = Len(reader.got)
  OBVIOUS
<1>4. /\ Inv /\ Placed /\ phase = "reading" /\ hasNext
      /\ UNCHANGED <<superblock, block, pending, logged, intact>>
      /\ \/ /\ phase' = "reading"
            /\ reader' = [block |-> nb, index |-> ni + 1,
                          got |-> Append(reader.got, NextEntry)]
         \/ phase' = "exited"
  BY <1>1, <1>2 DEF getNext, disk, LogKept
<1>5. Last' = Last /\ Last \in Int /\ 1 .. Last \subseteq Blocks
  <2>1. Last' = Last /\ Last \in Int /\ Last <= DeviceBlocks
    BY <1>4, LastIs DEF Last
  <2> QED
    BY <2>1, LogSizes DEF Blocks
<1>6. CASE phase' = "exited"
  BY <1>4, <1>5, <1>6, LeaveKeepsPlaced
<1>7. CASE phase' = "reading"
  <2>1. /\ reader'.block = nb /\ reader'.index = ni + 1
        /\ reader'.got = Append(reader.got, NextEntry)
    BY <1>4, <1>7
  <2>2. /\ n \in Nat /\ Len(reader'.got) = n + 1 /\ reader'.got[n + 1] = NextEntry
        /\ \A i \in 1 .. n : reader'.got[i] = reader.got[i]
    <3>1. reader.got \in Seq(Entry \cup {ZeroEntry})
      BY <1>4 DEF Inv, TypeOK
    <3> QED
      BY <1>3, <2>1, <3>1
  <2>3. PICK b \in [Indices(logged) -> Blocks], x \in [Indices(logged) -> 1 .. BlockEntries] :
          /\ PlacedAt(b, x)
          /\ \E f \in [Indices(logged) -> 0 .. n] : Returned(b, x, f)
    BY <1>3, <1>4 DEF Placed
  <2>4. PICK f \in [Indices(logged) -> 0 .. n] : Returned(b, x, f)
    BY <2>3
  <2>5. PICK g : g = [i \in Indices(logged) |->
                        IF b[i] = nb /\ x[i] = ni + 1 THEN n + 1 ELSE f[i]]
    OBVIOUS
  <2>6. g \in [Indices(logged) -> 0 .. n + 1]
    BY <2>2, <2>4, <2>5
  <2>7. Len(logged) \in Nat
    BY <1>4, LastIs
  <2>8. ASSUME NEW i \in 1 .. Len(logged)
        PROVE  /\ b[i] \in Blocks /\ x[i] \in 1 .. Len(block[b[i]].entries)
               /\ b[i] \in Int /\ x[i] \in Int
               /\ block[b[i]].entries[x[i]] = logged[i]
               /\ \A j \in 1 .. i - 1 : Earlier(b[j], x[j], b[i], x[i])
    <3>1. /\ b[i] \in 1 .. Last /\ x[i] \in 1 .. Len(block[b[i]].entries)
          /\ block[b[i]].entries[x[i]] = logged[i]
          /\ \A j \in 1 .. i - 1 : Earlier(b[j], x[j], b[i], x[i])
      BY <2>3 DEF PlacedAt
    <3>2. b[i] \in Blocks
      BY <1>5, <3>1
    <3>3. b[i] \in Int /\ x[i] \in Int
      BY <3>1
    <3> QED
      BY <3>1, <3>2, <3>3
  <2>9. ASSUME NEW i \in 1 .. Len(logged),
               b[i] < nb \/ (b[i] = nb /\ x[i] <= ni + 1)
        PROVE  /\ g[i] \in 1 .. n + 1 /\ reader'.got[g[i]] = logged[i]
               /\ \A j \in 1 .. i - 1 : g[j] < g[i]
    <3>1. /\ Passed(b[i], x[i]) \/ (b[i] = nb /\ x[i] = ni + 1)
          /\ b[i] = nb /\ x[i] = ni + 1 => NextEntry = logged[i]
          /\ Passed(b[i], x[i]) => ~Earlier(nb, ni + 1, b[i], x[i])
      <4>1. PICK p : p = b[i]
        OBVIOUS
      <4>2. PICK q : q = x[i]
        OBVIOUS
      <4>3. /\ p \in Blocks /\ q \in 1 .. Len(block[p].entries)
            /\ block[p].entries[q] = logged[i]
        BY <2>8, <4>1, <4>2
      <4>4. /\ p < nb \/ (p = nb /\ q <= ni + 1) =>
                 Passed(p, q) \/ (p = nb /\ q = ni + 1)
            /\ p = nb /\ q = ni + 1 => NextEntry = block[p].entries[q]
            /\ Passed(p, q) => ~Earlier(nb, ni + 1, p, q)
        BY <1>1, <1>2, <1>4, <4>3, PassesOne
      <4> QED
        BY <2>9, <4>1, <4>2, <4>3, <4>4
    <3>2. /\ i \in Indices(logged) /\ 1 .. i - 1 \subseteq Indices(logged)
      BY <2>7 DEF Indices
    <3>3. ~Earlier(b[i], x[i], b[i], x[i])
      BY <2>8 DEF Earlier
    <3>4. CASE b[i] = nb /\ x[i] = ni + 1
      <4>1. g[i] = n + 1
        BY <2>5, <3>2, <3>4
      <4>2. ASSUME NEW j \in 1 .. i - 1
            PROVE  g[j] < g[i]
        <5>1. ~(b[j] = nb /\ x[j] = ni + 1)
          BY <2>8, <3>3, <3>4
        <5>2. g[j] = f[j] /\ f[j] \in 0 .. n
          BY <2>4, <2>5, <3>2, <5>1
        <5> QED
          BY <2>2, <4>1, <5>2
      <4> QED
        BY <2>2, <3>1, <3>4, <4>1, <4>2
    <3>5. CASE ~(b[i] = nb /\ x[i] = ni + 1)
      <4>1. Passed(b[i], x[i]) /\ ~Earlier(nb, ni + 1, b[i], x[i])
        BY <3>1, <3>5
      <4>2. g[i] = f[i]
        BY <2>5, <3>2, <3>5
      <4>3. /\ f[i] \in 1 .. n /\ reader.got[f[i]] = logged[i]
            /\ \A j \in 1 .. i - 1 : f[j] < f[i]
        BY <1>3, <2>4, <4>1 DEF Returned
      <4>4. ASSUME NEW j \in 1 .. i - 1
            PROVE  g[j] < g[i]
        <5>1. ~(b[j] = nb /\ x[j] = ni + 1)
          BY <2>8, <4>1
        <5>2. g[j] = f[j]
          BY <2>5, <3>2, <5>1
        <5> QED
          BY <4>2, <4>3, <5>2
      <4> QED
        BY <2>2, <4>2, <4>3, <4>4
    <3> QED
      BY <3>4, <3>5
  <2>10. Returned(b, x, g)'
    BY <1>4, <2>1, <2>2, <2>9 DEF Returned, Passed
  <2>11. PlacedAt(b, x)' /\ Indices(logged)' = Indices(logged)
    BY <1>4, <1>5, <2>3 DEF PlacedAt, Indices
  <2> QED
    BY <2>2, <2>3, <2>6, <2>10, <2>11 DEF Placed
<1> QED
  BY <1>4, <1>6, <1>7

-----------------------------------------------------------------------------
LEMMA InitKeepsLog ==
  ASSUME Init
  PROVE  LogKept
<1>1. Inv
  BY InitHasInv
<1>2. logged = <<>> /\ phase = "down" /\ superblock.size = 0
  BY DEF Init
<1>3. EmptyLog
  BY <1>2 DEF EmptyLog
<1>4. PICK b \in [Indices(logged) -> Blocks], x \in [Indices(logged) -> 1 .. BlockEntries] : TRUE
  <2>1. Indices(logged) = {}
    BY <1>2 DEF Indices
  <2>2. [i \in {} |-> 0] \in [Indices(logged) -> Blocks]
    BY <2>1
  <2>3. [i \in {} |-> 0] \in [Indices(logged) -> 1 .. BlockEntries]
    BY <2>1
  <2> QED
    BY <2>2, <2>3
<1>5. \A i \in 1 .. Len(logged) : FALSE
  BY <1>2
<1>6. PlacedAt(b, x)
  BY <1>5 DEF PlacedAt
<1>7. Placed
  BY <1>2, <1>6 DEF Placed
<1> QED
  BY <1>1, <1>3, <1>7 DEF LogKept

LEMMA StepKeepsLog ==
  ASSUME LogKept, [Next]_vars
  PROVE  LogKept'
<1>1. Inv /\ EmptyLog /\ Placed /\ Inv'
  BY StepKeepsInv DEF LogKept
<1>2. EmptyLog'
  <2>1. CASE UNCHANGED vars
    BY <1>1, <2>1 DEF EmptyLog, vars, disk
  <2>2. CASE BeginGeneration
    BY <2>2 DEF EmptyLog, BeginGeneration
  <2>3. CASE format /\ ~superblock.valid
    BY <1>1, <2>3 DEF format, EmptyLog
  <2>4. CASE EmptyFirstBlock
    BY <1>1, <2>4 DEF EmptyFirstBlock, EmptyLog
  <2>5. ASSUME NEW e \in Entry, AppendEntry(e)
        PROVE  EmptyLog'
    BY <1>1, <2>5 DEF AppendEntry, EmptyLog, Inv, Shape
  <2>6. ASSUME NEW e \in Entry, Extend(e)
        PROVE  EmptyLog'
    BY <1>1, <2>6 DEF Extend, EmptyLog, Inv, Shape, TypeOK
  <2>7. CASE WriteNewBlock
    BY <1>1, <2>7 DEF WriteNewBlock, EmptyLog, Inv, Shape
  <2>8. CASE init \/ readLog \/ getNext \/ close \/ Crash
    BY <1>1, <2>8 DEF init, readLog, getNext, close, Crash, disk, EmptyLog
  <2> QED
    BY <2>1, <2>2, <2>3, <2>4, <2>5, <2>6, <2>7, <2>8
    DEF Next, format, FormatGeneration, increaseGeneration, logOperation, Refuse
<1>3. Placed'
  <2>1. CASE UNCHANGED vars
    <3>1. UNCHANGED <<superblock, block, phase, pending, reader, logged, intact>>
      BY <2>1 DEF vars, disk
    <3>2. Last' = Last /\ Last \in Int
      BY <1>1, <3>1, LastIs DEF Last
    <3>3. CASE phase # "reading"
      BY <1>1, <3>1, <3>2, <3>3, LeaveKeepsPlaced
    <3>4. CASE phase = "reading"
      <4>1. PICK b \in [Indices(logged) -> Blocks],
                 x \in [Indices(logged) -> 1 .. BlockEntries] :
              /\ PlacedAt(b, x)
              /\ \E f \in [Indices(logged) -> 0 .. Len(reader.got)] : Returned(b, x, f)
        BY <1>1, <3>4 DEF Placed
      <4>2. PICK f \in [Indices(logged) -> 0 .. Len(reader.got)] : Returned(b, x, f)
        BY <4>1
      <4>3. PlacedAt(b, x)' /\ Returned(b, x, f)'
        BY <3>1, <3>2, <4>1, <4>2 DEF PlacedAt, Returned, Passed
      <4>4. Indices(logged)' = Indices(logged)
        BY <3>1 DEF Indices
      <4> QED
        BY <3>1, <4>1, <4>2, <4>3, <4>4 DEF Placed
    <3> QED
      BY <3>3, <3>4
  <2>2. CASE BeginGeneration
    BY <2>2, EmptyIsPlaced DEF BeginGeneration
  <2>3. CASE format /\ ~superblock.valid
    BY <1>1, <2>3, EmptyIsPlaced DEF format, EmptyLog
  <2>4. CASE EmptyFirstBlock
    BY <1>1, <2>4, EmptyIsPlaced DEF EmptyFirstBlock, Inv, Shape
  <2>5. ASSUME NEW e \in Entry, Extend(e)
        PROVE  Placed'
    <3>1. /\ phase = "open" /\ phase' = "extending" /\ UNCHANGED <<block, logged>>
          /\ superblock'.size = superblock.size + 1
      BY <1>1, <2>5 DEF Extend, Inv, TypeOK
    <3>2. Last = superblock.size /\ Last \in Int
      BY <1>1, <3>1, LastIs
    <3>3. Last' = Last
      BY <3>1, <3>2 DEF Last
    <3> QED
      BY <1>1, <3>1, <3>2, <3>3, LeaveKeepsPlaced
  <2>6. CASE init \/ close \/ Crash
    <3>1. UNCHANGED <<superblock, block, logged>> /\ phase' \in {"open", "exited", "down"}
      BY <2>6 DEF init, close, Crash, disk
    <3>2. superblock.size \in Nat /\ Last <= superblock.size /\ Last' = superblock.size
      BY <1>1, <3>1, LastIs DEF Last
    <3> QED
      BY <1>1, <3>1, <3>2, LeaveKeepsPlaced
  <2>7. ASSUME NEW e \in Entry, AppendEntry(e)
        PROVE  Placed'
    BY <2>7, AppendKeepsPlaced
  <2> QED
    BY <2>1, <2>2, <2>3, <2>4, <2>5, <2>6, <2>7, NewBlockKeepsPlaced,
       ReadLogKeepsPlaced, GetNextKeepsPlaced
    DEF Next, format, FormatGeneration, increaseGeneration, logOperation, Refuse
<1> QED
  BY <1>1, <1>2, <1>3 DEF LogKept

LEMMA LogKeptAlways == Spec => []LogKept
<1>1. Init => LogKept
  BY InitKeepsLog
<1>2. LogKept /\ [Next]_vars => LogKept'
  BY StepKeepsLog
<1> QED
  BY <1>1, <1>2, PTL DEF Spec

\* At its end a reader has passed every place of the log.
LEMMA LosesNothing ==
  ASSUME LogKept, Done
  PROVE  IsSubsequence(logged, reader.got)
<1>1. PICK b \in [Indices(logged) -> Blocks], x \in [Indices(logged) -> 1 .. BlockEntries] :
        /\ PlacedAt(b, x)
        /\ \E f \in [Indices(logged) -> 0 .. Len(reader.got)] : Returned(b, x, f)
  BY DEF LogKept, Placed, Done
<1>2. PICK f \in [Indices(logged) -> 0 .. Len(reader.got)] : Returned(b, x, f)
  BY <1>1
<1>3. /\ Inv /\ phase = "reading" /\ ~(reader.block < superblock.size)
      /\ ~(reader.index < Len(block[reader.block].entries))
  BY DEF LogKept, Done, hasNext
<1>4. /\ superblock.size \in Nat /\ Last = superblock.size
      /\ reader.block = Last /\ reader.index \in Nat
  <2>1. superblock.size \in Nat /\ Last = superblock.size
    BY <1>3, LastIs
  <2>2. reader.block \in 1 .. superblock.size /\ reader.index \in Nat
    BY <1>3, LogSizes DEF Inv, Shape
  <2> QED
    BY <1>3, <2>1, <2>2
<1>5. ASSUME NEW i \in 1 .. Len(logged)
      PROVE  Passed(b[i], x[i])
  <2>1. b[i] \in 1 .. Last /\ x[i] \in 1 .. Len(block[b[i]].entries)
    BY <1>1 DEF PlacedAt
  <2>2. CASE b[i] < reader.block
    BY <2>2 DEF Passed
  <2>3. CASE b[i] = reader.block
    <3>1. reader.block \in Blocks
      BY <1>1, <2>3 DEF Indices
    <3>2. Len(block[reader.block].entries) \in Nat
      BY <1>3, <3>1, EntryIs
    <3>3. x[i] <= reader.index
      BY <1>3, <1>4, <2>1, <2>3, <3>2
    <3> QED
      BY <2>3, <3>3 DEF Passed
  <2> QED
    BY <1>4, <2>1, <2>2, <2>3
<1>6. ASSUME NEW i \in 1 .. Len(logged)
      PROVE  /\ f[i] \in 1 .. Len(reader.got) /\ reader.got[f[i]] = logged[i]
             /\ \A j \in 1 .. i - 1 : f[j] < f[i]
  BY <1>2, <1>5 DEF Returned
<1>7. f \in [1 .. Len(logged) -> 1 .. Len(reader.got)]
  BY <1>2, <1>6 DEF Indices
<1> QED
  BY <1>6, <1>7 DEF IsSubsequence

\* Whatever the crashes, a reader that comes to the end has returned every entry
\* that was logged in this generation, in order.
THEOREM NothingLostAlways == Spec => []NothingWrittenIsLost
<1>1. LogKept => NothingWrittenIsLost
  BY LosesNothing DEF NothingWrittenIsLost
<1> QED
  BY <1>1, LogKeptAlways, PTL
-----------------------------------------------------------------------------
(***************************************************************************)
(* A reader has only so many entries to read, wherever it is and whatever  *)
(* the blocks hold.                                                        *)
(***************************************************************************)

\* How many slots the reader has before it: those of its own block, and of each
\* block behind it all, and the step over its end.
ToRead == (superblock.size - reader.block) * (BlockEntries + 1)
            + (BlockEntries - reader.index)

Advances == ToRead' \in Nat /\ ToRead \in Nat /\ ToRead' < ToRead

LEMMA GetNextAdvances ==
  ASSUME Inv, getNext, phase' = "reading"
  PROVE  Advances
<1>1. PICK k : k = superblock.size - reader.block
  OBVIOUS
<1>2. PICK i : i = reader.index
  OBVIOUS
<1>3. PICK w : w = BlockEntries + 1
  OBVIOUS
<1>4. /\ k \in Nat /\ i \in 0 .. BlockEntries /\ superblock.size \in Nat
      /\ reader.block \in Nat /\ BlockEntries \in Nat
  <2>1. /\ reader.block \in 1 .. superblock.size /\ reader.index \in 0 .. BlockEntries
        /\ superblock.size \in Nat
    BY LastIs DEF getNext, Inv, Shape
  <2> QED
    BY <1>1, <1>2, <2>1, LogSizes
<1>5. /\ superblock' = superblock
      /\ reader'.block = NextPosition.block /\ reader'.index = NextPosition.index + 1
      /\ NextPosition.index < BlockEntries /\ hasNext /\ phase = "reading"
  BY DEF getNext, disk
<1>6. ToRead = k * w + (BlockEntries - i)
  BY <1>1, <1>2, <1>3 DEF ToRead
<1>7. CASE reader.index = Len(block[reader.block].entries)
  <2>1. NextPosition.block = reader.block + 1 /\ NextPosition.index = 0
    BY <1>7 DEF NextPosition
  <2>2. k > 0
    BY <1>1, <1>4, <1>5, <1>7 DEF hasNext
  <2>3. superblock'.size - reader'.block = k - 1
    BY <1>1, <1>4, <1>5, <2>1
  <2>4. ToRead' = (k - 1) * w + (BlockEntries - 1)
    BY <1>3, <1>5, <2>1, <2>3 DEF ToRead
  <2>5. (k - 1) * w \in Nat /\ k * w = (k - 1) * w + w
    BY <1>3, <1>4, <2>2
  <2> QED
    BY <1>3, <1>4, <1>6, <2>4, <2>5, LogSizes DEF Advances
<1>8. CASE reader.index # Len(block[reader.block].entries)
  <2>1. NextPosition.block = reader.block /\ NextPosition.index = i
    BY <1>2, <1>8 DEF NextPosition
  <2>2. ToRead' = k * w + (BlockEntries - (i + 1))
    BY <1>1, <1>3, <1>5, <2>1 DEF ToRead
  <2>3. k * w \in Nat /\ i < BlockEntries
    BY <1>3, <1>4, <1>5, <2>1
  <2> QED
    BY <1>4, <1>6, <2>2, <2>3 DEF Advances
<1> QED
  BY <1>7, <1>8

\* While a reader is open each step moves it on, and there is only so far for
\* it to go: the loop of recover() cannot go on for ever.
THEOREM ReaderAdvances ==
  Spec => [][phase = "reading" /\ phase' = "reading" => Advances]_vars
<1>1. ASSUME Inv, Next, phase = "reading", phase' = "reading"
      PROVE  Advances
  BY <1>1, GetNextAdvances
  DEF Next, format, FormatGeneration, increaseGeneration, EmptyFirstBlock, logOperation,
      AppendEntry, Extend, Refuse, WriteNewBlock, init, readLog, close, Crash
<1>2. Inv /\ [Next]_vars => [phase = "reading" /\ phase' = "reading" => Advances]_vars
  BY <1>1
<1> QED
  BY <1>2, InvAlways, PTL DEF Spec
=============================================================================
