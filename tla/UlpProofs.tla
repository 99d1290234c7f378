------------------------------ MODULE UlpProofs ------------------------------
(***************************************************************************)
(* Proofs about UlpBuffer for every size of the buffers and of the messages, *)
(* every number of runs, whether the buffers hold them or not, and every     *)
(* interleaving of the two cores.                                           *)
(***************************************************************************)
EXTENDS UlpBuffer, SequenceTheorems, TLAPS

-----------------------------------------------------------------------------
(* What the memory holds at any moment of a run.                            *)

\* Word k of the run under way has been counted, or has been stored.
Counted(k) == IF upc = 0 \/ upc > 2 * k THEN runs ELSE runs - 1
IsStored(k, r) == 1 <= r /\ (r < runs \/ (r = runs /\ (upc = 0 \/ upc > 2 * k - 1)))

\* Where word k of run r belongs.
Place(k, r) == (r - 1) * value_sizes[k] + value_offsets[k]

CountersTyped ==
  /\ count \in [Buffer -> Int]
  /\ values \in [Buffer -> [Addresses -> (0 .. MaxRuns) \X (0 .. 6)]]
  /\ upc \in 0 .. 12 /\ runs \in 0 .. MaxRuns
  /\ upc # 0 => runs >= 1
  /\ timer \in BOOLEAN /\ spilt \in BOOLEAN /\ cold \in BOOLEAN

CountersRight ==
  /\ count["noise"] = Counted(1)
  /\ count["luminosity"] = Counted(2)
  /\ count["gas"] = Counted(3) + Counted(4)
  /\ count["env"] = Counted(5) + Counted(6)

ValuesRight ==
  \A k \in Words : \A r \in 1 .. MaxRuns :
    IsStored(k, r) /\ Place(k, r) \in Addresses =>
      values[Program[k]][Place(k, r)] = <<r, k>>

\* CapacityIsHalf, and that it is noted which words of the run under way missed theirs.
SpillsRight ==
  /\ CapacityIsHalf
  /\ \A k \in Words : IsStored(k, runs) /\ Place(k, runs) \notin Addresses => spilt

MemoryInv == CountersTyped /\ CountersRight /\ ValuesRight /\ SpillsRight

\* Every word has its buffer, and its place is in it if two words of each run fit.
LEMMA PlaceInBuffer ==
  ASSUME NEW k \in Words, NEW r \in 1 .. MaxRuns
  PROVE  /\ Place(k, r) \in Int /\ Program[k] \in Buffer
         /\ 2 * r <= BufferWords => Place(k, r) \in Addresses
         /\ k = 6 /\ 2 * r > BufferWords => Place(k, r) \notin Addresses
BY UlpAssumption
   DEF Words, Place, Addresses, Program, Buffer, value_sizes, value_offsets

\* The three tables, word by word.
LEMMA Tables ==
  ASSUME NEW k \in Words
  PROVE  \/ k = 1 /\ Program[k] = "noise" /\ value_sizes[k] = 1 /\ value_offsets[k] = 0
         \/ k = 2 /\ Program[k] = "luminosity" /\ value_sizes[k] = 1 /\ value_offsets[k] = 0
         \/ k = 3 /\ Program[k] = "gas" /\ value_sizes[k] = 2 /\ value_offsets[k] = 0
         \/ k = 4 /\ Program[k] = "gas" /\ value_sizes[k] = 2 /\ value_offsets[k] = 1
         \/ k = 5 /\ Program[k] = "env" /\ value_sizes[k] = 2 /\ value_offsets[k] = 0
         \/ k = 6 /\ Program[k] = "env" /\ value_sizes[k] = 2 /\ value_offsets[k] = 1
BY DEF Words, Program, value_sizes, value_offsets

\* A new word is stored where no other one is.
LEMMA PlacesDiffer ==
  ASSUME NEW k \in Words, NEW r \in 1 .. MaxRuns, NEW j \in Words, NEW q \in 1 .. MaxRuns,
         Program[k] = Program[j], Place(k, r) = Place(j, q)
  PROVE  k = j /\ r = q
<1>1. r \in Int /\ q \in Int
  BY UlpAssumption
<1>2. value_sizes[k] = value_sizes[j] /\ value_sizes[k] \in {1, 2}
  BY Tables
<1>3. value_offsets[k] \in {0, 1} /\ value_offsets[j] \in {0, 1}
  BY Tables
<1>4. value_sizes[k] = 1 => value_offsets[k] = 0 /\ value_offsets[j] = 0
  BY <1>2, Tables
<1>5. r = q /\ value_offsets[k] = value_offsets[j]
  <2>1. CASE value_sizes[k] = 1
    BY <1>1, <1>2, <1>4, <2>1 DEF Place
  <2>2. CASE value_sizes[k] = 2
    BY <1>1, <1>2, <1>3, <2>2 DEF Place
  <2>3. QED
    BY <1>2, <2>1, <2>2
<1>6. k = j
  BY <1>5, Tables
<1>7. QED
  BY <1>5, <1>6

\* The counter of a buffer is the place of the word that is stored next.
LEMMA NextPlace ==
  ASSUME MemoryInv, NEW k \in Words, upc = 2 * k - 1
  PROVE  runs \in 1 .. MaxRuns /\ count[Program[k]] = Place(k, runs)
<1>1. runs \in 1 .. MaxRuns /\ runs \in Int
  BY UlpAssumption DEF MemoryInv, CountersTyped, Words
<1>2. \A j \in 1 .. 6 : Counted(j) = IF j < k THEN runs ELSE runs - 1
  BY DEF Counted, Words
<1>3. QED
  BY <1>1, <1>2, Tables DEF MemoryInv, CountersRight, Place, Words

LEMMA WakesKeepMemory ==
  ASSUME MemoryInv, UlpWakes
  PROVE  MemoryInv'
<1> USE UlpAssumption DEF MemoryInv, UlpWakes, memory
<1>1. CountersTyped' /\ CountersRight' /\ SpillsRight'
  <2>1. CountersTyped' /\ CountersRight'
    BY DEF CountersTyped, CountersRight, Counted
  <2>2. CapacityIsHalf'
    BY DEF CapacityIsHalf, Completed, CountersTyped, SpillsRight
  <2>3. \A k \in Words : ~IsStored(k, runs)'
    BY DEF IsStored, Words, CountersTyped
  <2>4. QED
    BY <2>1, <2>2, <2>3 DEF SpillsRight
<1>2. ValuesRight'
  <2> SUFFICES ASSUME NEW k \in Words, NEW r \in 1 .. MaxRuns, IsStored(k, r)'
               PROVE  IsStored(k, r)
    BY DEF ValuesRight, Place
  <2>1. QED
    BY DEF IsStored, Words, CountersTyped
<1>3. QED
  BY <1>1, <1>2

LEMMA StoreKeepsMemory ==
  ASSUME MemoryInv, NEW k \in Words, StoreWord(k)
  PROVE  MemoryInv'
<1>1. /\ upc = 2 * k - 1 /\ upc' = 2 * k /\ k \in 1 .. 6
      /\ runs \in 1 .. MaxRuns /\ runs \in Nat /\ runs' = runs /\ count' = count
  BY NextPlace, UlpAssumption DEF StoreWord, Words
<1>2. \/ /\ Place(k, runs) \in Addresses
         /\ values' = [values EXCEPT ![Program[k]][Place(k, runs)] = <<runs, k>>]
         /\ spilt' = spilt
      \/ Place(k, runs) \notin Addresses /\ values' = values /\ spilt' = TRUE
  BY NextPlace, <1>1 DEF StoreWord
<1>3. CountersTyped'
  <2>1. values' \in [Buffer -> [Addresses -> (0 .. MaxRuns) \X (0 .. 6)]]
    <3>1. <<runs, k>> \in (0 .. MaxRuns) \X (0 .. 6)
      BY <1>1
    <3>2. CASE values' = values
      BY <3>2 DEF MemoryInv, CountersTyped
    <3>3. CASE values' = [values EXCEPT ![Program[k]][Place(k, runs)] = <<runs, k>>]
      BY <3>1, <3>3 DEF MemoryInv, CountersTyped
    <3>4. QED
      BY <1>2, <3>2, <3>3
  <2>2. spilt' \in BOOLEAN
    BY <1>2 DEF MemoryInv, CountersTyped
  <2>3. QED
    BY <1>1, <2>1, <2>2 DEF MemoryInv, CountersTyped, StoreWord
<1>4. CountersRight'
  BY <1>1 DEF MemoryInv, CountersRight, Counted
<1>5. ValuesRight'
  <2> SUFFICES ASSUME NEW j \in Words, NEW q \in 1 .. MaxRuns, IsStored(j, q)',
                      Place(j, q) \in Addresses
               PROVE  values'[Program[j]][Place(j, q)] = <<q, j>>
    BY DEF ValuesRight, Place
  <2>1. CASE j = k /\ q = runs
    BY <1>2, <2>1, PlaceInBuffer DEF MemoryInv, CountersTyped
  <2>2. CASE ~(j = k /\ q = runs)
    <3>1. IsStored(j, q)
      BY <1>1, <2>2 DEF IsStored, Words
    <3>2. values[Program[j]][Place(j, q)] = <<q, j>>
      BY <3>1 DEF MemoryInv, ValuesRight
    <3>3. ~(Program[j] = Program[k] /\ Place(j, q) = Place(k, runs))
      BY <1>1, <2>2, PlacesDiffer
    <3>4. QED
      <4>1. CASE values' = values
        BY <3>2, <4>1
      <4>2. CASE /\ Place(k, runs) \in Addresses
                 /\ values' = [values EXCEPT ![Program[k]][Place(k, runs)] = <<runs, k>>]
        BY <3>2, <3>3, <4>2, PlaceInBuffer DEF MemoryInv, CountersTyped
      <4>3. QED
        BY <1>2, <4>1, <4>2
  <2>3. QED
    BY <2>1, <2>2
<1>6. SpillsRight'
  <2>1. 2 * runs <= BufferWords => Place(k, runs) \in Addresses
    BY <1>1, PlaceInBuffer
  <2>2. spilt' => 2 * runs > BufferWords
    <3>1. ~(2 * runs > BufferWords) => 2 * runs <= BufferWords
      BY <1>1, UlpAssumption
    <3>2. QED
      BY <1>2, <2>1, <3>1 DEF MemoryInv, SpillsRight, CapacityIsHalf
  <2>3. Completed' = runs - 1 /\ Completed = runs - 1
    BY <1>1 DEF Completed
  <2>4. spilt => spilt'
    BY <1>2
  <2>5. CapacityIsHalf'
    BY <1>1, <2>2, <2>3, <2>4 DEF MemoryInv, SpillsRight, CapacityIsHalf
  <2>6. ASSUME NEW j \in Words, IsStored(j, runs)', Place(j, runs) \notin Addresses
        PROVE  spilt'
    <3>1. CASE j = k
      BY <1>2, <2>6, <3>1
    <3>2. CASE j # k
      <4>1. IsStored(j, runs)
        BY <1>1, <2>6, <3>2 DEF IsStored, Words
      <4>2. QED
        BY <2>4, <2>6, <4>1 DEF MemoryInv, SpillsRight
    <3>3. QED
      BY <3>1, <3>2
  <2>7. QED
    BY <1>1, <2>5, <2>6 DEF SpillsRight, Place
<1>7. QED
  BY <1>3, <1>4, <1>5, <1>6 DEF MemoryInv

LEMMA CountKeepsMemory ==
  ASSUME MemoryInv, NEW k \in Words, IncCounter(k)
  PROVE  MemoryInv'
<1>1. /\ upc = 2 * k /\ upc' = (IF k = 6 THEN 0 ELSE upc + 1) /\ k \in 1 .. 6
      /\ runs \in 1 .. MaxRuns /\ runs \in Nat /\ runs' = runs
      /\ values' = values /\ spilt' = spilt
      /\ count' = [count EXCEPT ![Program[k]] = count[Program[k]] + 1]
  BY UlpAssumption DEF IncCounter, Incremented, Words, MemoryInv, CountersTyped
<1>2. CountersTyped'
  <2>1. Program[k] \in Buffer
    BY <1>1 DEF Program, Buffer
  <2>2. QED
    BY <1>1, <2>1 DEF MemoryInv, CountersTyped, IncCounter
<1>3. CountersRight'
  <2>1. \A j \in 1 .. 6 : Counted(j)' = IF j = k THEN Counted(j) + 1 ELSE Counted(j)
    BY <1>1 DEF Counted
  <2>2. \A j \in 1 .. 6 : Counted(j) \in Int
    BY <1>1 DEF Counted
  <2>3. DOMAIN count = {"noise", "luminosity", "gas", "env"}
    BY DEF MemoryInv, CountersTyped, Buffer
  <2>4. QED
    BY <1>1, <2>1, <2>2, <2>3, Tables DEF MemoryInv, CountersRight
<1>4. ValuesRight'
  <2> SUFFICES ASSUME NEW j \in Words, NEW q \in 1 .. MaxRuns, IsStored(j, q)'
               PROVE  IsStored(j, q)
    BY <1>1 DEF MemoryInv, ValuesRight, Place
  <2>1. QED
    BY <1>1 DEF IsStored, Words
<1>5. SpillsRight'
  <2>1. CASE k # 6
    <3>1. Completed' = Completed
      BY <1>1, <2>1 DEF Completed
    <3>2. \A j \in Words : IsStored(j, runs)' => IsStored(j, runs)
      BY <1>1, <2>1 DEF IsStored, Words
    <3>3. QED
      BY <1>1, <3>1, <3>2 DEF MemoryInv, SpillsRight, CapacityIsHalf, Place
  <2>2. CASE k = 6
    <3>1. Completed' = runs
      BY <1>1, <2>2 DEF Completed
    <3>2. \A j \in Words : IsStored(j, runs)
      BY <1>1, <2>2 DEF IsStored, Words
    <3>3. 2 * runs > BufferWords => spilt
      <4>1. 6 \in Words
        BY DEF Words
      <4>2. 2 * runs > BufferWords => Place(6, runs) \notin Addresses
        BY <1>1, <4>1, PlaceInBuffer
      <4>3. QED
        BY <3>2, <4>1, <4>2 DEF MemoryInv, SpillsRight
    <3>4. QED
      BY <1>1, <3>1, <3>2, <3>3 DEF MemoryInv, SpillsRight, CapacityIsHalf, Place
  <2>3. QED
    BY <2>1, <2>2
<1>6. QED
  BY <1>1, <1>2, <1>3, <1>4, <1>5 DEF MemoryInv

\* While nothing has been spilt, the words of all runs that are over are in their places.
LEMMA KeptRuns ==
  ASSUME MemoryInv, ~spilt, NEW k \in Words, NEW r \in 1 .. MaxRuns, r < runs
  PROVE  Place(k, r) \in Addresses /\ values[Program[k]][Place(k, r)] = <<r, k>>
<1>1. runs \in Int /\ r \in Int /\ r <= Completed
  BY UlpAssumption DEF MemoryInv, CountersTyped, Completed
<1>2. 2 * r <= BufferWords
  BY <1>1, UlpAssumption DEF MemoryInv, SpillsRight, CapacityIsHalf, Completed
<1>3. IsStored(k, r)
  BY <1>1 DEF IsStored
<1>4. QED
  BY <1>2, <1>3, PlaceInBuffer DEF MemoryInv, ValuesRight

-----------------------------------------------------------------------------
(* The reader.                                                              *)

Phases == {"sleeping", "booting", "stopped", "reading", "done"}

ReaderTyped ==
  /\ phase \in Phases
  /\ available \in 0 .. MaxRuns /\ index \in 0 .. available
  /\ row \in Seq(Value) /\ Len(row) < 6
  /\ chunk \in Seq(Seq(Value)) /\ Len(chunk) <= ChunkSize /\ Len(chunk) <= index
  /\ messages \in Seq([first : 0 .. MaxRuns, datos : Seq(Seq(Value))])

\* A batch is read only after a sleep, and only of runs that are over, unless the
\* counters were overwritten.
ReaderShape ==
  /\ ~cold /\ phase # "sleeping" => runs >= MinRuns
  /\ spilt \/ available = 0 \/ available < runs
  /\ phase \notin {"reading", "done"} => NoBatch
  /\ phase = "done" => index = available /\ row = <<>> /\ chunk = <<>>
  /\ row # <<>> => index < available

ReaderInv == ReaderTyped /\ ReaderShape /\ BatchIsWhole /\ OneRunPerReading

UlpInv == MemoryInv /\ ReaderInv

\* Before a batch nothing is read, and everything that is to be said of it holds.
LEMMA NoBatchRight == NoBatch => BatchIsWhole /\ OneRunPerReading
<1> SUFFICES ASSUME NoBatch PROVE BatchIsWhole /\ OneRunPerReading
  OBVIOUS
<1>1. /\ available = 0 /\ index = 0 /\ row = <<>> /\ chunk = <<>> /\ messages = <<>>
      /\ Len(row) = 0 /\ Len(chunk) = 0 /\ Len(messages) = 0
  BY DEF NoBatch
<1>2. 1 .. 0 = {}
  OBVIOUS
<1>3. BatchIsWhole
  <2>1. index - Len(chunk) = 0
    <3>1. index = 0 /\ Len(chunk) = 0
      BY <1>1
    <3>2. QED
      BY <3>1
  <2>2. \A k \in 1 .. Len(messages) :
          messages[k].first = IF k = 1 THEN 0 ELSE After(k - 1)
    BY <1>1, <1>2
  <2>3. QED
    BY <1>1, <2>1, <2>2 DEF BatchIsWhole
<1>4. OneRunPerReading
  BY <1>1, <1>2 DEF OneRunPerReading, EachFromItsRun, FromRun
<1>5. QED
  BY <1>3, <1>4

LEMMA NoBatchTyped == NoBatch /\ phase \in Phases => ReaderTyped
BY UlpAssumption DEF NoBatch, ReaderTyped

\* The number that a node or a gateway takes is of runs that are over.
LEMMA CountIsBehind ==
  ASSUME MemoryInv, runs >= MinRuns
  PROVE  ReadingCount(1) \in 0 .. runs - 1
<1>1. count[Program[1]] \in {runs, runs - 1} /\ value_sizes[1] = 1 /\ runs \in Int
  BY DEF MemoryInv, CountersTyped, CountersRight, Counted, Program, value_sizes
<1>2. \A n \in Int : n \div 1 = n
  OBVIOUS
<1>3. runs - 1 >= 1
  BY <1>1, UlpAssumption
<1>4. QED
  BY <1>1, <1>2, <1>3 DEF ReadingCount, OneLess

\* Every number that is taken is one of runs, and of runs that are over unless the
\* counters were overwritten.
LEMMA TakenRight ==
  ASSUME UlpInv, NEW n \in MayCount \cup 0 .. MinRuns - 1, TakeCount(n)
  PROVE  n \in 0 .. MaxRuns /\ (spilt \/ n \in 0 .. runs - 1)
<1>1. runs >= MinRuns /\ runs \in 0 .. MaxRuns
  BY DEF TakeCount, UlpInv, ReaderInv, ReaderShape, MemoryInv, CountersTyped
<1>2. ReadingCount(1) \in 0 .. runs - 1
  BY <1>1, CountIsBehind DEF UlpInv
<1>3. QED
  BY <1>1, <1>2, UlpAssumption DEF MayCount

LEMMA TakeKeepsReader ==
  ASSUME UlpInv, NEW n \in 0 .. MaxRuns, TakeCount(n), spilt \/ n \in 0 .. runs - 1
  PROVE  ReaderInv'
<1>1. ReaderTyped' /\ ReaderShape' /\ NoBatch
  <2>1. runs \in Int /\ n \in Nat
    BY UlpAssumption DEF UlpInv, MemoryInv, CountersTyped
  <2>2. QED
    BY <2>1 DEF UlpInv, ReaderInv, ReaderTyped, ReaderShape, NoBatch, TakeCount, ulp, memory, Phases
<1>2. BatchIsWhole' /\ OneRunPerReading'
  <2>1. BatchIsWhole /\ OneRunPerReading /\ phase' = "reading"
    BY DEF UlpInv, ReaderInv, TakeCount
  <2>2. UNCHANGED <<index, row, chunk, messages, spilt>>
    BY DEF TakeCount, ulp, memory
  <2>3. QED
    BY <2>1, <2>2 DEF BatchIsWhole, OneRunPerReading, EachFromItsRun, FromRun, After
<1>3. QED
  BY <1>1, <1>2 DEF ReaderInv

\* What is loaded is the first word of the sensor, of the run that the reading is of.
LEMMA LoadedRight ==
  ASSUME UlpInv, LoadValue, NEW t \in Words
  PROVE  /\ Load(index, t) \in Value
         /\ ~spilt => Load(index, t).word = <<index + 1, t - value_offsets[t]>>
<1>1. Load(index, t) \in Value
  <2>1. Unwritten \in (0 .. MaxRuns) \X (0 .. 6)
    BY UlpAssumption DEF Unwritten
  <2>2. Program[t] \in Buffer /\ value_offsets[t] \in {0, 1}
    BY Tables DEF Buffer
  <2>3. QED
    BY <2>1, <2>2 DEF Load, Value, UlpInv, MemoryInv, CountersTyped
<1>2. ASSUME ~spilt PROVE Load(index, t).word = <<index + 1, t - value_offsets[t]>>
  <2>1. index + 1 \in 1 .. MaxRuns /\ index + 1 < runs /\ index \in Nat
    BY <1>2, UlpAssumption
       DEF UlpInv, ReaderInv, ReaderTyped, ReaderShape, LoadValue, MemoryInv, CountersTyped
  <2> DEFINE w == t - value_offsets[t]
  <2>2. /\ w \in Words /\ Program[w] = Program[t]
        /\ value_sizes[w] = value_sizes[t] /\ value_offsets[w] = 0
        /\ value_sizes[t] \in Nat
    BY DEF Words, Program, value_sizes, value_offsets
  <2>3. Place(w, index + 1) = index * value_sizes[t]
    BY <2>1, <2>2 DEF Place
  <2>4. /\ Place(w, index + 1) \in Addresses
        /\ values[Program[w]][Place(w, index + 1)] = <<index + 1, w>>
    BY <1>2, <2>1, <2>2, KeptRuns DEF UlpInv
  <2>5. QED
    BY <2>2, <2>3, <2>4 DEF Load
<1>3. QED
  BY <1>1, <1>2

LEMMA LoadKeepsReader ==
  ASSUME UlpInv, LoadValue
  PROVE  ReaderInv'
<1> DEFINE v == Load(index, Len(row) + 1)
           r == Append(row, v)
<1> USE DEF UlpInv, ReaderInv
<1>1. /\ row \in Seq(Value) /\ Len(row) \in 0 .. 5 /\ index \in Nat /\ index < available
      /\ available \in Nat /\ chunk \in Seq(Seq(Value)) /\ Len(chunk) < ChunkSize
      /\ UNCHANGED <<ulp, timer, phase, cold, available, messages>> /\ phase = "reading"
      /\ Len(chunk) \in Nat /\ Len(chunk) <= index
  <2>1. /\ index < available /\ Len(chunk) < ChunkSize /\ phase = "reading"
        /\ UNCHANGED <<ulp, timer, phase, cold, available, messages>>
    BY DEF LoadValue
  <2>2. Len(row) \in Nat /\ Len(chunk) \in Nat /\ index \in Nat
    BY DEF ReaderTyped
  <2>3. /\ row \in Seq(Value) /\ chunk \in Seq(Seq(Value)) /\ available \in Nat
        /\ Len(row) < 6 /\ Len(chunk) <= index
    BY DEF ReaderTyped
  <2>4. Len(row) \in 0 .. 5
    <3>1. \A n \in Nat : n < 6 => n \in 0 .. 5
      OBVIOUS
    <3>2. QED
      BY <2>2, <2>3, <3>1
  <2>5. QED
    BY <2>1, <2>2, <2>3, <2>4
<1> PICK n \in Words : n = Len(row) + 1
  <2>1. \A m \in 0 .. 5 : m + 1 \in Words
    BY DEF Words
  <2>2. QED
    BY <1>1, <2>1
<1>2. v \in Value /\ (~spilt => v.word = <<index + 1, n - value_offsets[n]>>)
  <2>1. v = Load(index, n)
    OBVIOUS
  <2>2. QED
    BY <2>1, LoadedRight
<1>3. r \in Seq(Value) /\ Len(r) = Len(row) + 1
  BY <1>1, <1>2
<1>4. ~spilt => FromRun(r, index)
  <2> SUFFICES ASSUME ~spilt, NEW t \in 1 .. Len(r)
               PROVE  r[t].word = <<index + 1, t - value_offsets[t]>>
    BY DEF FromRun
  <2>1. CASE t = n
    <3>1. r[t] = v
      BY <1>1, <2>1
    <3>2. QED
      BY <1>2, <2>1, <3>1
  <2>2. CASE t # n
    <3>1. t \in 1 .. Len(row) /\ r[t] = row[t]
      BY <1>1, <1>3, <2>2
    <3>2. QED
      BY <3>1 DEF FromRun, OneRunPerReading, EachFromItsRun
  <2>3. QED
    BY <2>1, <2>2
<1>5. CASE Len(r) < 6
  <2>1. row' = r /\ UNCHANGED <<index, chunk>>
    BY <1>5 DEF LoadValue
  <2>2. ReaderTyped' /\ ReaderShape'
    BY <1>1, <1>3, <1>5, <2>1 DEF ReaderTyped, ReaderShape, NoBatch, ulp, memory
  <2>3. BatchIsWhole'
    BY <1>1, <2>1 DEF BatchIsWhole, After
  <2>4. OneRunPerReading'
    BY <1>1, <1>4, <2>1 DEF OneRunPerReading, EachFromItsRun, FromRun, ulp, memory
  <2>5. QED
    BY <2>2, <2>3, <2>4
<1>6. CASE ~(Len(r) < 6)
  <2>1. row' = <<>> /\ chunk' = Append(chunk, r) /\ index' = index + 1
    BY <1>6 DEF LoadValue
  <2>2. chunk' \in Seq(Seq(Value)) /\ Len(chunk') = Len(chunk) + 1
    BY <1>1, <1>3, <2>1
  <2>3. ReaderTyped' /\ ReaderShape'
    BY <1>1, <2>1, <2>2, UlpAssumption DEF ReaderTyped, ReaderShape, NoBatch, ulp, memory
  <2>4. BatchIsWhole'
    BY <1>1, <2>1, <2>2 DEF BatchIsWhole, After
  <2>5. ~spilt =>
          \A j \in 1 .. Len(chunk') : FromRun(chunk'[j], index' - Len(chunk') + j - 1)
    <3> SUFFICES ASSUME ~spilt, NEW j \in 1 .. Len(chunk')
                 PROVE  FromRun(chunk'[j], index - Len(chunk) + j - 1)
      BY <1>1, <2>1, <2>2
    <3>1. CASE j = Len(chunk) + 1
      BY <1>1, <1>4, <2>1, <3>1
    <3>2. CASE j # Len(chunk) + 1
      BY <1>1, <2>1, <2>2, <3>2 DEF OneRunPerReading, EachFromItsRun
    <3>3. QED
      BY <3>1, <3>2
  <2>6. OneRunPerReading'
    <3>1. FromRun(row', index')
      <4>1. row' = <<>> /\ 1 .. 0 = {} /\ Len(<<>>) = 0
        BY <2>1
      <4>2. QED
        BY <4>1 DEF FromRun
    <3>2. spilt' = spilt /\ messages' = messages
      BY <1>1 DEF ulp, memory
    <3>3. QED
      BY <2>5, <3>1, <3>2 DEF OneRunPerReading, EachFromItsRun, FromRun
  <2>7. QED
    BY <2>3, <2>4, <2>6
<1>7. QED
  BY <1>5, <1>6

LEMMA SendKeepsReader ==
  ASSUME UlpInv, SendChunk
  PROVE  ReaderInv'
<1> DEFINE m == [first |-> index - Len(chunk), datos |-> chunk]
<1> USE DEF UlpInv, ReaderInv
<1>1. /\ phase = "reading" /\ chunk # <<>> /\ chunk' = <<>>
      /\ messages' = Append(messages, m)
      /\ UNCHANGED <<ulp, timer, phase, cold, available, index, row>>
  BY DEF SendChunk, FirstOf
<1>2. /\ index \in Nat /\ available \in Nat /\ index <= available /\ available <= MaxRuns
      /\ Len(chunk) \in Nat /\ Len(chunk) <= index /\ Len(chunk) <= ChunkSize
      /\ chunk \in Seq(Seq(Value)) /\ Len(messages) \in Nat
      /\ messages \in Seq([first : 0 .. MaxRuns, datos : Seq(Seq(Value))])
  BY UlpAssumption DEF ReaderTyped, ReaderShape, MemoryInv, CountersTyped
<1>3. m \in [first : 0 .. MaxRuns, datos : Seq(Seq(Value))]
  <2>1. \A i, k \in Nat : k <= i /\ i <= MaxRuns => i - k \in 0 .. MaxRuns
    BY UlpAssumption
  <2>2. QED
    BY <1>2, <2>1, UlpAssumption
<1>4. /\ Len(messages') = Len(messages) + 1 /\ messages'[Len(messages) + 1] = m
      /\ \A k \in 1 .. Len(messages) : messages'[k] = messages[k]
      /\ messages' # <<>>
  <2>1. Len(messages') = Len(messages) + 1
    BY <1>1, <1>2, <1>3
  <2>2. messages'[Len(messages) + 1] = m
    BY <1>1, <1>2, <1>3
  <2>3. \A k \in 1 .. Len(messages) : messages'[k] = messages[k]
    BY <1>1, <1>2, <1>3
  <2>4. messages' # <<>>
    BY <1>2, <2>1
  <2>5. QED
    BY <2>1, <2>2, <2>3, <2>4
<1>5. ReaderTyped' /\ ReaderShape'
  <2>1. messages' \in Seq([first : 0 .. MaxRuns, datos : Seq(Seq(Value))])
    BY <1>1, <1>2, <1>3
  <2>2. QED
    BY <1>1, <1>2, <2>1, UlpAssumption DEF ReaderTyped, ReaderShape, NoBatch, ulp, memory
<1>6. BatchIsWhole'
  <2>1. m.first = IF messages = <<>> THEN 0 ELSE After(Len(messages))
    BY DEF BatchIsWhole
  <2>2. \A k \in 1 .. Len(messages) : After(k)' = After(k)
    BY <1>4 DEF After
  <2>3. ASSUME NEW k \in 1 .. Len(messages')
        PROVE  messages'[k].first = IF k = 1 THEN 0 ELSE After(k - 1)'
    <3>1. CASE k = Len(messages) + 1
      <4>1. CASE messages = <<>>
        BY <1>4, <2>1, <3>1, <4>1
      <4>2. CASE messages # <<>>
        <5>1. Len(messages) >= 1 /\ k # 1 /\ k - 1 = Len(messages)
          BY <1>2, <3>1, <4>2
        <5>2. After(k - 1)' = After(Len(messages))
          BY <1>2, <2>2, <5>1
        <5>3. QED
          BY <1>4, <2>1, <3>1, <4>2, <5>1, <5>2
      <4>3. QED
        BY <4>1, <4>2
    <3>2. CASE k # Len(messages) + 1
      <4>1. k \in 1 .. Len(messages)
        BY <1>2, <1>4, <2>3, <3>2
      <4>2. messages'[k].first = IF k = 1 THEN 0 ELSE After(k - 1)
        BY <1>4, <4>1 DEF BatchIsWhole
      <4>3. k # 1 => k - 1 \in 1 .. Len(messages)
        BY <1>2, <4>1
      <4>4. QED
        BY <2>2, <4>2, <4>3
    <3>3. QED
      BY <3>1, <3>2
  <2>4. index' - Len(chunk') = After(Len(messages))'
    <3>1. \A i, k \in Nat : i - 0 = i - k + k
      OBVIOUS
    <3>2. After(Len(messages))' = index - Len(chunk) + Len(chunk)
      BY <1>4 DEF After
    <3>3. index' = index /\ Len(chunk') = 0
      BY <1>1
    <3>4. QED
      BY <1>2, <3>1, <3>2, <3>3
  <2>5. QED
    BY <1>1, <1>4, <2>3, <2>4 DEF BatchIsWhole
<1>7. OneRunPerReading'
  <2> SUFFICES ASSUME ~spilt PROVE EachFromItsRun'
    BY <1>1 DEF OneRunPerReading, ulp, memory
  <2> USE DEF OneRunPerReading, EachFromItsRun
  <2>1. FromRun(row', index')
    BY <1>1 DEF FromRun
  <2>2. 1 .. Len(chunk') = {}
    BY <1>1
  <2>3. ASSUME NEW k \in 1 .. Len(messages'), NEW j \in 1 .. Len(messages'[k].datos)
        PROVE  FromRun(messages'[k].datos[j], messages'[k].first + j - 1)
    <3>1. CASE k = Len(messages) + 1
      BY <1>4, <2>3, <3>1
    <3>2. CASE k # Len(messages) + 1
      <4>1. k \in 1 .. Len(messages)
        <5>1. \A n \in Nat : \A i \in 1 .. n + 1 : i # n + 1 => i \in 1 .. n
          OBVIOUS
        <5>2. k \in 1 .. Len(messages) + 1
          BY <1>4
        <5>3. QED
          BY <1>2, <3>2, <5>1, <5>2
      <4>2. QED
        BY <1>4, <2>3, <4>1
    <3>3. QED
      BY <3>1, <3>2
  <2>4. QED
    BY <2>1, <2>2, <2>3 DEF FromRun
<1>8. QED
  BY <1>5, <1>6, <1>7

LEMMA FinishKeepsReader ==
  ASSUME UlpInv, FinishBatch
  PROVE  ReaderInv'
<1> USE DEF UlpInv, ReaderInv
<1>1. /\ phase = "reading" /\ phase' = "done" /\ chunk = <<>> /\ row = <<>>
      /\ index >= available /\ UNCHANGED <<ulp, timer, cold, reader>>
  BY DEF FinishBatch
<1>2. index = available
  BY <1>1 DEF ReaderTyped
<1>3. ReaderTyped' /\ ReaderShape'
  BY <1>1, <1>2 DEF ReaderTyped, ReaderShape, NoBatch, reader, ulp, memory, Phases
<1>4. BatchIsWhole' /\ OneRunPerReading'
  BY <1>1, <1>2
     DEF BatchIsWhole, After, OneRunPerReading, EachFromItsRun, FromRun, reader, ulp, memory
<1>5. QED
  BY <1>3, <1>4

\* The steps of the main task around a batch, before and after it.
LEMMA OthersKeepReader ==
  ASSUME UlpInv, UlpBoot \/ UlpTimerStop \/ SkipBatch \/ UlpStart \/ UlpReset
  PROVE  ReaderInv'
<1>1. NoBatch' /\ (phase \in Phases)'
  BY DEF UlpInv, ReaderInv, ReaderShape, NoBatch, Phases,
         UlpBoot, UlpTimerStop, SkipBatch, UlpStart, UlpReset, reader
<1>2. ReaderTyped' /\ BatchIsWhole' /\ OneRunPerReading'
  BY <1>1, NoBatchTyped, NoBatchRight, PTL
<1>3. ~cold' /\ phase' # "sleeping" => runs' >= MinRuns
  BY DEF UlpInv, ReaderInv, ReaderShape, UlpBoot, UlpTimerStop, SkipBatch, UlpStart,
         UlpReset, ulp
<1>4. ReaderShape'
  BY <1>1, <1>3, UlpAssumption DEF ReaderShape, NoBatch
<1>5. QED
  BY <1>2, <1>4 DEF ReaderInv

LEMMA CoprocessorKeepsReader ==
  ASSUME UlpInv, Coprocessor
  PROVE  ReaderInv'
<1>1. /\ runs' \in Int /\ runs \in Int /\ runs <= runs' /\ (spilt => spilt')
      /\ UNCHANGED <<phase, cold, reader>>
  <2>1. runs \in Int
    BY UlpAssumption DEF UlpInv, MemoryInv, CountersTyped
  <2>2. runs' = runs \/ runs' = runs + 1
    BY DEF Coprocessor, UlpWakes, StoreWord, IncCounter
  <2>3. UNCHANGED <<phase, cold, reader>>
    BY DEF Coprocessor, UlpWakes, StoreWord, IncCounter
  <2>4. spilt => spilt'
    BY DEF Coprocessor, UlpWakes, StoreWord, IncCounter, memory
  <2>5. QED
    BY <2>1, <2>2, <2>3, <2>4
<1>2. ReaderTyped' /\ ReaderShape'
  BY <1>1, UlpAssumption DEF UlpInv, ReaderInv, ReaderTyped, ReaderShape, NoBatch, reader
<1>3. BatchIsWhole'
  BY <1>1 DEF UlpInv, ReaderInv, BatchIsWhole, After, reader
<1>4. OneRunPerReading'
  BY <1>1 DEF UlpInv, ReaderInv, OneRunPerReading, EachFromItsRun, FromRun, reader
<1>5. QED
  BY <1>2, <1>3, <1>4 DEF ReaderInv

-----------------------------------------------------------------------------
(* Both together.                                                           *)

Cleared ==
  /\ count = [b \in Buffer |-> 0]
  /\ values = [b \in Buffer |-> [a \in Addresses |-> Unwritten]]
  /\ upc = 0 /\ runs = 0 /\ timer \in BOOLEAN /\ cold \in BOOLEAN /\ spilt = FALSE

LEMMA ClearedMemory == Cleared => MemoryInv
<1> SUFFICES ASSUME Cleared PROVE MemoryInv
  OBVIOUS
<1> USE DEF Cleared
<1>1. 0 \in 0 .. MaxRuns /\ 0 \in 0 .. 12 /\ Unwritten \in (0 .. MaxRuns) \X (0 .. 6)
  BY UlpAssumption DEF Unwritten
<1>2. CountersTyped
  <2>1. 0 \in Int
    OBVIOUS
  <2>2. QED
    BY <1>1, <2>1 DEF CountersTyped
<1>3. CountersRight
  BY DEF CountersRight, Counted, Buffer
<1>4. ValuesRight
  BY DEF ValuesRight, IsStored
<1>5. SpillsRight
  <2>1. ~(2 * 0 > BufferWords)
    BY UlpAssumption
  <2>2. \A k \in Words : ~IsStored(k, runs)
    BY DEF IsStored
  <2>3. QED
    BY <2>1, <2>2 DEF SpillsRight, CapacityIsHalf, Completed
<1>6. QED
  BY <1>2, <1>3, <1>4, <1>5 DEF MemoryInv

LEMMA UlpInitRight == UlpInit => UlpInv
<1> SUFFICES ASSUME UlpInit PROVE UlpInv
  OBVIOUS
<1>1. MemoryInv
  BY ClearedMemory DEF UlpInit, Cleared
<1>2. ReaderTyped /\ BatchIsWhole /\ OneRunPerReading
  BY NoBatchTyped, NoBatchRight DEF UlpInit, Phases
<1>3. ReaderShape
  BY DEF UlpInit, ReaderShape, NoBatch
<1>4. QED
  BY <1>1, <1>2, <1>3 DEF UlpInv, ReaderInv

LEMMA UlpNextRight ==
  ASSUME UlpInv, [UlpNext]_ulpVars
  PROVE  UlpInv'
<1>1. CASE Coprocessor
  <2>1. MemoryInv'
    BY <1>1, WakesKeepMemory, StoreKeepsMemory, CountKeepsMemory DEF Coprocessor, UlpInv
  <2>2. QED
    BY <1>1, <2>1, CoprocessorKeepsReader DEF UlpInv
<1>2. ASSUME UNCHANGED <<ulp, timer>>, cold' \in BOOLEAN PROVE MemoryInv'
  BY <1>2
     DEF UlpInv, MemoryInv, CountersTyped, CountersRight, Counted, ValuesRight, IsStored,
         Place, SpillsRight, CapacityIsHalf, Completed, ulp, memory
<1>3. cold \in BOOLEAN /\ timer \in BOOLEAN /\ runs \in Int
  BY UlpAssumption DEF UlpInv, MemoryInv, CountersTyped
<1>4. ASSUME NEW n \in MayCount \cup 0 .. MinRuns - 1, TakeCount(n) PROVE UlpInv'
  <2>1. UNCHANGED <<ulp, timer, cold>>
    BY <1>4 DEF TakeCount
  <2>2. ReaderInv'
    BY <1>4, TakenRight, TakeKeepsReader
  <2>3. QED
    BY <1>2, <1>3, <2>1, <2>2 DEF UlpInv
<1>8. CASE LoadValue
  BY <1>2, <1>3, <1>8, LoadKeepsReader DEF UlpInv, LoadValue
<1>9. CASE SendChunk
  BY <1>2, <1>3, <1>9, SendKeepsReader DEF UlpInv, SendChunk
<1>10. CASE FinishBatch
  BY <1>2, <1>3, <1>10, FinishKeepsReader DEF UlpInv, FinishBatch
<1>11. CASE UlpBoot \/ SkipBatch
  <2>1. UNCHANGED <<ulp, timer>> /\ cold' \in BOOLEAN
    BY <1>3, <1>11 DEF UlpBoot, SkipBatch
  <2>2. QED
    BY <1>2, <1>11, <2>1, OthersKeepReader DEF UlpInv
<1>12. CASE UlpTimerStop
  <2>1. MemoryInv'
    BY <1>12
       DEF UlpTimerStop, UlpInv, MemoryInv, CountersTyped, CountersRight, Counted,
           ValuesRight, IsStored, Place, SpillsRight, CapacityIsHalf, Completed, ulp, memory
  <2>2. QED
    BY <1>12, <2>1, OthersKeepReader DEF UlpInv
<1>13. CASE UlpStart
  <2>1. MemoryInv'
    <3>1. Cleared'
      BY <1>3, <1>13 DEF UlpStart, Cleared
    <3>2. QED
      BY <3>1, ClearedMemory, PTL
  <2>2. QED
    BY <1>13, <2>1, OthersKeepReader DEF UlpInv
<1>14. CASE UlpReset
  <2>1. CASE UNCHANGED <<ulp, timer>>
    BY <1>2, <1>14, <2>1, OthersKeepReader DEF UlpReset, UlpInv
  <2>2. CASE ~UNCHANGED <<ulp, timer>>
    <3>1. MemoryInv'
      <4>1. Cleared'
        BY <1>3, <1>14, <2>2 DEF UlpReset, Cleared
      <4>2. QED
        BY <4>1, ClearedMemory, PTL
    <3>2. QED
      BY <1>14, <3>1, OthersKeepReader DEF UlpInv
  <2>3. QED
    BY <2>1, <2>2
<1>15. CASE UNCHANGED ulpVars
  <2>1. UNCHANGED <<spilt, runs, phase, cold, available, index, row, chunk, messages>>
    BY <1>15 DEF ulpVars, ulp, memory, reader
  <2>2. ReaderTyped'
    BY <2>1 DEF UlpInv, ReaderInv, ReaderTyped
  <2>3. ReaderShape'
    BY <2>1 DEF UlpInv, ReaderInv, ReaderShape, NoBatch
  <2>4. BatchIsWhole'
    BY <2>1 DEF UlpInv, ReaderInv, BatchIsWhole, After
  <2>5. OneRunPerReading'
    BY <2>1 DEF UlpInv, ReaderInv, OneRunPerReading, EachFromItsRun, FromRun
  <2>6. ReaderInv'
    BY <2>2, <2>3, <2>4, <2>5 DEF ReaderInv
  <2>7. QED
    BY <1>2, <1>3, <1>15, <2>6 DEF UlpInv, ulpVars
<1>16. QED
  BY <1>1, <1>4, <1>8, <1>9, <1>10, <1>11, <1>12, <1>13, <1>14, <1>15 DEF UlpNext

LEMMA UlpTyped ==
  ASSUME UlpInv
  PROVE  UlpTypeOK
<1>1. runs \in 0 .. MaxRuns /\ runs \in Int /\ (upc # 0 => runs >= 1) /\ upc \in 0 .. 12
  BY UlpAssumption DEF UlpInv, MemoryInv, CountersTyped
<1>2. \A k \in Words : Counted(k) \in 0 .. MaxRuns
  BY <1>1, UlpAssumption DEF Counted, Words
<1>3. \A b \in Buffer : count[b] \in 0 .. 2 * MaxRuns
  BY <1>2, UlpAssumption DEF UlpInv, MemoryInv, CountersRight, Buffer, Words
<1>4. ASSUME ~spilt, NEW b \in Buffer PROVE count[b] <= BufferWords
  <2>1. 2 * Completed <= BufferWords
    BY <1>1, <1>4, UlpAssumption DEF UlpInv, MemoryInv, SpillsRight, CapacityIsHalf, Completed
  <2>2. ASSUME NEW k \in Words, IsStored(k, runs) PROVE Place(k, runs) < BufferWords
    <3>1. Place(k, runs) \in Addresses
      BY <1>4, <2>2 DEF UlpInv, MemoryInv, SpillsRight
    <3>2. QED
      BY <3>1, UlpAssumption DEF Addresses
  <2>3. ASSUME NEW k \in Words PROVE Counted(k) = runs \/ Counted(k) = runs - 1
    BY DEF Counted
  <2>4. ASSUME NEW k \in Words, Counted(k) # runs - 1, runs >= 1
        PROVE  Place(k, runs) < BufferWords
    BY <1>1, <2>2, <2>4 DEF Counted, IsStored, Words
  <2>5. /\ Place(1, runs) = runs - 1 /\ Place(2, runs) = runs - 1
        /\ Place(3, runs) = 2 * runs - 2 /\ Place(4, runs) = 2 * runs - 1
        /\ Place(5, runs) = 2 * runs - 2 /\ Place(6, runs) = 2 * runs - 1
    BY <1>1 DEF Place, value_sizes, value_offsets
  <2>6. CASE runs = 0
    <3>1. upc = 0 /\ \A k \in Words : Counted(k) = 0
      BY <1>1, <2>6 DEF Counted
    <3>2. QED
      BY <3>1, UlpAssumption DEF UlpInv, MemoryInv, CountersRight, Buffer, Words
  <2>7. CASE runs # 0
    <3>1. runs >= 1 /\ 2 * (runs - 1) <= BufferWords
      BY <1>1, <2>1, <2>7, UlpAssumption DEF Completed
    <3>2. ASSUME NEW k \in Words
          PROVE  \/ Counted(k) = runs - 1
                 \/ Counted(k) = runs /\ Place(k, runs) < BufferWords
      <4>1. CASE Counted(k) = runs - 1
        BY <4>1
      <4>2. CASE Counted(k) # runs - 1
        <5>1. Place(k, runs) < BufferWords
          BY <2>4, <3>1, <4>2
        <5>2. Counted(k) = runs
          BY <2>3, <4>2
        <5>3. QED
          BY <5>1, <5>2
      <4>3. QED
        BY <4>1, <4>2
    <3>3. Counted(1) <= BufferWords /\ Counted(2) <= BufferWords
      BY <1>1, <2>5, <3>1, <3>2, UlpAssumption DEF Words
    <3>4. Counted(3) + Counted(4) <= BufferWords
      <4>1. Counted(4) = runs => 2 * runs <= BufferWords
        BY <1>1, <2>5, <3>2, UlpAssumption DEF Words
      <4>2. Counted(3) = runs => 2 * runs - 1 <= BufferWords
        BY <1>1, <2>5, <3>2, UlpAssumption DEF Words
      <4>3. QED
        BY <1>1, <2>3, <3>1, <4>1, <4>2, UlpAssumption DEF Words
    <3>5. Counted(5) + Counted(6) <= BufferWords
      <4>1. Counted(6) = runs => 2 * runs <= BufferWords
        BY <1>1, <2>5, <3>2, UlpAssumption DEF Words
      <4>2. Counted(5) = runs => 2 * runs - 1 <= BufferWords
        BY <1>1, <2>5, <3>2, UlpAssumption DEF Words
      <4>3. QED
        BY <1>1, <2>3, <3>1, <4>1, <4>2, UlpAssumption DEF Words
    <3>6. QED
      BY <3>3, <3>4, <3>5 DEF UlpInv, MemoryInv, CountersRight, Buffer
  <2>8. QED
    BY <2>6, <2>7
<1>5. count \in [Buffer -> 0 .. 2 * MaxRuns]
  BY <1>3 DEF UlpInv, MemoryInv, CountersTyped
<1>6. available \in 0 .. MaxRuns /\ index \in 0 .. MaxRuns
  BY <1>1, UlpAssumption DEF UlpInv, ReaderInv, ReaderTyped, ReaderShape
<1>7. QED
  BY <1>4, <1>5, <1>6
     DEF UlpTypeOK, UlpInv, MemoryInv, CountersTyped, ReaderInv, ReaderTyped, Phases

LEMMA UlpInvariant == UlpSpec => []UlpInv
BY UlpInitRight, UlpNextRight, PTL DEF UlpSpec

\* While no word has missed its buffer the counters are within it, and the reader's place
\* is one of a run, for any number of runs.
THEOREM UlpTypeCorrect == UlpSpec => []UlpTypeOK
BY UlpInvariant, UlpTyped, PTL

\* The buffers hold half as many runs as they have words: the first word that misses its
\* buffer is one of the run after those, and nothing keeps it from being stored
\* (ulp.S:23-40, 62-77).
THEOREM CapacityIsHalfCorrect == UlpSpec => []CapacityIsHalf
<1>1. UlpInv => CapacityIsHalf
  BY DEF UlpInv, MemoryInv, SpillsRight
<1>2. QED
  BY <1>1, UlpInvariant, PTL

\* No reading mixes runs, although the coprocessor may finish one while it is read
\* (ulp.c:112-125).
THEOREM OneRunPerReadingCorrect == UlpSpec => []OneRunPerReading
<1>1. UlpInv => OneRunPerReading
  BY DEF UlpInv, ReaderInv
<1>2. QED
  BY <1>1, UlpInvariant, PTL

\* The messages of a batch follow each other and cover it (node.c:118-135).
THEOREM BatchIsWholeCorrect == UlpSpec => []BatchIsWhole
<1>1. UlpInv => BatchIsWhole
  BY DEF UlpInv, ReaderInv
<1>2. QED
  BY <1>1, UlpInvariant, PTL

-----------------------------------------------------------------------------
(* The memory implements Sampling.                                          *)

\* All messages but the last one are full, and so are all readings.
FullInv ==
  /\ \/ index - Len(chunk) = ChunkSize * Len(messages)
     \/ chunk = <<>> /\ index = available
  /\ \A j \in 1 .. Len(chunk) : Len(chunk[j]) = 6

LEMMA FullAtFirst == NoBatch => FullInv
<1> SUFFICES ASSUME NoBatch PROVE FullInv
  OBVIOUS
<1>1. chunk = <<>> /\ index = available /\ Len(chunk) = 0
  BY DEF NoBatch
<1>2. QED
  BY <1>1 DEF FullInv

LEMMA LoadKeepsFull ==
  ASSUME UlpInv, FullInv, LoadValue
  PROVE  FullInv'
<1> DEFINE r == Append(row, Load(index, Len(row) + 1))
<1>1. /\ index \in Nat /\ index < available /\ Len(row) \in Nat /\ Len(chunk) \in Nat
      /\ row \in Seq(Value) /\ Len(row) < 6 /\ chunk \in Seq(Seq(Value))
      /\ available \in Nat /\ UNCHANGED <<available, messages>>
  BY DEF UlpInv, ReaderInv, ReaderTyped, LoadValue
<1>2. index - Len(chunk) = ChunkSize * Len(messages)
  BY <1>1 DEF FullInv
<1>3. r \in Seq(Value) /\ Len(r) = Len(row) + 1
  <2>1. Len(row) + 1 \in Words
    BY <1>1 DEF Words
  <2>2. Load(index, Len(row) + 1) \in Value
    BY <2>1, LoadedRight
  <2>3. QED
    BY <1>1, <2>2
<1>4. CASE Len(r) < 6
  BY <1>1, <1>4 DEF LoadValue, FullInv
<1>5. CASE ~(Len(r) < 6)
  <2>1. chunk' = Append(chunk, r) /\ index' = index + 1
    BY <1>5 DEF LoadValue
  <2>2. Len(chunk') = Len(chunk) + 1 /\ Len(r) = 6
    BY <1>1, <1>3, <1>5, <2>1
  <2>3. index' - Len(chunk') = index - Len(chunk)
    BY <1>1, <2>1, <2>2
  <2>4. \A j \in 1 .. Len(chunk') : Len(chunk'[j]) = 6
    <3> SUFFICES ASSUME NEW j \in 1 .. Len(chunk') PROVE Len(chunk'[j]) = 6
      OBVIOUS
    <3>1. CASE j = Len(chunk) + 1
      BY <1>1, <1>3, <2>1, <2>2, <3>1
    <3>2. CASE j # Len(chunk) + 1
      BY <1>1, <1>3, <2>1, <2>2, <3>2 DEF FullInv
    <3>3. QED
      BY <3>1, <3>2
  <2>5. QED
    BY <1>1, <1>2, <2>3, <2>4 DEF FullInv
<1>6. QED
  BY <1>4, <1>5

\* What SendChunk adds to the messages, and where it leaves the reader.
LEMMA MessageSent ==
  ASSUME UlpInv, FullInv, SendChunk
  PROVE  /\ messages' = Append(messages, [first |-> index - Len(chunk), datos |-> chunk])
         /\ Len(messages) \in Nat /\ Len(messages') = Len(messages) + 1
         /\ index - Len(chunk) = ChunkSize * Len(messages)
         /\ Len(chunk) \in 1 .. ChunkSize
         /\ index <= available
         /\ Len(chunk) = ChunkSize \/ index = available
         /\ UNCHANGED <<index, available, upc, runs, spilt>>
<1>1. /\ index \in Nat /\ available \in Nat /\ index <= available
      /\ chunk \in Seq(Seq(Value)) /\ Len(chunk) \in Nat /\ Len(chunk) <= ChunkSize
      /\ Len(chunk) <= index
      /\ messages \in Seq([first : 0 .. MaxRuns, datos : Seq(Seq(Value))])
      /\ Len(messages) \in Nat
  BY DEF UlpInv, ReaderInv, ReaderTyped
<1>2. /\ chunk # <<>>
      /\ Len(chunk) = ChunkSize \/ index = available
      /\ messages' = Append(messages, [first |-> index - Len(chunk), datos |-> chunk])
      /\ UNCHANGED <<index, available, upc, runs, spilt>>
  BY DEF SendChunk, FirstOf, ulp, memory
<1>3. Len(chunk) # 0
  BY <1>1, <1>2, EmptySeq
<1>4. index - Len(chunk) \in 0 .. MaxRuns
  BY <1>1, UlpAssumption DEF UlpInv, ReaderInv, ReaderTyped
<1>5. Len(messages') = Len(messages) + 1
  BY <1>1, <1>2, <1>4
<1>6. index - Len(chunk) = ChunkSize * Len(messages)
  BY <1>2 DEF FullInv
<1>7. QED
  BY <1>1, <1>2, <1>3, <1>5, <1>6, UlpAssumption

LEMMA SendKeepsFull ==
  ASSUME UlpInv, FullInv, SendChunk
  PROVE  FullInv'
<1>1. chunk' = <<>> /\ Len(chunk') = 0
  BY DEF SendChunk
<1>2. CASE Len(chunk) = ChunkSize
  <2>1. \A c, l \in Nat : c * (l + 1) = c * l + c
    OBVIOUS
  <2>2. \A i, c \in Nat : i - 0 = i - c + c
    OBVIOUS
  <2>3. index' - 0 = ChunkSize * Len(messages')
    <3>1. /\ index' = index /\ index \in Nat /\ ChunkSize \in Nat
          /\ Len(messages) \in Nat /\ Len(messages') = Len(messages) + 1
          /\ index - ChunkSize = ChunkSize * Len(messages)
      BY <1>2, MessageSent, UlpAssumption DEF UlpInv, ReaderInv, ReaderTyped
    <3>2. ChunkSize * Len(messages') = ChunkSize * Len(messages) + ChunkSize
      BY <2>1, <3>1
    <3>3. QED
      BY <2>2, <3>1, <3>2
  <2>4. QED
    BY <1>1, <2>3 DEF FullInv
<1>3. CASE index = available
  BY <1>1, <1>3, MessageSent DEF FullInv
<1>4. QED
  BY <1>2, <1>3, MessageSent

LEMMA FullKept ==
  ASSUME UlpInv, FullInv, [UlpNext]_ulpVars
  PROVE  FullInv'
<1>1. CASE UNCHANGED reader
  BY <1>1 DEF reader, FullInv
<1>2. ASSUME NEW n, TakeCount(n) PROVE FullInv'
  <2>1. NoBatch
    BY <1>2 DEF UlpInv, ReaderInv, ReaderShape, TakeCount
  <2>2. chunk = <<>> /\ index = 0 /\ messages = <<>> /\ Len(chunk) = 0 /\ Len(messages) = 0
    BY <2>1 DEF NoBatch
  <2>3. \A c \in Nat : 0 - 0 = c * 0
    OBVIOUS
  <2>4. UNCHANGED <<index, chunk, messages>>
    BY <1>2 DEF TakeCount
  <2>5. QED
    BY <2>2, <2>3, <2>4, UlpAssumption DEF FullInv
<1>3. CASE UlpStart \/ UlpReset
  <2>1. NoBatch'
    BY <1>3 DEF UlpStart, UlpReset, NoBatch
  <2>2. QED
    BY <2>1, FullAtFirst, PTL
<1>4. ASSUME Coprocessor \/ UlpBoot \/ UlpTimerStop \/ FinishBatch \/ SkipBatch \/ UNCHANGED ulpVars
      PROVE  UNCHANGED reader
  BY <1>4 DEF Coprocessor, UlpWakes, StoreWord, IncCounter, UlpBoot, UlpTimerStop,
              FinishBatch, SkipBatch, ulpVars, reader
<1>5. QED
  BY <1>1, <1>2, <1>3, <1>4, LoadKeepsFull, SendKeepsFull DEF UlpNext

\* What is sent is what Sampling sends.
LEMMA ChunkIsMessage ==
  ASSUME UlpInv, FullInv, SendChunk, ~spilt
  PROVE  Dated([first |-> index - Len(chunk), datos |-> chunk])
           = Samples!Message(ChunkSize * Len(messages), Len(chunk))
<1> DEFINE first == ChunkSize * Len(messages)
<1>1. index - Len(chunk) = first /\ first \in Int
  BY MessageSent, UlpAssumption
<1>2. ASSUME NEW j \in 1 .. Len(chunk) PROVE RunsOf(chunk[j]) = {first + j}
  <2>1. Len(chunk[j]) = 6 /\ FromRun(chunk[j], first + j - 1)
    BY <1>1 DEF FullInv, UlpInv, ReaderInv, OneRunPerReading, EachFromItsRun
  <2>2. j \in Int
    OBVIOUS
  <2>3. \A t \in 1 .. 6 : chunk[j][t].word[1] = first + j
    BY <1>1, <2>1, <2>2 DEF FromRun
  <2>4. 1 \in 1 .. 6
    OBVIOUS
  <2>5. RunsOf(chunk[j]) = {chunk[j][t].word[1] : t \in 1 .. 6}
    BY <2>1 DEF RunsOf
  <2>6. QED
    BY <2>3, <2>4, <2>5
<1>3. [j \in 1 .. Len(chunk) |-> RunsOf(chunk[j])] = [j \in 1 .. Len(chunk) |-> {first + j}]
  BY <1>2
<1>4. QED
  BY <1>1, <1>3 DEF Dated, Samples!Message

LEMMA SentGrows ==
  ASSUME UlpInv, FullInv, SendChunk, ~spilt
  PROVE  /\ Len(Sent) = Len(messages)
         /\ Sent' = Append(Sent, Samples!Message(ChunkSize * Len(messages), Len(chunk)))
<1> DEFINE m == [first |-> index - Len(chunk), datos |-> chunk]
           e == Dated(m)
           S == {Dated(messages[k]) : k \in 1 .. Len(messages)} \cup {e}
<1>1. /\ Len(messages) \in Nat /\ Len(messages') = Len(messages) + 1
      /\ messages' = Append(messages, m)
  BY MessageSent
<1>2. /\ \A k \in 1 .. Len(messages) : messages'[k] = messages[k]
      /\ messages'[Len(messages) + 1] = m
  BY <1>1 DEF UlpInv, ReaderInv, ReaderTyped
<1>3. Sent \in Seq(S) /\ Len(Sent) = Len(messages)
  BY <1>1 DEF Sent
<1>4. Sent' \in Seq(S) /\ Len(Sent') = Len(messages) + 1
  <2>1. \A k \in 1 .. Len(messages) + 1 : Dated(messages'[k]) \in S
    <3> SUFFICES ASSUME NEW k \in 1 .. Len(messages) + 1 PROVE Dated(messages'[k]) \in S
      OBVIOUS
    <3>1. k \in 1 .. Len(messages) \/ k = Len(messages) + 1
      BY <1>1
    <3>2. QED
      BY <1>2, <3>1
  <2>2. Sent' = [k \in 1 .. Len(messages) + 1 |-> Dated(messages'[k])]
    BY <1>1 DEF Sent, Dated, RunsOf
  <2>3. QED
    BY <1>1, <2>1, <2>2
<1>5. Append(Sent, e) \in Seq(S) /\ Len(Append(Sent, e)) = Len(messages) + 1
  BY <1>3
<1>6. \A k \in 1 .. Len(messages) + 1 : Sent'[k] = Append(Sent, e)[k]
  <2> SUFFICES ASSUME NEW k \in 1 .. Len(messages) + 1 PROVE Sent'[k] = Append(Sent, e)[k]
    OBVIOUS
  <2>1. Sent'[k] = Dated(messages'[k])
    BY <1>1 DEF Sent, Dated, RunsOf
  <2>2. CASE k = Len(messages) + 1
    BY <1>2, <1>3, <2>1, <2>2
  <2>3. CASE k # Len(messages) + 1
    <3>1. k \in 1 .. Len(messages)
      BY <1>1, <2>3
    <3>2. Append(Sent, e)[k] = Sent[k] /\ Sent[k] = Dated(messages[k])
      BY <1>3, <3>1 DEF Sent
    <3>3. QED
      BY <1>2, <2>1, <3>1, <3>2
  <2>4. QED
    BY <2>2, <2>3
<1>7. Sent' = Append(Sent, e)
  BY <1>4, <1>5, <1>6, SeqEqual
<1>8. QED
  BY <1>3, <1>7, ChunkIsMessage

LEMMA NothingSent == messages = <<>> => Sent = <<>>
BY DEF Sent

LEMMA StepOfSampling ==
  ASSUME UlpInv, FullInv, [UlpNext]_ulpVars
  PROVE  [Samples!Next]_Samples!svars
<1> USE DEF Samples!svars
<1>1. runs \in Int /\ (upc # 0 => runs >= 1)
  BY UlpAssumption DEF UlpInv, MemoryInv, CountersTyped
<1>2. ASSUME UNCHANGED messages PROVE Sent' = Sent
  BY <1>2 DEF Sent, Dated, RunsOf
<1>3. CASE Coprocessor
  <2>1. UNCHANGED <<available, messages>>
    BY <1>3 DEF Coprocessor, UlpWakes, StoreWord, IncCounter, reader
  <2>2. CASE Completed' = Completed /\ spilt' = spilt
    BY <1>2, <2>1, <2>2
  <2>3. CASE UlpWakes
    BY <1>1, <2>2, <2>3 DEF UlpWakes, Completed, memory
  <2>4. ASSUME NEW k \in Words, StoreWord(k) PROVE [Samples!Next]_Samples!svars
    <3>1. runs >= 1 /\ Completed = runs - 1 /\ Completed' = Completed
      BY <1>1, <2>4 DEF StoreWord, Completed, Words
    <3>2. CASE spilt' = TRUE
      <4>1. 2 * runs > BufferWords
        <5>1. MemoryInv'
          BY <2>4, StoreKeepsMemory DEF UlpInv
        <5>2. runs' = runs
          BY <2>4 DEF StoreWord
        <5>3. QED
          BY <3>2, <5>1, <5>2 DEF MemoryInv, SpillsRight, CapacityIsHalf
      <4>2. Completed >= BufferWords \div 2
        BY <1>1, <3>1, <4>1, UlpAssumption
      <4>3. QED
        BY <1>2, <2>1, <3>1, <3>2, <4>2 DEF Samples!Next, Samples!Overflow
    <3>3. CASE spilt' = spilt
      BY <2>2, <3>1, <3>3
    <3>4. QED
      BY <2>4, <3>2, <3>3 DEF StoreWord
  <2>5. ASSUME NEW k \in Words, IncCounter(k) PROVE [Samples!Next]_Samples!svars
    <3>1. spilt' = spilt /\ runs' = runs /\ (Completed' = Completed \/ Completed' = Completed + 1)
      BY <1>1, <2>5 DEF IncCounter, Completed, Words
    <3>2. CASE Completed' = Completed + 1
      <4>1. 2 * Completed' > BufferWords => spilt
        <5>1. MemoryInv'
          BY <2>5, CountKeepsMemory DEF UlpInv
        <5>2. QED
          BY <3>1, <5>1 DEF MemoryInv, SpillsRight, CapacityIsHalf
      <4>2. Completed \in Int
        BY <1>1 DEF Completed
      <4>3. Completed < BufferWords \div 2 \/ spilt
        BY <3>2, <4>1, <4>2, UlpAssumption
      <4>4. QED
        BY <1>2, <2>1, <3>1, <3>2, <4>3 DEF Samples!Next, Samples!Sample
    <3>3. QED
      BY <2>2, <3>1, <3>2
  <2>6. QED
    BY <1>3, <2>3, <2>4, <2>5 DEF Coprocessor
<1>4. ASSUME UNCHANGED <<upc, runs, spilt, available, messages>> PROVE UNCHANGED Samples!svars
  BY <1>2, <1>4 DEF Completed
<1>5. CASE LoadValue \/ UlpBoot \/ UlpTimerStop \/ FinishBatch \/ SkipBatch \/ UNCHANGED ulpVars
  BY <1>4, <1>5
     DEF LoadValue, UlpBoot, UlpTimerStop, FinishBatch, SkipBatch, ulpVars, ulp, memory, reader
<1>6. ASSUME NEW n \in MayCount \cup 0 .. MinRuns - 1, TakeCount(n) PROVE Samples!Next
  <2>1. available = 0 /\ messages = <<>>
    BY <1>6 DEF UlpInv, ReaderInv, ReaderShape, NoBatch, TakeCount
  <2>2. UNCHANGED <<upc, runs, spilt, messages>> /\ available' = n
    BY <1>6 DEF TakeCount, ulp, memory
  <2>3. Completed' = Completed
    BY <2>2 DEF Completed
  <2>4. CASE spilt
    BY <2>2, <2>3, <2>4 DEF Samples!Next, Samples!Unpromised
  <2>5. CASE ~spilt
    <3>1. n \in 0 .. runs - 1
      BY <1>6, <2>5, TakenRight
    <3>2. n \in 0 .. Completed
      BY <1>1, <3>1 DEF Completed
    <3>3. QED
      BY <1>2, <2>1, <2>2, <2>3, <3>2, NothingSent DEF Samples!Next, Samples!Take
  <2>6. QED
    BY <2>4, <2>5
<1>7. CASE SendChunk
  <2>1. UNCHANGED <<Completed, spilt, available>>
    BY <1>7, MessageSent DEF Completed
  <2>2. CASE spilt
    BY <2>1, <2>2 DEF Samples!Next, Samples!Unpromised
  <2>3. CASE ~spilt
    <3>1. ChunkSize * Len(Sent) + Len(chunk) = index
      BY <1>7, <2>3, MessageSent, SentGrows, UlpAssumption DEF UlpInv, ReaderInv, ReaderTyped
    <3>2. Samples!Send
      BY <1>7, <2>1, <2>3, <3>1, MessageSent, SentGrows DEF Samples!Send
    <3>3. QED
      BY <3>2 DEF Samples!Next
  <2>4. QED
    BY <2>2, <2>3
<1>8. CASE UlpStart \/ UlpReset
  <2>1. available' = 0 /\ messages' = <<>>
    BY <1>8 DEF UlpStart, UlpReset
  <2>2. \/ Completed' = 0 /\ spilt' = FALSE
        \/ Completed' = Completed /\ spilt' = spilt
    BY <1>8 DEF UlpStart, UlpReset, Completed, ulp, memory
  <2>3. Sent' = <<>>
    BY <2>1 DEF Sent
  <2>4. QED
    BY <2>1, <2>2, <2>3 DEF Samples!Next, Samples!StartOver
<1>9. QED
  BY <1>3, <1>5, <1>6, <1>7, <1>8 DEF UlpNext

LEMMA FullInvariant == UlpSpec => []FullInv
<1>1. UlpInit => FullInv
  BY FullAtFirst DEF UlpInit
<1>2. QED
  BY <1>1, UlpInvariant, FullKept, PTL DEF UlpSpec

\* Two cores on one memory, in any interleaving and across sleeps and resets, send the
\* batches that a board would send which samples and reads in single steps: readings of
\* runs that were over, in order, none twice, in full messages but the last; until the run
\* comes that the buffers do not hold, and again after the next start
\* (ulp.S:23-40, 102 on, ulp.c:59-125, node.c:117-135).
THEOREM SamplingImplemented == UlpSpec => SamplingSpec
<1>1. UlpInit => Samples!Init
  BY NothingSent DEF UlpInit, NoBatch, Samples!Init, Completed
<1>2. QED
  BY <1>1, UlpInvariant, FullInvariant, StepOfSampling, PTL
     DEF UlpSpec, SamplingSpec, Samples!Spec
=============================================================================
