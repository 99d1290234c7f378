------------------------------ MODULE UlpBuffer ------------------------------
(***************************************************************************)
(* The buffers in RTC memory that the ULP coprocessor fills (ulp.S) and the  *)
(* main core empties (ulp.c, and the loops of node.c and gateway.c).         *)
(*                                                                          *)
(* The coprocessor stores a word and increments a counter in two separate    *)
(* steps, six times a run.  At wake-up the main task stops the timer that    *)
(* starts the runs, but not a run that is under way, and then reads the      *)
(* memory word by word: both cores step in any order.                        *)
(***************************************************************************)
EXTENDS Integers, Sequences

CONSTANTS BufferWords,  \* words in each buffer (CONFIG_SPV_SENSOR_READ_BUFFER_COUNT)
          ChunkSize,    \* readings in a message (CONFIG_SPV_TELEMETRY_CHUNK_SIZE)
          MinRuns,      \* a batch is read no sooner than this many runs have begun
          MaxRuns,      \* bound: runs of the coprocessor between start and wake-up
          SizeMax       \* the largest size_t

ASSUME UlpAssumption ==
  /\ {BufferWords, ChunkSize, MinRuns, MaxRuns, SizeMax} \subseteq Nat
  /\ ChunkSize > 0
  /\ 2 <= MinRuns /\ MinRuns <= MaxRuns
  /\ MaxRuns < SizeMax

Buffer == {"noise", "luminosity", "gas", "env"}

\* Mutant of Program: the second word of the gas sensor is stored with those of env.
ProgramMixedUp == <<"noise", "luminosity", "gas", "env", "env", "env">>

\* The buffer of each of the six words of a run.
Program == <<"noise", "luminosity", "gas", "gas", "env", "env">>

Words == 1 .. 6

Unwritten == <<0, 0>>
Addresses == 0 .. BufferWords - 1

VARIABLES
  count,     \* *_count
  values,    \* *_values: for each word, the run and the place in the run it is from
  upc,       \* the coprocessor: 0 halted, 2k - 1 about to store word k of a run,
             \* 2k about to count it
  timer,     \* whether the timer starts runs
  runs,      \* history: runs begun since spv_ulp_start
  spilt,     \* history: a word was stored outside its buffer since spv_ulp_start
  phase,     \* where the main task is with the batch
  cold,      \* esp_reset_reason() != ESP_RST_DEEPSLEEP
  available, \* reading_count
  index,     \* reading + i
  row,       \* the values of the current reading loaded so far
  chunk,     \* msg->datos
  messages   \* history: the messages sent from this batch

memory == <<count, values, spilt>>
ulp == <<memory, upc, runs>>
reader == <<available, index, row, chunk, messages>>
ulpVars == <<ulp, timer, phase, cold, reader>>

NoBatch ==
  /\ available = 0 /\ index = 0
  /\ row = <<>> /\ chunk = <<>> /\ messages = <<>>

UlpInit ==
  /\ count = [b \in Buffer |-> 0]
  /\ values = [b \in Buffer |-> [a \in Addresses |-> Unwritten]]
  /\ upc = 0 /\ timer = FALSE /\ runs = 0 /\ spilt = FALSE
  /\ phase = "booting" /\ cold = TRUE
  /\ NoBatch

-----------------------------------------------------------------------------
(* The coprocessor.                                                         *)

\* The timer elapses.  Nothing but the bound MaxRuns ends the runs of a sleep.
UlpWakes ==
  /\ timer /\ upc = 0 /\ runs < MaxRuns
  /\ upc' = 1 /\ runs' = runs + 1
  /\ UNCHANGED <<memory, timer, phase, cold, reader>>

\* STORE_WORD.  No counter is compared with the size of a buffer: a word that has no
\* place in its own overwrites the counter behind it, then anything.  The memory is not
\* followed any further: what is read of it afterwards is left open (MayCount, Load).
StoreWord(k) ==
  /\ upc = 2 * k - 1
  /\ LET b == Program[k]
     IN IF count[b] \in Addresses
        THEN /\ values' = [values EXCEPT ![b][count[b]] = <<runs, k>>]
             /\ UNCHANGED spilt
        ELSE spilt' = TRUE /\ UNCHANGED values
  /\ upc' = upc + 1
  /\ UNCHANGED <<count, timer, runs, phase, cold, reader>>

\* Mutant of Incremented: the word is counted twice.
IncrementedTwice(n) == n + 2

Incremented(n) == n + 1

\* INC_COUNTER, and HALT after the last word.
IncCounter(k) ==
  /\ upc = 2 * k
  /\ count' = [count EXCEPT ![Program[k]] = Incremented(@)]
  /\ upc' = IF k = 6 THEN 0 ELSE upc + 1
  /\ UNCHANGED <<values, spilt, timer, runs, phase, cold, reader>>

Coprocessor == UlpWakes \/ \E k \in Words : StoreWord(k) \/ IncCounter(k)

-----------------------------------------------------------------------------
(* The main task.                                                           *)

\* Deep sleep ends.
UlpBoot ==
  /\ phase = "sleeping" /\ runs >= MinRuns
  /\ phase' = "booting" /\ cold' = FALSE
  /\ UNCHANGED <<ulp, timer, reader>>

\* ulp_timer_stop: no further run starts, one under way goes on.
UlpTimerStop ==
  /\ phase = "booting"
  /\ timer' = FALSE /\ phase' = "stopped"
  /\ UNCHANGED <<ulp, cold, reader>>

\* The words per reading and which of them a type is, in the order of
\* spv_ulp_reading_type_t: noise, luminosity, co2, voc, humidity, temperature.
value_sizes == <<1, 1, 2, 2, 2, 2>>
value_offsets == <<0, 0, 0, 1, 0, 1>>

\* Mutant of OneLess: the sample that may be under way is counted too.
OneLessNot(n) == n

OneLess(n) == IF n = 0 THEN SizeMax ELSE n - 1

\* spv_ulp_get_reading_count of the type t.
ReadingCount(t) == OneLess(count[Program[t]] \div value_sizes[t])

\* The counts that a node may find: any one once the counters have been overwritten.
MayCount == IF spilt THEN 0 .. MaxRuns ELSE {ReadingCount(1)}

\* The batch is as large as n says: a node asks for the count of noise readings,
\* a gateway always takes the same number.
TakeCount(n) ==
  /\ phase = "stopped" /\ ~cold
  /\ available' = n
  /\ phase' = "reading"
  /\ UNCHANGED <<ulp, timer, cold, index, row, chunk, messages>>

\* spv_ulp_get_reading: the offset is added to the word that was loaded, not to its
\* address.  What lies behind the buffer is not followed; nor is what a word is worth
\* once the memory has been overwritten, where only the place that is read matters.
Load(i, t) ==
  LET a == i * value_sizes[t]
  IN [word |-> IF a \in Addresses THEN values[Program[t]][a] ELSE Unwritten,
      plus |-> value_offsets[t]]

\* One call of spv_ulp_get_reading_cvt; the sixth completes a reading.
LoadValue ==
  /\ phase = "reading" /\ index < available /\ Len(chunk) < ChunkSize
  /\ LET r == Append(row, Load(index, Len(row) + 1))
     IN IF Len(r) < 6
        THEN row' = r /\ UNCHANGED <<index, chunk>>
        ELSE row' = <<>> /\ chunk' = Append(chunk, r) /\ index' = index + 1
  /\ UNCHANGED <<ulp, timer, phase, cold, available, messages>>

\* Mutant of FirstOf: a message is dated like the one after it.
FirstOfNext(i) == i

FirstOf(i) == i - Len(chunk)

\* A message is full, or the last one: it says from which reading on it is.
SendChunk ==
  /\ phase = "reading" /\ chunk # <<>>
  /\ Len(chunk) = ChunkSize \/ index = available
  /\ messages' = Append(messages, [first |-> FirstOf(index), datos |-> chunk])
  /\ chunk' = <<>>
  /\ UNCHANGED <<ulp, timer, phase, cold, available, index, row>>

FinishBatch ==
  /\ phase = "reading" /\ chunk = <<>> /\ row = <<>> /\ index >= available
  /\ phase' = "done"
  /\ UNCHANGED <<ulp, timer, cold, reader>>

\* No batch is sent: the board was reset, or there is nobody to take it.
SkipBatch ==
  /\ phase = "stopped" /\ phase' = "done"
  /\ UNCHANGED <<ulp, timer, cold, reader>>

\* spv_ulp_start: the program and its memory are loaded anew, and it is started.  The
\* run that was under way at wake-up, of some milliseconds, has ended.
UlpStart ==
  /\ phase = "done" /\ upc = 0
  /\ count' = [b \in Buffer |-> 0]
  /\ values' = [b \in Buffer |-> [a \in Addresses |-> Unwritten]]
  /\ runs' = 0 /\ spilt' = FALSE /\ timer' = TRUE /\ phase' = "sleeping"
  /\ available' = 0 /\ index' = 0 /\ row' = <<>> /\ chunk' = <<>> /\ messages' = <<>>
  /\ UNCHANGED <<upc, cold>>

\* A reset that is not the end of deep sleep.  RTC memory survives a panic; what it
\* holds after a loss of power is never read, so it is taken as cleared.
UlpReset ==
  /\ phase' = "booting" /\ cold' = TRUE
  /\ available' = 0 /\ index' = 0 /\ row' = <<>> /\ chunk' = <<>> /\ messages' = <<>>
  /\ \/ UNCHANGED <<ulp, timer>>
     \/ /\ count' = [b \in Buffer |-> 0]
        /\ values' = [b \in Buffer |-> [a \in Addresses |-> Unwritten]]
        /\ upc' = 0 /\ runs' = 0 /\ timer' = FALSE /\ spilt' = FALSE

UlpNext ==
  \/ Coprocessor
  \/ UlpBoot \/ UlpTimerStop
  \/ \E n \in MayCount \cup 0 .. MinRuns - 1 : TakeCount(n)
  \/ LoadValue \/ SendChunk \/ FinishBatch \/ SkipBatch \/ UlpStart \/ UlpReset

UlpSpec == UlpInit /\ [][UlpNext]_ulpVars

-----------------------------------------------------------------------------
(* Properties.                                                              *)

Value == [word : (0 .. MaxRuns) \X (0 .. 6), plus : {0, 1}]

\* The counters fit the buffers while no word has missed its buffer, and the reader's
\* place is one of a run.
UlpTypeOK ==
  /\ count \in [Buffer -> 0 .. 2 * MaxRuns]
  /\ spilt \/ \A b \in Buffer : count[b] <= BufferWords
  /\ values \in [Buffer -> [Addresses -> (0 .. MaxRuns) \X (0 .. 6)]]
  /\ upc \in 0 .. 12
  /\ timer \in BOOLEAN /\ spilt \in BOOLEAN /\ cold \in BOOLEAN
  /\ runs \in 0 .. MaxRuns
  /\ phase \in {"sleeping", "booting", "stopped", "reading", "done"}
  /\ available \in 0 .. MaxRuns /\ index \in 0 .. MaxRuns
  /\ row \in Seq(Value) /\ Len(row) < 6
  /\ chunk \in Seq(Seq(Value)) /\ Len(chunk) <= ChunkSize
  /\ messages \in Seq([first : 0 .. MaxRuns, datos : Seq(Seq(Value))])

Completed == IF upc = 0 THEN runs ELSE runs - 1

\* The buffers last for half as many runs as they have words, no more and no less: the
\* sensors of two words a run fill theirs first, and no run after that is kept out
\* (ulp.S:23-40, 62-77; README.md:34 and Kconfig say one run a word).
CapacityIsHalf ==
  /\ spilt => 2 * runs > BufferWords
  /\ 2 * Completed > BufferWords => spilt

\* The values r are of reading number i: from the run of that number, and each from the
\* first word of its sensor.
FromRun(r, i) ==
  \A t \in 1 .. Len(r) : r[t].word = <<i + 1, t - value_offsets[t]>>

EachFromItsRun ==
  /\ FromRun(row, index)
  /\ \A j \in 1 .. Len(chunk) : FromRun(chunk[j], index - Len(chunk) + j - 1)
  /\ \A k \in 1 .. Len(messages) : \A j \in 1 .. Len(messages[k].datos) :
       FromRun(messages[k].datos[j], messages[k].first + j - 1)

\* While every word has found its buffer, each reading of a message is made of words of
\* one completed run, the one that the message's date and the reading's place in it
\* stand for (node.c:117-135, common.c:10), although the coprocessor may still be running.
OneRunPerReading == spilt \/ EachFromItsRun

\* The reading that follows message k.
After(k) == messages[k].first + Len(messages[k].datos)

\* The messages of a batch follow each other without gap or overlap from the first
\* reading on, and cover all when the batch is done (node.c:118-135).
BatchIsWhole ==
  /\ \A k \in 1 .. Len(messages) :
       messages[k].first = IF k = 1 THEN 0 ELSE After(k - 1)
  /\ index - Len(chunk) = IF messages = <<>> THEN 0 ELSE After(Len(messages))
  /\ phase = "done" => index = available /\ chunk = <<>>

\* The runs that the values of a reading are of.
RunsOf(r) == {r[t].word[1] : t \in 1 .. Len(r)}

Dated(m) ==
  [first |-> m.first, runs |-> [j \in 1 .. Len(m.datos) |-> RunsOf(m.datos[j])]]

Sent == [k \in 1 .. Len(messages) |-> Dated(messages[k])]

\* The memory shared by the two cores implements the promise of Sampling: the messages of
\* a batch are those that a board would send which samples and reads in single steps,
\* as long as its buffers last (ulp.S:23-40, 102 on, ulp.c:59-125, node.c:117-135).
Samples == INSTANCE Sampling
  WITH Capacity <- BufferWords \div 2, completed <- Completed, broken <- spilt,
       batch <- available, sent <- Sent
SamplingSpec == Samples!Spec

\* What spv_ulp_get_reading returns is the word that the coprocessor stored for that
\* type, unchanged (ulp.h:43-48).
ReadingIsStored ==
  \A t \in 1 .. Len(row) : row[t] = [word |-> <<index + 1, t>>, plus |-> 0]
=============================================================================
