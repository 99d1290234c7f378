---------------------------- MODULE OtaTransfer ----------------------------
(***************************************************************************)
(* The update of the nodes by the gateway: gateway_perform_ota on the main  *)
(* task of the gateway, the gateway's ota_cb on its Wi-Fi task, and the     *)
(* ota_cb of every node, over radio links that lose frames.  The mesh hands *)
(* a board the frames of another one in order and at most once (WMesh), so  *)
(* a link is a queue whose head may be lost.                                *)
(*                                                                          *)
(* The pace of the sender (wait_ms, chunks_since_retry, retry_requested)    *)
(* only changes how long a delay is, and is left out.                       *)
(***************************************************************************)
EXTENDS Naturals, Sequences

CONSTANTS Node,         \* the nodes that asked for the update
          ChunkCount,   \* chunks of the image
          LastRepeats,  \* times the last chunk is sent (gateway.c:389)
          MaxFlight,    \* bound: frames in flight on a link, the rest is lost
          MaxLosses,    \* bound: frames lost in a run
          FlashErrors,  \* whether esp_ota_begin, _write and _end may fail
          Settled       \* whether frames in flight are handled while the
                        \* gateway waits in vTaskDelay, and only then

ASSUME OtaAssumption ==
  /\ {ChunkCount, LastRepeats, MaxFlight} \subseteq Nat \ {0}
  /\ MaxLosses \in Nat
  /\ {FlashErrors, Settled} \subseteq BOOLEAN

Last == ChunkCount - 1
Frame == [type: {"begin", "data", "end"}, chunk: 0 .. Last]

VARIABLES
  pc,               \* the gateway's main task in gateway_perform_ota
  next_chunk,       \* gateway_status.next_chunk, shared with its ota_cb
  send_chunk,       \* the local variable of the same name
  loaded,           \* next_chunk as read by the increment of line 390
  last_chunk_sent,  \* the local variable of the same name
  down,             \* down[n]: frames on their way from the gateway to n
  up,               \* up[n]: the restart_from of n's retry requests in flight
  state,            \* node_status.state of n from WAIT_OTA_OR_SLEEP on
  opened,           \* opened[n]: n's ota_handle came from esp_ota_begin
  ota_next_chunk,   \* node_status.ota_next_chunk
  flash,            \* flash[n]: the chunks esp_ota_write has appended
  booting,          \* booting[n]: what n boots next, "old" or "new"
  losses,           \* history: frames lost so far
  owed              \* history: the least chunk a retry was accepted for and
                    \* that was not sent since; ChunkCount when there is none

gateway == <<pc, next_chunk, send_chunk, loaded, last_chunk_sent>>
nodes == <<state, opened, ota_next_chunk, flash, booting>>
vars == <<pc, next_chunk, send_chunk, loaded, last_chunk_sent, down, up, state,
          opened, ota_next_chunk, flash, booting, losses, owed>>

Init ==
  /\ pc = "begin"
  /\ next_chunk = 0 /\ send_chunk = 0 /\ loaded = 0 /\ last_chunk_sent = 0
  /\ down = [n \in Node |-> <<>>]
  /\ up = [n \in Node |-> <<>>]
  /\ state = [n \in Node |-> "wait_ota"]
  /\ opened = [n \in Node |-> FALSE]
  /\ ota_next_chunk = [n \in Node |-> 0]
  /\ flash = [n \in Node |-> <<>>]
  /\ booting = [n \in Node |-> "old"]
  /\ losses = 0
  /\ owed = ChunkCount

-----------------------------------------------------------------------------
(* The links.                                                               *)

Quiet == \A n \in Node : down[n] = <<>> /\ up[n] = <<>>

\* A frame that finds a link full is lost.
Enqueue(queue, frame) == IF Len(queue) < MaxFlight THEN Append(queue, frame) ELSE queue

Broadcast(frame) == down' = [n \in Node |-> Enqueue(down[n], frame)]

\* With Settled, frames are handled only while the gateway waits: in the delay
\* before a chunk, in the one before the last chunk, and around the end.
Handling ==
  Settled => pc \in {"wait", "end", "done"} \/ (pc = "send" /\ send_chunk = Last)

Lose(n) ==
  /\ losses < MaxLosses /\ losses' = losses + 1
  /\ \/ down[n] # <<>> /\ down' = [down EXCEPT ![n] = Tail(@)] /\ UNCHANGED up
     \/ up[n] # <<>> /\ up' = [up EXCEPT ![n] = Tail(@)] /\ UNCHANGED down
  /\ UNCHANGED <<gateway, nodes, owed>>

-----------------------------------------------------------------------------
(* The gateway's main task.                                                 *)

DelayOver == Settled => Quiet

SendBegin ==
  /\ pc = "begin"
  /\ Broadcast([type |-> "begin", chunk |-> 0])
  /\ next_chunk' = 0
  /\ last_chunk_sent' = 0
  /\ pc' = "wait"
  /\ UNCHANGED <<send_chunk, loaded, up, nodes, losses, owed>>

\* Mutant of ReadChunk: the chunk is fixed before the delay.
ReadChunkBeforeDelay ==
  /\ pc = "wait"
  /\ send_chunk' = next_chunk
  /\ pc' = "send"
  /\ UNCHANGED <<next_chunk, loaded, last_chunk_sent, down, up, nodes, losses, owed>>

\* After the delay of line 393 the chunk to send is fixed.
ReadChunk ==
  /\ pc = "wait" /\ DelayOver
  /\ send_chunk' = next_chunk
  /\ pc' = "send"
  /\ UNCHANGED <<next_chunk, loaded, last_chunk_sent, down, up, nodes, losses, owed>>

\* Mutant of SendChunk: the repetitions of the last chunk are not counted.
SendChunkUncounted ==
  /\ pc = "send"
  /\ send_chunk = Last => DelayOver
  /\ last_chunk_sent' = 0
  /\ Broadcast([type |-> "data", chunk |-> send_chunk])
  /\ owed' = IF send_chunk <= owed THEN ChunkCount ELSE owed
  /\ pc' = "load"
  /\ UNCHANGED <<next_chunk, send_chunk, loaded, up, nodes, losses>>

\* The last chunk is sent after another delay, and counted.
SendChunk ==
  /\ pc = "send"
  /\ send_chunk = Last => DelayOver
  /\ last_chunk_sent' = IF send_chunk = Last THEN last_chunk_sent + 1 ELSE 0
  /\ Broadcast([type |-> "data", chunk |-> send_chunk])
  /\ owed' = IF send_chunk <= owed THEN ChunkCount ELSE owed
  /\ pc' = "load"
  /\ UNCHANGED <<next_chunk, send_chunk, loaded, up, nodes, losses>>

\* next_chunk += next_chunk == chunk_count - 1 ? 0 : 1, which ota_cb may interrupt
\* between the load and the store.
LoadNext ==
  /\ pc = "load"
  /\ loaded' = next_chunk
  /\ pc' = "store"
  /\ UNCHANGED <<next_chunk, send_chunk, last_chunk_sent, down, up, nodes, losses, owed>>

\* Mutant of StoreNext: the index runs past the last chunk.
StoreNextBeyondLast ==
  /\ pc = "store"
  /\ next_chunk' = loaded + 1
  /\ pc' = IF next_chunk' < ChunkCount /\ last_chunk_sent < LastRepeats
           THEN "wait" ELSE "end"
  /\ UNCHANGED <<send_chunk, loaded, last_chunk_sent, down, up, nodes, losses, owed>>

StoreNext ==
  /\ pc = "store"
  /\ next_chunk' = IF loaded = Last THEN loaded ELSE loaded + 1
  /\ pc' = IF next_chunk' < ChunkCount /\ last_chunk_sent < LastRepeats
           THEN "wait" ELSE "end"
  /\ UNCHANGED <<send_chunk, loaded, last_chunk_sent, down, up, nodes, losses, owed>>

SendEnd ==
  /\ pc = "end" /\ DelayOver
  /\ Broadcast([type |-> "end", chunk |-> 0])
  /\ pc' = "done"
  /\ UNCHANGED <<next_chunk, send_chunk, loaded, last_chunk_sent, up, nodes, losses, owed>>

\* The gateway's ota_cb: a retry from a chunk not reached yet is ignored.
ReceiveRetry(n) ==
  /\ Handling
  /\ up[n] # <<>>
  /\ up' = [up EXCEPT ![n] = Tail(@)]
  /\ \/ /\ next_chunk < Head(up[n])
        /\ UNCHANGED <<next_chunk, owed>>
     \/ /\ next_chunk >= Head(up[n])
        /\ next_chunk' = Head(up[n])
        /\ owed' = IF Head(up[n]) < owed THEN Head(up[n]) ELSE owed
  /\ UNCHANGED <<pc, send_chunk, loaded, last_chunk_sent, down, nodes, losses>>

-----------------------------------------------------------------------------
(* The ota_cb of a node.                                                    *)

Take(n, type) ==
  /\ Handling
  /\ down[n] # <<>> /\ Head(down[n]).type = type
  /\ down' = [down EXCEPT ![n] = Tail(@)]

\* What spv_ota_begin may say.
BeginResults == {TRUE, ~FlashErrors}

\* The state becomes OTA even when esp_ota_begin fails (node.c:262, 266).
ReceiveBegin(n) ==
  /\ Take(n, "begin")
  /\ \/ /\ state[n] = "wait_ota"
        /\ state' = [state EXCEPT ![n] = "ota"]
        /\ \E ok \in BeginResults : opened' = [opened EXCEPT ![n] = ok]
     \/ state[n] # "wait_ota" /\ UNCHANGED <<state, opened>>
  /\ UNCHANGED <<gateway, up, ota_next_chunk, flash, booting, losses, owed>>

\* A frame that is of no use to n: n is not updating, or n has that chunk.
IgnoreData(n) ==
  /\ Take(n, "data")
  /\ state[n] # "ota" \/ ota_next_chunk[n] > Head(down[n]).chunk
  /\ UNCHANGED <<gateway, up, nodes, losses, owed>>

\* Mutant of RequestRetry: the gap is noticed and not reported.
RequestRetrySilent(n) ==
  /\ Take(n, "data")
  /\ state[n] = "ota" /\ ota_next_chunk[n] < Head(down[n]).chunk
  /\ UNCHANGED <<gateway, up, nodes, losses, owed>>

RequestRetry(n) ==
  /\ Take(n, "data")
  /\ state[n] = "ota" /\ ota_next_chunk[n] < Head(down[n]).chunk
  /\ up' = [up EXCEPT ![n] = Enqueue(@, ota_next_chunk[n])]
  /\ UNCHANGED <<gateway, nodes, losses, owed>>

\* Mutant of WriteChunk: a chunk after a gap is written too.
WriteChunkAfterGap(n) ==
  /\ Take(n, "data")
  /\ state[n] = "ota" /\ ota_next_chunk[n] <= Head(down[n]).chunk
  /\ opened[n]
  /\ flash' = [flash EXCEPT ![n] = Append(@, Head(down[n]).chunk)]
  /\ ota_next_chunk' = [ota_next_chunk EXCEPT ![n] = @ + 1]
  /\ UNCHANGED <<gateway, up, state, opened, booting, losses, owed>>

WriteChunk(n) ==
  /\ Take(n, "data")
  /\ state[n] = "ota" /\ ota_next_chunk[n] = Head(down[n]).chunk
  /\ \/ /\ opened[n]
        /\ flash' = [flash EXCEPT ![n] = Append(@, Head(down[n]).chunk)]
        /\ ota_next_chunk' = [ota_next_chunk EXCEPT ![n] = @ + 1]
        /\ UNCHANGED state
     \/ /\ FlashErrors
        /\ state' = [state EXCEPT ![n] = "wait_sleep"]
        /\ UNCHANGED <<flash, ota_next_chunk>>
  /\ UNCHANGED <<gateway, up, opened, booting, losses, owed>>

\* spv_ota_end boots the partition only when esp_ota_end accepts it as whole.
ImageVerifies(n) ==
  opened[n] /\ flash[n] = [i \in 1 .. ChunkCount |-> i - 1]

\* Mutant of ReceiveEnd: the boot partition is set without a look at the result of
\* esp_ota_end.
ReceiveEndUnverified(n) ==
  /\ Take(n, "end")
  /\ state[n] = "ota"
  /\ state' = [state EXCEPT ![n] = "wait_sleep"]
  /\ booting' = [booting EXCEPT ![n] = "new"]
  /\ UNCHANGED <<gateway, up, opened, ota_next_chunk, flash, losses, owed>>

ReceiveEnd(n) ==
  /\ Take(n, "end")
  /\ \/ /\ state[n] = "ota"
        /\ state' = [state EXCEPT ![n] = "wait_sleep"]
        /\ \/ ImageVerifies(n) /\ booting' = [booting EXCEPT ![n] = "new"]
           \/ (ImageVerifies(n) => FlashErrors) /\ UNCHANGED booting
     \/ state[n] # "ota" /\ UNCHANGED <<state, booting>>
  /\ UNCHANGED <<gateway, up, opened, ota_next_chunk, flash, losses, owed>>

-----------------------------------------------------------------------------
Gateway == SendBegin \/ ReadChunk \/ SendChunk \/ LoadNext \/ StoreNext \/ SendEnd

Receive(n) ==
  \/ ReceiveRetry(n) \/ ReceiveBegin(n) \/ IgnoreData(n)
  \/ RequestRetry(n) \/ WriteChunk(n) \/ ReceiveEnd(n)

Next == Gateway \/ \E n \in Node : Receive(n) \/ Lose(n)

Spec == Init /\ [][Next]_vars

\* The main task keeps running, and what is in flight is handled (or lost).
Fairness == WF_vars(Gateway) /\ \A n \in Node : WF_vars(Receive(n))
FairSpec == Spec /\ Fairness

-----------------------------------------------------------------------------
(* Properties.                                                              *)

LinksTyped ==
  /\ down \in [Node -> Seq(Frame)]
  /\ up \in [Node -> Seq(0 .. Last)]

LinksFit == \A n \in Node : Len(down[n]) <= MaxFlight /\ Len(up[n]) <= MaxFlight

GatewayTyped ==
  /\ pc \in {"begin", "wait", "send", "load", "store", "end", "done"}
  /\ next_chunk \in 0 .. Last /\ send_chunk \in 0 .. Last /\ loaded \in 0 .. Last
  /\ last_chunk_sent \in 0 .. LastRepeats

NodesTyped ==
  /\ state \in [Node -> {"wait_ota", "ota", "wait_sleep"}]
  /\ opened \in [Node -> BOOLEAN]
  /\ ota_next_chunk \in [Node -> 0 .. ChunkCount]
  /\ flash \in [Node -> Seq(0 .. Last)]
  /\ booting \in [Node -> {"old", "new"}]

\* The variables stay in their types; above all the chunk that is read from the
\* partition exists (gateway.c:413-420), whatever retries arrive and when.
TypeOK ==
  /\ LinksTyped /\ LinksFit
  /\ GatewayTyped
  /\ NodesTyped
  /\ losses \in 0 .. MaxLosses
  /\ owed \in 0 .. ChunkCount

\* What a node has flashed is the image from its first chunk on, without a gap or
\* a repetition, however the links and the retries of other nodes behave.
FlashIsPrefix ==
  \A n \in Node : flash[n] = [i \in 1 .. ota_next_chunk[n] |-> i - 1]

\* The transfer implements the promise of ImageTransfer.
Image == INSTANCE ImageTransfer WITH written <- ota_next_chunk
ImageSpec == Image!Spec

\* ota.h:44: a retry names the chunk to restart the update from.  Once one is
\* accepted, that chunk (or an earlier one) is the next to be sent.
RestartHonoured ==
  [][pc = "send" /\ pc' = "load" => send_chunk <= owed]_vars

\* Every node that started the update gets the whole image when fewer frames are
\* lost than the last chunk has repetitions.
EveryNodeCompletes ==
  \A n \in Node : state[n] = "ota" ~> ota_next_chunk[n] = ChunkCount

\* When the gateway is through with the update, every node that took part in it has
\* the whole image, and reboots into it unless its flash failed: with fewer frames
\* lost than the last chunk has repetitions, somebody always learns of a gap in time.
UpdateSucceeds ==
  pc = "done" =>
    \A n \in Node :
      /\ state[n] = "ota" => ota_next_chunk[n] = ChunkCount
      /\ state[n] = "wait_sleep" => FlashErrors \/ booting[n] = "new"

\* The gateway gets to the end of the update whatever its nodes ask for.
GatewayFinishes == <>(pc = "done")
=============================================================================
