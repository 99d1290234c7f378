------------------------------ MODULE OtaProofs ------------------------------
(***************************************************************************)
(* Proofs about OtaTransfer for every set of nodes, every number of chunks, *)
(* of repetitions and of frames in flight or lost, with or without flash    *)
(* errors, and, but for the last theorem, whatever the timing.              *)
(***************************************************************************)
EXTENDS OtaTransfer, SequenceTheorems, TLAPS

-----------------------------------------------------------------------------
(* The links.                                                               *)

\* A link keeps its type and its bound when a frame is put on it.
LEMMA EnqueueTyped ==
  ASSUME NEW S, NEW q \in Seq(S), NEW f \in S
  PROVE  /\ Enqueue(q, f) \in Seq(S)
         /\ Len(q) <= MaxFlight => Len(Enqueue(q, f)) <= MaxFlight
BY OtaAssumption DEF Enqueue

\* The head of a link that is not empty is a frame, and the rest is a link.
LEMMA TailTyped ==
  ASSUME NEW S, NEW q \in Seq(S), q # <<>>
  PROVE  Head(q) \in S /\ Tail(q) \in Seq(S) /\ Len(Tail(q)) = Len(q) - 1
OBVIOUS

LEMMA LastTyped == Last \in Nat /\ Last + 1 = ChunkCount
BY OtaAssumption DEF Last

LEMMA BroadcastTyped ==
  ASSUME LinksTyped, LinksFit, NEW frame \in Frame, Broadcast(frame), up' = up
  PROVE  LinksTyped' /\ LinksFit'
<1>1. ASSUME NEW n \in Node
      PROVE  /\ Enqueue(down[n], frame) \in Seq(Frame)
             /\ Len(Enqueue(down[n], frame)) <= MaxFlight
  <2>1. down[n] \in Seq(Frame) /\ Len(down[n]) <= MaxFlight
    BY DEF LinksTyped, LinksFit
  <2>2. QED
    BY <2>1, EnqueueTyped
<1>2. QED
  BY <1>1 DEF Broadcast, LinksTyped, LinksFit

LEMMA TakeTyped ==
  ASSUME LinksTyped, LinksFit, NEW n \in Node, NEW type, Take(n, type)
  PROVE  /\ Head(down[n]) \in Frame
         /\ Head(down[n]).chunk \in 0 .. Last
         /\ down' \in [Node -> Seq(Frame)]
         /\ \A k \in Node : Len(down'[k]) <= MaxFlight
<1>1. down[n] \in Seq(Frame) /\ down[n] # <<>>
  BY DEF LinksTyped, Take
<1>2. Head(down[n]) \in Frame /\ Tail(down[n]) \in Seq(Frame)
      /\ Len(Tail(down[n])) = Len(down[n]) - 1
  BY <1>1, TailTyped
<1>3. \A k \in Node : Len(down[k]) \in Nat /\ Len(down[k]) <= MaxFlight
  BY DEF LinksTyped, LinksFit
<1>4. down' = [down EXCEPT ![n] = Tail(@)]
  BY DEF Take
<1>5. Head(down[n]).chunk \in 0 .. Last
  BY <1>2 DEF Frame
<1>6. \A k \in Node : Len(down'[k]) <= MaxFlight
  BY <1>2, <1>3, <1>4, OtaAssumption DEF LinksTyped
<1>7. QED
  BY <1>2, <1>4, <1>5, <1>6 DEF LinksTyped

-----------------------------------------------------------------------------
(* Type correctness.                                                        *)

\* A chunk is sent only while the last one has repetitions left.
LoopOpen == pc \in {"wait", "send"} => last_chunk_sent < LastRepeats

TypeInv == TypeOK /\ LoopOpen

LEMMA NextTyped ==
  ASSUME TypeInv, [Next]_vars
  PROVE  TypeInv'
<1> USE OtaAssumption, LastTyped
<1>0. /\ LinksTyped /\ LinksFit /\ GatewayTyped /\ NodesTyped
      /\ losses \in 0 .. MaxLosses /\ owed \in 0 .. ChunkCount
      /\ LoopOpen
  BY DEF TypeInv, TypeOK
<1>1. CASE SendBegin
  <2>1. [type |-> "begin", chunk |-> 0] \in Frame
    BY DEF Frame
  <2>2. LinksTyped' /\ LinksFit'
    BY <1>0, <1>1, <2>1, BroadcastTyped DEF SendBegin
  <2>3. GatewayTyped' /\ LoopOpen'
    BY <1>0, <1>1 DEF SendBegin, GatewayTyped, LoopOpen
  <2>4. NodesTyped' /\ losses' = losses /\ owed' = owed
    BY <1>0, <1>1 DEF SendBegin, NodesTyped, nodes
  <2>5. QED
    BY <1>0, <2>2, <2>3, <2>4 DEF TypeInv, TypeOK
<1>2. CASE ReadChunk
  <2>1. LinksTyped' /\ LinksFit' /\ NodesTyped' /\ losses' = losses /\ owed' = owed
    BY <1>0, <1>2 DEF ReadChunk, LinksTyped, LinksFit, NodesTyped, nodes
  <2>2. GatewayTyped' /\ LoopOpen'
    BY <1>0, <1>2 DEF ReadChunk, GatewayTyped, LoopOpen
  <2>3. QED
    BY <1>0, <2>1, <2>2 DEF TypeInv, TypeOK
<1>3. CASE SendChunk
  <2>1. [type |-> "data", chunk |-> send_chunk] \in Frame
    BY <1>0 DEF Frame, GatewayTyped
  <2>2. LinksTyped' /\ LinksFit'
    BY <1>0, <1>3, <2>1, BroadcastTyped DEF SendChunk
  <2>3. GatewayTyped' /\ LoopOpen'
    BY <1>0, <1>3 DEF SendChunk, GatewayTyped, LoopOpen
  <2>4. NodesTyped' /\ losses' = losses /\ owed' \in {owed, ChunkCount}
    BY <1>0, <1>3 DEF SendChunk, NodesTyped, nodes
  <2>5. QED
    BY <1>0, <2>2, <2>3, <2>4 DEF TypeInv, TypeOK
<1>4. CASE LoadNext
  <2>1. LinksTyped' /\ LinksFit' /\ NodesTyped' /\ losses' = losses /\ owed' = owed
    BY <1>0, <1>4 DEF LoadNext, LinksTyped, LinksFit, NodesTyped, nodes
  <2>2. GatewayTyped' /\ LoopOpen'
    BY <1>0, <1>4 DEF LoadNext, GatewayTyped, LoopOpen
  <2>3. QED
    BY <1>0, <2>1, <2>2 DEF TypeInv, TypeOK
<1>5. CASE StoreNext
  <2>1. LinksTyped' /\ LinksFit' /\ NodesTyped' /\ losses' = losses /\ owed' = owed
    BY <1>0, <1>5 DEF StoreNext, LinksTyped, LinksFit, NodesTyped, nodes
  <2>2. next_chunk' \in 0 .. Last
    BY <1>0, <1>5 DEF StoreNext, GatewayTyped
  <2>3. GatewayTyped' /\ LoopOpen'
    BY <1>0, <1>5, <2>2 DEF StoreNext, GatewayTyped, LoopOpen
  <2>4. QED
    BY <1>0, <2>1, <2>3 DEF TypeInv, TypeOK
<1>6. CASE SendEnd
  <2>1. [type |-> "end", chunk |-> 0] \in Frame
    BY DEF Frame
  <2>2. LinksTyped' /\ LinksFit'
    BY <1>0, <1>6, <2>1, BroadcastTyped DEF SendEnd
  <2>3. GatewayTyped' /\ LoopOpen'
    BY <1>0, <1>6 DEF SendEnd, GatewayTyped, LoopOpen
  <2>4. NodesTyped' /\ losses' = losses /\ owed' = owed
    BY <1>0, <1>6 DEF SendEnd, NodesTyped, nodes
  <2>5. QED
    BY <1>0, <2>2, <2>3, <2>4 DEF TypeInv, TypeOK
<1>7. ASSUME NEW n \in Node, ReceiveRetry(n) PROVE TypeInv'
  <2>1. up[n] \in Seq(0 .. Last) /\ up[n] # <<>>
    BY <1>0, <1>7 DEF LinksTyped, ReceiveRetry
  <2>2. /\ Head(up[n]) \in 0 .. Last /\ Tail(up[n]) \in Seq(0 .. Last)
        /\ Len(Tail(up[n])) = Len(up[n]) - 1
    BY <2>1, TailTyped
  <2>3. /\ up' = [up EXCEPT ![n] = Tail(@)] /\ down' = down
        /\ next_chunk' \in {next_chunk, Head(up[n])}
        /\ owed' \in {owed, Head(up[n])}
    BY <1>7 DEF ReceiveRetry
  <2>4. LinksTyped'
    BY <1>0, <2>2, <2>3 DEF LinksTyped
  <2>5. LinksFit'
    <3>1. \A k \in Node : Len(up[k]) \in Nat
      BY <1>0 DEF LinksTyped
    <3>2. \A k \in Node : Len(up'[k]) <= MaxFlight
      BY <1>0, <2>2, <2>3, <3>1 DEF LinksTyped, LinksFit
    <3>3. QED
      BY <1>0, <2>3, <3>2 DEF LinksFit
  <2>6. GatewayTyped' /\ LoopOpen'
    BY <1>0, <1>7, <2>2, <2>3 DEF ReceiveRetry, GatewayTyped, LoopOpen
  <2>7. NodesTyped' /\ losses' = losses
    BY <1>0, <1>7 DEF ReceiveRetry, NodesTyped, nodes
  <2>8. owed' \in 0 .. ChunkCount
    BY <1>0, <2>2, <2>3
  <2>9. QED
    BY <1>0, <2>4, <2>5, <2>6, <2>7, <2>8 DEF TypeInv, TypeOK
<1>8. ASSUME NEW n \in Node, ReceiveBegin(n) PROVE TypeInv'
  <2>1. LinksTyped' /\ LinksFit'
    BY <1>0, <1>8, TakeTyped DEF ReceiveBegin, LinksTyped, LinksFit
  <2>2. NodesTyped'
    BY <1>0, <1>8 DEF ReceiveBegin, BeginResults, NodesTyped
  <2>3. GatewayTyped' /\ LoopOpen' /\ losses' = losses /\ owed' = owed
    BY <1>0, <1>8 DEF ReceiveBegin, GatewayTyped, LoopOpen, gateway
  <2>4. QED
    BY <1>0, <2>1, <2>2, <2>3 DEF TypeInv, TypeOK
<1>9. ASSUME NEW n \in Node, IgnoreData(n) PROVE TypeInv'
  <2>1. LinksTyped' /\ LinksFit'
    BY <1>0, <1>9, TakeTyped DEF IgnoreData, LinksTyped, LinksFit
  <2>2. NodesTyped' /\ GatewayTyped' /\ LoopOpen' /\ losses' = losses /\ owed' = owed
    BY <1>0, <1>9 DEF IgnoreData, GatewayTyped, NodesTyped, LoopOpen, gateway, nodes
  <2>3. QED
    BY <1>0, <2>1, <2>2 DEF TypeInv, TypeOK
<1>10. ASSUME NEW n \in Node, RequestRetry(n) PROVE TypeInv'
  <2>1. ota_next_chunk[n] \in 0 .. Last
    <3>1. Head(down[n]).chunk \in 0 .. Last /\ ota_next_chunk[n] \in 0 .. ChunkCount
      BY <1>0, <1>10, TakeTyped DEF RequestRetry, NodesTyped
    <3>2. QED
      BY <1>10, <3>1 DEF RequestRetry
  <2>2. up[n] \in Seq(0 .. Last) /\ Len(up[n]) <= MaxFlight
    BY <1>0 DEF LinksTyped, LinksFit
  <2>3. /\ Enqueue(up[n], ota_next_chunk[n]) \in Seq(0 .. Last)
        /\ Len(Enqueue(up[n], ota_next_chunk[n])) <= MaxFlight
    BY <2>1, <2>2, EnqueueTyped
  <2>4. up' = [up EXCEPT ![n] = Enqueue(@, ota_next_chunk[n])]
    BY <1>10 DEF RequestRetry
  <2>5. LinksTyped' /\ LinksFit'
    BY <1>0, <1>10, <2>3, <2>4, TakeTyped DEF RequestRetry, LinksTyped, LinksFit
  <2>6. NodesTyped' /\ GatewayTyped' /\ LoopOpen' /\ losses' = losses /\ owed' = owed
    BY <1>0, <1>10 DEF RequestRetry, GatewayTyped, NodesTyped, LoopOpen, gateway, nodes
  <2>7. QED
    BY <1>0, <2>5, <2>6 DEF TypeInv, TypeOK
<1>11. ASSUME NEW n \in Node, WriteChunk(n) PROVE TypeInv'
  <2>1. LinksTyped' /\ LinksFit'
    BY <1>0, <1>11, TakeTyped DEF WriteChunk, LinksTyped, LinksFit
  <2>2. Head(down[n]).chunk \in 0 .. Last /\ ota_next_chunk[n] = Head(down[n]).chunk
    BY <1>0, <1>11, TakeTyped DEF WriteChunk
  <2>3. flash' \in [Node -> Seq(0 .. Last)] /\ ota_next_chunk' \in [Node -> 0 .. ChunkCount]
    <3>1. flash[n] \in Seq(0 .. Last) /\ ota_next_chunk[n] + 1 \in 0 .. ChunkCount
      BY <1>0, <2>2 DEF NodesTyped
    <3>2. Append(flash[n], Head(down[n]).chunk) \in Seq(0 .. Last)
      BY <2>2, <3>1
    <3>3. CASE UNCHANGED <<flash, ota_next_chunk>>
      BY <1>0, <3>3 DEF NodesTyped
    <3>4. CASE /\ flash' = [flash EXCEPT ![n] = Append(@, Head(down[n]).chunk)]
               /\ ota_next_chunk' = [ota_next_chunk EXCEPT ![n] = @ + 1]
      BY <1>0, <3>1, <3>2, <3>4 DEF NodesTyped
    <3>5. QED
      BY <1>11, <3>3, <3>4 DEF WriteChunk
  <2>4. NodesTyped'
    BY <1>0, <1>11, <2>3 DEF WriteChunk, NodesTyped
  <2>5. GatewayTyped' /\ LoopOpen' /\ losses' = losses /\ owed' = owed
    BY <1>0, <1>11 DEF WriteChunk, GatewayTyped, LoopOpen, gateway
  <2>6. QED
    BY <1>0, <2>1, <2>4, <2>5 DEF TypeInv, TypeOK
<1>12. ASSUME NEW n \in Node, ReceiveEnd(n) PROVE TypeInv'
  <2>1. LinksTyped' /\ LinksFit'
    BY <1>0, <1>12, TakeTyped DEF ReceiveEnd, LinksTyped, LinksFit
  <2>2. NodesTyped'
    BY <1>0, <1>12 DEF ReceiveEnd, NodesTyped
  <2>3. GatewayTyped' /\ LoopOpen' /\ losses' = losses /\ owed' = owed
    BY <1>0, <1>12 DEF ReceiveEnd, GatewayTyped, LoopOpen, gateway
  <2>4. QED
    BY <1>0, <2>1, <2>2, <2>3 DEF TypeInv, TypeOK
<1>13. ASSUME NEW n \in Node, Lose(n) PROVE TypeInv'
  <2>1. /\ GatewayTyped' /\ NodesTyped' /\ LoopOpen' /\ owed' = owed
        /\ losses' \in 0 .. MaxLosses
    BY <1>0, <1>13 DEF Lose, GatewayTyped, NodesTyped, LoopOpen, gateway, nodes
  <2>2. down[n] \in Seq(Frame) /\ up[n] \in Seq(0 .. Last)
    BY <1>0 DEF LinksTyped
  <2>3. \A k \in Node : Len(down[k]) \in Nat /\ Len(up[k]) \in Nat
    BY <1>0 DEF LinksTyped
  <2>4. CASE down[n] # <<>> /\ down' = [down EXCEPT ![n] = Tail(@)] /\ up' = up
    <3>1. Tail(down[n]) \in Seq(Frame) /\ Len(Tail(down[n])) = Len(down[n]) - 1
      BY <2>2, <2>4, TailTyped
    <3>2. LinksTyped'
      BY <1>0, <2>4, <3>1 DEF LinksTyped
    <3>3. LinksFit'
      BY <1>0, <2>3, <2>4, <3>1 DEF LinksTyped, LinksFit
    <3>4. QED
      BY <1>0, <2>1, <3>2, <3>3 DEF TypeInv, TypeOK
  <2>5. CASE up[n] # <<>> /\ up' = [up EXCEPT ![n] = Tail(@)] /\ down' = down
    <3>1. Tail(up[n]) \in Seq(0 .. Last) /\ Len(Tail(up[n])) = Len(up[n]) - 1
      BY <2>2, <2>5, TailTyped
    <3>2. LinksTyped'
      BY <1>0, <2>5, <3>1 DEF LinksTyped
    <3>3. LinksFit'
      BY <1>0, <2>3, <2>5, <3>1 DEF LinksTyped, LinksFit
    <3>4. QED
      BY <1>0, <2>1, <3>2, <3>3 DEF TypeInv, TypeOK
  <2>6. QED
    BY <1>13, <2>4, <2>5 DEF Lose
<1>14. CASE UNCHANGED vars
  BY <1>0, <1>14 DEF vars, TypeInv, TypeOK, LinksTyped, LinksFit, GatewayTyped,
                     NodesTyped, LoopOpen
<1>15. QED
  BY <1>1, <1>2, <1>3, <1>4, <1>5, <1>6, <1>7, <1>8, <1>9, <1>10, <1>11, <1>12,
     <1>13, <1>14 DEF Next, Gateway, Receive

LEMMA InitTyped == Init => TypeInv
BY OtaAssumption, LastTyped
   DEF Init, TypeInv, TypeOK, LinksTyped, LinksFit, GatewayTyped, NodesTyped, LoopOpen

\* Only chunks of the image are read and sent (gateway.c:413-420), whatever retries
\* come from the nodes.
THEOREM TypeCorrect == Spec => []TypeOK
<1>1. TypeInv => TypeOK
  BY DEF TypeInv
<1>2. QED
  BY <1>1, InitTyped, NextTyped, PTL DEF Spec

-----------------------------------------------------------------------------
(* What the nodes flash and boot.                                           *)

Prefix(k) == [i \in 1 .. k |-> i - 1]

\* Chunk k appended to the k chunks before it gives the image up to chunk k.
LEMMA AppendPrefix ==
  ASSUME NEW k \in Nat
  PROVE  Append(Prefix(k), k) = Prefix(k + 1)
BY DEF Prefix

\* A node that still waits for the update or receives it boots the old firmware.
UpdatingIsOld == \A n \in Node : state[n] # "wait_sleep" => booting[n] = "old"

FlashInv == FlashIsPrefix /\ UpdatingIsOld

LEMMA InitFlash == Init => FlashInv
<1>1. Prefix(0) = <<>>
  BY DEF Prefix
<1>2. QED
  BY <1>1 DEF Init, FlashInv, FlashIsPrefix, UpdatingIsOld, Prefix

LEMMA WriteChunkFlash ==
  ASSUME TypeInv, FlashInv, NEW n \in Node, WriteChunk(n)
  PROVE  FlashInv'
<1>1. /\ flash \in [Node -> Seq(0 .. Last)] /\ state \in [Node -> {"wait_ota", "ota", "wait_sleep"}]
      /\ ota_next_chunk \in [Node -> 0 .. ChunkCount] /\ ota_next_chunk[n] \in Nat
  BY OtaAssumption DEF TypeInv, TypeOK, NodesTyped
<1>2. CASE UNCHANGED <<flash, ota_next_chunk>> /\ state' = [state EXCEPT ![n] = "wait_sleep"]
  BY <1>1, <1>2 DEF WriteChunk, FlashInv, FlashIsPrefix, UpdatingIsOld
<1>3. CASE /\ flash' = [flash EXCEPT ![n] = Append(@, Head(down[n]).chunk)]
           /\ ota_next_chunk' = [ota_next_chunk EXCEPT ![n] = @ + 1]
           /\ UNCHANGED state
  <2>1. Head(down[n]).chunk = ota_next_chunk[n]
    BY DEF WriteChunk
  <2>2. flash[n] = Prefix(ota_next_chunk[n])
    BY DEF FlashInv, FlashIsPrefix, Prefix
  <2>3. flash'[n] = Prefix(ota_next_chunk'[n])
    BY <1>1, <1>3, <2>1, <2>2, AppendPrefix
  <2>4. \A k \in Node : flash'[k] = Prefix(ota_next_chunk'[k])
    BY <1>1, <1>3, <2>3 DEF FlashInv, FlashIsPrefix, Prefix
  <2>5. QED
    BY <1>3, <2>4 DEF WriteChunk, FlashInv, FlashIsPrefix, UpdatingIsOld, Prefix
<1>4. QED
  BY <1>2, <1>3 DEF WriteChunk

LEMMA NextFlash ==
  ASSUME TypeInv, FlashInv, [Next]_vars
  PROVE  FlashInv'
<1> USE DEF FlashInv, FlashIsPrefix, UpdatingIsOld
<1>0. /\ state \in [Node -> {"wait_ota", "ota", "wait_sleep"}]
      /\ booting \in [Node -> {"old", "new"}]
  BY DEF TypeInv, TypeOK, NodesTyped
<1>1. CASE UNCHANGED nodes
  BY <1>1 DEF nodes
<1>2. ASSUME NEW n \in Node, ReceiveBegin(n) PROVE FlashInv'
  BY <1>0, <1>2 DEF ReceiveBegin
<1>3. ASSUME NEW n \in Node, WriteChunk(n) PROVE FlashInv'
  BY <1>3, WriteChunkFlash
<1>4. ASSUME NEW n \in Node, ReceiveEnd(n) PROVE FlashInv'
  BY <1>0, <1>4 DEF ReceiveEnd
<1>5. CASE UNCHANGED vars
  BY <1>1, <1>5 DEF vars, nodes
<1>6. QED
  BY <1>1, <1>2, <1>3, <1>4, <1>5
     DEF Next, Gateway, Receive, SendBegin, ReadChunk, SendChunk, LoadNext, StoreNext,
         SendEnd, ReceiveRetry, IgnoreData, RequestRetry, Lose

\* The spare partition of a node holds the image from its first chunk on, without a
\* gap or a repetition (node.c:275-292).
THEOREM FlashIsPrefixCorrect == Spec => []FlashIsPrefix
<1>1. FlashInv => FlashIsPrefix
  BY DEF FlashInv
<1>2. QED
  BY <1>1, InitTyped, NextTyped, InitFlash, NextFlash, PTL DEF Spec

-----------------------------------------------------------------------------
(* The transfer implements ImageTransfer.                                   *)

LEMMA ImageStep ==
  ASSUME TypeInv, FlashInv, [Next]_vars
  PROVE  [Image!Next]_(Image!ivars)
<1> USE DEF Image!ivars
<1>0. /\ state \in [Node -> {"wait_ota", "ota", "wait_sleep"}]
      /\ booting \in [Node -> {"old", "new"}]
      /\ ota_next_chunk \in [Node -> 0 .. ChunkCount]
  BY DEF TypeInv, TypeOK, NodesTyped
<1>1. CASE UNCHANGED <<ota_next_chunk, booting>>
  BY <1>1
<1>2. ASSUME NEW n \in Node, WriteChunk(n) PROVE [Image!Next]_(Image!ivars)
  <2>1. CASE UNCHANGED ota_next_chunk
    BY <1>2, <2>1 DEF WriteChunk
  <2>2. CASE ota_next_chunk' = [ota_next_chunk EXCEPT ![n] = @ + 1]
    <3>1. Head(down[n]).chunk \in 0 .. Last
      BY <1>2, TakeTyped DEF WriteChunk, TypeInv, TypeOK
    <3>2. ota_next_chunk[n] < ChunkCount
      BY <1>2, <3>1, LastTyped, OtaAssumption DEF WriteChunk
    <3>3. booting[n] = "old"
      BY <1>2 DEF WriteChunk, FlashInv, UpdatingIsOld
    <3>4. Image!Write(n)
      BY <1>2, <2>2, <3>2, <3>3 DEF WriteChunk, Image!Write
    <3>5. QED
      BY <3>4 DEF Image!Next
  <2>3. QED
    BY <1>2, <2>1, <2>2 DEF WriteChunk
<1>3. ASSUME NEW n \in Node, ReceiveEnd(n) PROVE [Image!Next]_(Image!ivars)
  <2>1. CASE UNCHANGED booting
    BY <1>3, <2>1 DEF ReceiveEnd
  <2>2. CASE ImageVerifies(n) /\ booting' = [booting EXCEPT ![n] = "new"]
    <3>1. Prefix(ota_next_chunk[n]) = Prefix(ChunkCount)
      BY <2>2 DEF ImageVerifies, FlashInv, FlashIsPrefix, Prefix
    <3>2. DOMAIN Prefix(ota_next_chunk[n]) = DOMAIN Prefix(ChunkCount)
      BY <3>1
    <3>3. ota_next_chunk[n] = ChunkCount
      <4>1. 1 .. ota_next_chunk[n] = 1 .. ChunkCount
        BY <3>2 DEF Prefix
      <4>2. ota_next_chunk[n] \in 0 .. ChunkCount /\ ChunkCount \in 1 .. ChunkCount
        BY <1>0, OtaAssumption
      <4>3. QED
        BY <4>1, <4>2, OtaAssumption
    <3>4. Image!Commit(n)
      BY <1>3, <2>2, <3>3 DEF ReceiveEnd, Image!Commit
    <3>5. QED
      BY <3>4 DEF Image!Next
  <2>3. QED
    BY <1>3, <2>1, <2>2 DEF ReceiveEnd
<1>4. QED
  BY <1>1, <1>2, <1>3
     DEF Next, Gateway, Receive, SendBegin, ReadChunk, SendChunk, LoadNext, StoreNext,
         SendEnd, ReceiveRetry, ReceiveBegin, IgnoreData, RequestRetry, Lose, vars, nodes

\* A node boots the new firmware only after it received all of it, chunk by chunk
\* (ota.c:38-59, node.c:275-322).
THEOREM ImageImplemented == Spec => ImageSpec
<1>1. Init => Image!Init
  BY DEF Init, Image!Init
<1>2. QED
  BY <1>1, InitTyped, NextTyped, InitFlash, NextFlash, ImageStep, PTL
     DEF Spec, ImageSpec, Image!Spec

-----------------------------------------------------------------------------
(* Retries, when every frame is handled within the gateway's delays.        *)

\* No retry is accepted between the reading of the index and its increment.
SettledInv ==
  /\ pc \in {"begin", "wait"} => next_chunk <= owed
  /\ pc = "send" => Quiet /\ send_chunk <= owed
  /\ pc \in {"load", "store", "end", "done"} => owed = ChunkCount \/ pc \in {"end", "done"}

LEMMA NextSettled ==
  ASSUME Settled, TypeInv, SettledInv, [Next]_vars
  PROVE  SettledInv'
<1> USE LastTyped, OtaAssumption DEF SettledInv, GatewayTyped
<1>0. /\ GatewayTyped /\ owed \in 0 .. ChunkCount
      /\ down \in [Node -> Seq(Frame)] /\ up \in [Node -> Seq(0 .. Last)]
  BY DEF TypeInv, TypeOK, LinksTyped
<1>1. CASE SendBegin
  BY <1>0, <1>1 DEF SendBegin
<1>2. CASE ReadChunk
  BY <1>0, <1>2 DEF ReadChunk, DelayOver, Quiet
<1>3. CASE SendChunk
  BY <1>0, <1>3 DEF SendChunk
<1>4. CASE LoadNext
  BY <1>0, <1>4 DEF LoadNext
<1>5. CASE StoreNext
  <2>1. next_chunk' \in 0 .. Last /\ owed' = ChunkCount /\ pc' \in {"wait", "end"}
    BY <1>0, <1>5 DEF StoreNext
  <2>2. QED
    BY <2>1
<1>6. CASE SendEnd
  BY <1>0, <1>6 DEF SendEnd
<1>7. ASSUME NEW n \in Node, ReceiveRetry(n) PROVE SettledInv'
  <2>1. pc \in {"wait", "end", "done"} /\ pc' = pc
    BY <1>7 DEF ReceiveRetry, Handling, Quiet
  <2>2. Head(up[n]) \in 0 .. Last
    BY <1>0, <1>7, TailTyped DEF ReceiveRetry
  <2>3. QED
    BY <1>0, <1>7, <2>1, <2>2 DEF ReceiveRetry
<1>8. ASSUME NEW n \in Node, NEW type, Take(n, type), UNCHANGED <<gateway, owed>>
      PROVE  SettledInv'
  BY <1>8 DEF Take, Handling, Quiet, gateway
<1>9. ASSUME NEW n \in Node, Lose(n) PROVE SettledInv'
  BY <1>9 DEF Lose, Quiet, gateway
<1>10. CASE UNCHANGED vars
  BY <1>10 DEF vars, Quiet
<1>11. QED
  BY <1>1, <1>2, <1>3, <1>4, <1>5, <1>6, <1>7, <1>8, <1>9, <1>10
     DEF Next, Gateway, Receive, ReceiveBegin, IgnoreData, RequestRetry, WriteChunk,
         ReceiveEnd

\* With delays long enough for the frames they follow, the chunk a retry names, or
\* an earlier one, is the next to be sent (gateway.c:332-348, 386-413, ota.h:44).
THEOREM RestartHonouredWhenSettled ==
  ASSUME Settled
  PROVE  Spec => RestartHonoured
<1>1. Init => SettledInv
  BY LastTyped, OtaAssumption DEF Init, SettledInv
<1>2. SettledInv /\ [Next]_vars => (pc = "send" /\ pc' = "load" => send_chunk <= owed)
  BY DEF SettledInv
<1>3. QED
  BY <1>1, <1>2, InitTyped, NextTyped, NextSettled, PTL DEF Spec, RestartHonoured

-----------------------------------------------------------------------------
(* The update succeeds, when every frame is handled within the gateway's    *)
(* delays and fewer frames are lost than the last chunk has repetitions.    *)
(* A node that misses a frame either asks again or is ahead of the gateway; *)
(* while the last chunk is repeated, each repetition that left the node     *)
(* behind cost a lost frame.                                                *)

\* What the links of n may carry: one frame at a time.
Idle(n) == down[n] = <<>> /\ up[n] = <<>>
Carries(n, type) == Len(down[n]) = 1 /\ Head(down[n]).type = type /\ up[n] = <<>>
Retries(n) == down[n] = <<>> /\ Len(up[n]) = 1 /\ Head(up[n]) = ota_next_chunk[n]

LinkInv(n) ==
  \/ Idle(n)
  \/ /\ Carries(n, "begin") /\ state[n] = "wait_ota"
     /\ pc = "wait" /\ next_chunk = 0 /\ last_chunk_sent = 0
  \/ /\ Carries(n, "data") /\ Head(down[n]).chunk = send_chunk
     /\ pc \in {"load", "store", "wait", "end"}
  \/ Carries(n, "end") /\ pc = "done"
  \/ /\ Retries(n) /\ state[n] = "ota"
     /\ pc = "wait" /\ ota_next_chunk[n] < send_chunk

\* Where the main task is, with the indices it holds there.
PhaseInv ==
  /\ pc = "begin" => \A n \in Node : Idle(n) /\ state[n] = "wait_ota"
  /\ pc = "wait" => next_chunk <= send_chunk + 1
  /\ pc = "send" => next_chunk = send_chunk /\ \A n \in Node : Idle(n)
  /\ pc \in {"load", "store"} => next_chunk = send_chunk
  /\ pc = "store" => loaded = send_chunk
  /\ pc \in {"load", "store", "wait"} /\ send_chunk # Last => last_chunk_sent = 0
  /\ pc = "end" => send_chunk = Last /\ last_chunk_sent = LastRepeats

\* Nothing needs to reach n before the chunk is sent: n has what comes before it,
\* or a frame was lost for every repetition of the last chunk and one more.
Served(n, chunk) ==
  \/ /\ ota_next_chunk[n] >= chunk
     /\ chunk = Last /\ ota_next_chunk[n] = Last => losses >= last_chunk_sent
  \/ losses >= last_chunk_sent + 1

\* A gap is only there when frames were lost.
Paid == losses >= 1 /\ losses >= last_chunk_sent

ServedInv(n) ==
  state[n] = "ota" =>
    /\ Idle(n) /\ pc \in {"wait", "send"} => Served(n, next_chunk)
    /\ Idle(n) /\ pc \in {"load", "store", "end"} => Served(n, Last)
    /\ Carries(n, "data") =>
         /\ ota_next_chunk[n] >= send_chunk \/ Paid
         /\ send_chunk = Last /\ ota_next_chunk[n] = Last =>
              losses + 1 >= last_chunk_sent
    /\ Retries(n) => Paid
    /\ pc = "done" => ota_next_chunk[n] = ChunkCount

NodeInv(n) ==
  /\ state[n] = "wait_ota" => ota_next_chunk[n] = 0
  /\ state[n] = "ota" => FlashErrors \/ opened[n]
  /\ state[n] = "wait_sleep" => FlashErrors \/ booting[n] = "new"

SuccessInv == PhaseInv /\ \A n \in Node : LinkInv(n) /\ ServedInv(n) /\ NodeInv(n)

\* A frame put on an empty link is alone there.
LEMMA EnqueueAlone ==
  ASSUME NEW f
  PROVE  Len(Enqueue(<<>>, f)) = 1 /\ Head(Enqueue(<<>>, f)) = f
BY OtaAssumption DEF Enqueue

\* A link that carried one frame is empty without it.
LEMMA TailAlone ==
  ASSUME NEW S, NEW q \in Seq(S), Len(q) = 1
  PROVE  Tail(q) = <<>> /\ q # <<>>
<1>1. q # <<>>
  OBVIOUS
<1>2. Tail(q) \in Seq(S) /\ Len(Tail(q)) = 0
  BY <1>1
<1>3. QED
  BY <1>1, <1>2, EmptySeq

\* The types that the steps of this section lean on.
LEMMA SuccessTypes ==
  ASSUME TypeInv
  PROVE  /\ down \in [Node -> Seq(Frame)] /\ up \in [Node -> Seq(0 .. Last)]
         /\ next_chunk \in 0 .. Last /\ send_chunk \in 0 .. Last /\ loaded \in 0 .. Last
         /\ last_chunk_sent \in 0 .. LastRepeats
         /\ ota_next_chunk \in [Node -> 0 .. ChunkCount]
         /\ state \in [Node -> {"wait_ota", "ota", "wait_sleep"}]
         /\ opened \in [Node -> BOOLEAN] /\ booting \in [Node -> {"old", "new"}]
         /\ losses \in 0 .. MaxLosses
         /\ Last \in Nat /\ Last + 1 = ChunkCount /\ LastRepeats \in Nat \ {0}
         /\ MaxLosses \in Nat
BY OtaAssumption, LastTyped DEF TypeInv, TypeOK, LinksTyped, GatewayTyped, NodesTyped

\* The steps of the main task, which find the links as the delay before them left
\* them.
LEMMA GatewaySuccess ==
  ASSUME Settled, MaxLosses < LastRepeats, TypeInv, SuccessInv, Gateway
  PROVE  SuccessInv'
<1> USE SuccessTypes DEF SuccessInv
<1>1. CASE SendBegin
  <2>1. ASSUME NEW n \in Node
        PROVE  LinkInv(n)' /\ ServedInv(n)' /\ NodeInv(n)'
    <3>1. Idle(n) /\ state[n] = "wait_ota" /\ NodeInv(n)
      BY <1>1 DEF SendBegin, PhaseInv
    <3>2. down'[n] = Enqueue(<<>>, [type |-> "begin", chunk |-> 0]) /\ up'[n] = <<>>
      BY <1>1, <3>1 DEF SendBegin, Broadcast, Idle
    <3>3. Carries(n, "begin")'
      BY <3>2, EnqueueAlone DEF Carries
    <3>4. QED
      BY <1>1, <3>1, <3>3 DEF SendBegin, nodes, LinkInv, ServedInv, NodeInv
  <2>2. PhaseInv'
    BY <1>1 DEF SendBegin, PhaseInv
  <2>3. QED
    BY <2>1, <2>2
<1>2. CASE ReadChunk
  <2>1. \A n \in Node : Idle(n)
    BY <1>2 DEF ReadChunk, DelayOver, Quiet, Idle
  <2>2. PhaseInv'
    BY <1>2, <2>1 DEF ReadChunk, PhaseInv, Idle
  <2>3. ASSUME NEW n \in Node
        PROVE  LinkInv(n)' /\ ServedInv(n)' /\ NodeInv(n)'
    <3>1. Idle(n) /\ Idle(n)' /\ ~Carries(n, "data")' /\ ~Retries(n)'
      BY <1>2, <2>1 DEF ReadChunk, Idle, Carries, Retries
    <3>2. QED
      BY <1>2, <3>1 DEF ReadChunk, nodes, LinkInv, ServedInv, NodeInv, Served
  <2>4. QED
    BY <2>2, <2>3
<1>3. CASE SendChunk
  <2>1. PhaseInv'
    BY <1>3 DEF SendChunk, PhaseInv
  <2>2. ASSUME NEW n \in Node
        PROVE  LinkInv(n)' /\ ServedInv(n)' /\ NodeInv(n)'
    <3>1. Idle(n) /\ NodeInv(n) /\ ServedInv(n) /\ next_chunk = send_chunk /\ pc = "send"
      BY <1>3 DEF SendChunk, PhaseInv
    <3>2. /\ down'[n] = Enqueue(<<>>, [type |-> "data", chunk |-> send_chunk])
          /\ up'[n] = <<>>
      BY <1>3, <3>1 DEF SendChunk, Broadcast, Idle
    <3>3. Carries(n, "data")' /\ Head(down'[n]).chunk = send_chunk
          /\ ~Idle(n)' /\ ~Retries(n)'
      BY <3>2, EnqueueAlone DEF Carries, Idle, Retries
    <3>4. LinkInv(n)' /\ NodeInv(n)'
      BY <1>3, <3>1, <3>3 DEF SendChunk, nodes, LinkInv, NodeInv
    <3>5. ASSUME state[n] = "ota" PROVE ServedInv(n)'
      <4>1. Served(n, send_chunk)
        BY <3>1, <3>5 DEF ServedInv
      <4>2. QED
        BY <1>3, <3>3, <4>1 DEF SendChunk, nodes, ServedInv, Served, Paid
    <3>6. QED
      BY <1>3, <3>4, <3>5 DEF SendChunk, nodes, ServedInv
  <2>3. QED
    BY <2>1, <2>2
<1>4. CASE LoadNext
  BY <1>4 DEF LoadNext, nodes, PhaseInv, LinkInv, ServedInv, NodeInv, Served, Paid,
              Idle, Carries, Retries
<1>5. CASE StoreNext
  <2>1. /\ next_chunk' = (IF send_chunk = Last THEN send_chunk ELSE send_chunk + 1)
        /\ next_chunk' \in 0 .. Last /\ pc' \in {"wait", "end"}
        /\ pc' = "end" => last_chunk_sent = LastRepeats
        /\ send_chunk # Last => last_chunk_sent = 0
    BY <1>5 DEF StoreNext, PhaseInv
  <2>2. PhaseInv'
    BY <1>5, <2>1 DEF StoreNext, PhaseInv
  <2>3. ASSUME NEW n \in Node
        PROVE  LinkInv(n)' /\ ServedInv(n)' /\ NodeInv(n)'
    <3>1. LinkInv(n)' /\ NodeInv(n)'
      BY <1>5, <2>1 DEF StoreNext, nodes, LinkInv, NodeInv, Idle, Carries, Retries
    <3>2. ServedInv(n)'
      BY <1>5, <2>1 DEF StoreNext, nodes, ServedInv, Served, Paid, Idle, Carries, Retries
    <3>3. QED
      BY <3>1, <3>2
  <2>4. QED
    BY <2>2, <2>3
<1>6. CASE SendEnd
  <2>1. PhaseInv'
    BY <1>6 DEF SendEnd, PhaseInv
  <2>2. ASSUME NEW n \in Node
        PROVE  LinkInv(n)' /\ ServedInv(n)' /\ NodeInv(n)'
    <3>1. /\ Idle(n) /\ NodeInv(n) /\ ServedInv(n) /\ pc = "end"
          /\ last_chunk_sent = LastRepeats
      BY <1>6 DEF SendEnd, DelayOver, Quiet, Idle, PhaseInv
    <3>2. /\ down'[n] = Enqueue(<<>>, [type |-> "end", chunk |-> 0])
          /\ up'[n] = <<>>
      BY <1>6, <3>1 DEF SendEnd, Broadcast, Idle
    <3>3. Carries(n, "end")' /\ ~Carries(n, "data")' /\ ~Idle(n)' /\ ~Retries(n)'
      BY <3>2, EnqueueAlone DEF Carries, Idle, Retries
    <3>4. ASSUME state[n] = "ota" PROVE ota_next_chunk[n] = ChunkCount
      <4>1. Served(n, Last)
        BY <3>1, <3>4 DEF ServedInv
      <4>2. losses < last_chunk_sent /\ ota_next_chunk[n] \in 0 .. ChunkCount
        BY <3>1
      <4>3. QED
        BY <4>1, <4>2 DEF Served
    <3>5. QED
      BY <1>6, <3>1, <3>3, <3>4 DEF SendEnd, nodes, LinkInv, NodeInv, ServedInv
  <2>3. QED
    BY <2>1, <2>2
<1>7. QED
  BY <1>1, <1>2, <1>3, <1>4, <1>5, <1>6 DEF Gateway

\* What n takes is the only frame on its links.
LEMMA TakeAlone ==
  ASSUME TypeInv, NEW n \in Node, LinkInv(n), NEW type, Take(n, type)
  PROVE  /\ Carries(n, type) /\ ~Idle(n) /\ ~Retries(n)
         /\ down' = [down EXCEPT ![n] = <<>>]
         /\ type = "begin" => state[n] = "wait_ota" /\ pc = "wait" /\ next_chunk = 0
                              /\ last_chunk_sent = 0
         /\ type = "data" => /\ Head(down[n]).chunk = send_chunk
                             /\ pc \in {"load", "store", "wait", "end"}
         /\ type = "end" => pc = "done"
<1>1. down \in [Node -> Seq(Frame)] /\ down[n] # <<>> /\ Head(down[n]).type = type
  BY SuccessTypes DEF Take
<1>2. Len(down[n]) = 1 /\ up[n] = <<>>
  BY <1>1 DEF LinkInv, Idle, Carries, Retries
<1>3. Tail(down[n]) = <<>>
  BY <1>1, <1>2, TailAlone
<1>4. QED
  BY <1>1, <1>2, <1>3 DEF Take, LinkInv, Idle, Carries, Retries

\* The nodes a step leaves alone keep their part of the invariant.
LEMMA OthersSucceed ==
  ASSUME NEW n \in Node, LinkInv(n), ServedInv(n), NodeInv(n),
         UNCHANGED <<pc, send_chunk, last_chunk_sent, next_chunk, down[n], up[n],
                     state[n], opened[n], ota_next_chunk[n], booting[n]>>,
         losses' = losses
  PROVE  LinkInv(n)' /\ ServedInv(n)' /\ NodeInv(n)'
BY DEF LinkInv, ServedInv, NodeInv, Served, Paid, Idle, Carries, Retries

\* The main task does not move when a node takes a frame.
LEMMA TakePhase ==
  ASSUME TypeInv, SuccessInv, NEW n \in Node, NEW type, Take(n, type),
         UNCHANGED gateway
  PROVE  PhaseInv'
<1>1. LinkInv(n) /\ PhaseInv
  BY DEF SuccessInv
<1>2. ~Idle(n)
  BY <1>1, TakeAlone
<1>3. QED
  BY <1>1, <1>2 DEF PhaseInv, gateway

\* The frames a node takes.
LEMMA ReceiveSuccess ==
  ASSUME Settled, MaxLosses < LastRepeats, TypeInv, FlashInv, SuccessInv,
         NEW n \in Node,
         \/ ReceiveBegin(n) \/ IgnoreData(n) \/ RequestRetry(n) \/ WriteChunk(n)
         \/ ReceiveEnd(n)
  PROVE  SuccessInv'
<1> USE SuccessTypes
<1>1. PhaseInv /\ LinkInv(n) /\ ServedInv(n) /\ NodeInv(n)
  BY DEF SuccessInv
<1>2. /\ PhaseInv' /\ UNCHANGED gateway /\ losses' = losses
      /\ down' = [down EXCEPT ![n] = <<>>]
  BY <1>1, TakeAlone, TakePhase
     DEF ReceiveBegin, IgnoreData, RequestRetry, WriteChunk, ReceiveEnd
<1>3. \A k \in Node \ {n} :
        UNCHANGED <<down[k], up[k], state[k], opened[k], ota_next_chunk[k], booting[k]>>
  BY <1>2 DEF ReceiveBegin, IgnoreData, RequestRetry, WriteChunk, ReceiveEnd, nodes
<1>4. \A k \in Node \ {n} : LinkInv(k)' /\ ServedInv(k)' /\ NodeInv(k)'
  BY <1>2, <1>3, OthersSucceed DEF SuccessInv, gateway
<1>5. down'[n] = <<>> /\ ~Carries(n, "data")'
  BY <1>2 DEF Carries
<1>6. LinkInv(n)' /\ ServedInv(n)' /\ NodeInv(n)'
  <2>1. CASE ReceiveBegin(n)
    <3>1. /\ pc = "wait" /\ next_chunk = 0 /\ last_chunk_sent = 0 /\ up[n] = <<>>
          /\ ota_next_chunk[n] = 0
      BY <1>1, <2>1, TakeAlone DEF ReceiveBegin, Carries, NodeInv
    <3>2. Idle(n)' /\ ~Retries(n)'
      BY <1>5, <2>1, <3>1 DEF ReceiveBegin, Idle, Retries
    <3>3. NodeInv(n)'
      BY <1>1, <2>1 DEF ReceiveBegin, BeginResults, NodeInv
    <3>4. QED
      BY <1>2, <1>5, <2>1, <3>1, <3>2, <3>3
         DEF ReceiveBegin, LinkInv, ServedInv, Served, gateway
  <2>2. CASE IgnoreData(n) \/ RequestRetry(n) \/ WriteChunk(n)
    <3>1. /\ Carries(n, "data") /\ Head(down[n]).chunk = send_chunk /\ up[n] = <<>>
          /\ pc \in {"load", "store", "wait", "end"} /\ Handling
      BY <1>1, <2>2, TakeAlone DEF IgnoreData, RequestRetry, WriteChunk, Carries, Take
    <3>2. pc \in {"wait", "end"}
      BY <3>1 DEF Handling
    <3>3. pc = "wait" => /\ next_chunk <= send_chunk + 1
                         /\ send_chunk # Last => last_chunk_sent = 0
      BY <1>1 DEF PhaseInv
    <3>4. pc = "end" => send_chunk = Last /\ last_chunk_sent = LastRepeats
      BY <1>1 DEF PhaseInv
    <3>5. state[n] = "ota" =>
            /\ ota_next_chunk[n] >= send_chunk \/ Paid
            /\ send_chunk = Last /\ ota_next_chunk[n] = Last =>
                 losses + 1 >= last_chunk_sent
      BY <1>1, <3>1 DEF ServedInv
    <3>6. CASE IgnoreData(n)
      <4>1. Idle(n)' /\ ~Retries(n)' /\ LinkInv(n)' /\ NodeInv(n)'
        BY <1>1, <1>5, <3>1, <3>6 DEF IgnoreData, Idle, Retries, LinkInv, NodeInv, nodes
      <4>2. state[n] = "ota" => ota_next_chunk[n] > send_chunk
        BY <3>1, <3>6 DEF IgnoreData
      <4>3. ServedInv(n)'
        BY <1>2, <1>5, <3>2, <3>3, <3>4, <3>6, <4>1, <4>2
           DEF IgnoreData, ServedInv, Served, gateway, nodes
      <4>4. QED
        BY <4>1, <4>3
    <3>7. CASE RequestRetry(n)
      <4>1. state[n] = "ota" /\ ota_next_chunk[n] < send_chunk /\ Paid
        BY <3>1, <3>5, <3>7 DEF RequestRetry
      <4>2. pc = "wait"
        BY <3>2, <3>4, <4>1 DEF Paid
      <4>3. Retries(n)' /\ ~Idle(n)'
        <5>1. up'[n] = Enqueue(<<>>, ota_next_chunk[n]) /\ ota_next_chunk' = ota_next_chunk
          BY <3>1, <3>7 DEF RequestRetry, nodes
        <5>2. QED
          BY <1>5, <5>1, EnqueueAlone DEF Retries, Idle
      <4>4. QED
        BY <1>1, <1>2, <1>5, <3>7, <4>1, <4>2, <4>3
           DEF RequestRetry, LinkInv, NodeInv, ServedInv, Paid, gateway, nodes
    <3>8. CASE WriteChunk(n)
      <4>1. /\ Idle(n)' /\ ~Retries(n)' /\ LinkInv(n)' /\ state[n] = "ota"
            /\ ota_next_chunk[n] = send_chunk
        BY <1>5, <3>1, <3>8 DEF WriteChunk, Idle, Retries, LinkInv
      <4>2. CASE FlashErrors /\ state' = [state EXCEPT ![n] = "wait_sleep"]
        BY <4>1, <4>2 DEF NodeInv, ServedInv
      <4>3. CASE /\ ota_next_chunk' = [ota_next_chunk EXCEPT ![n] = @ + 1]
                 /\ UNCHANGED state
        <5>1. ota_next_chunk'[n] = send_chunk + 1
          BY <4>1, <4>3
        <5>2. ServedInv(n)'
          BY <1>2, <1>5, <3>2, <3>3, <3>4, <4>1, <4>3, <5>1
             DEF ServedInv, Served, gateway
        <5>3. QED
          BY <1>1, <3>8, <4>1, <4>3, <5>2 DEF WriteChunk, NodeInv
      <4>4. QED
        BY <3>8, <4>2, <4>3 DEF WriteChunk
    <3>9. QED
      BY <2>2, <3>6, <3>7, <3>8
  <2>3. CASE ReceiveEnd(n)
    <3>1. pc = "done" /\ up[n] = <<>>
      BY <1>1, <2>3, TakeAlone DEF ReceiveEnd, Carries
    <3>2. Idle(n)' /\ ~Retries(n)'
      BY <1>5, <2>3, <3>1 DEF ReceiveEnd, Idle, Retries
    <3>3. NodeInv(n)'
      <4>1. CASE state[n] # "ota"
        BY <1>1, <2>3, <4>1 DEF ReceiveEnd, NodeInv
      <4>2. CASE state[n] = "ota"
        <5>1. ota_next_chunk[n] = ChunkCount /\ (FlashErrors \/ opened[n])
          BY <1>1, <3>1, <4>2 DEF ServedInv, NodeInv
        <5>2. FlashErrors \/ ImageVerifies(n)
          BY <5>1 DEF ImageVerifies, FlashInv, FlashIsPrefix
        <5>3. QED
          BY <2>3, <4>2, <5>2 DEF ReceiveEnd, NodeInv
      <4>3. QED
        BY <4>1, <4>2
    <3>4. QED
      BY <1>1, <1>2, <1>5, <2>3, <3>1, <3>2, <3>3
         DEF ReceiveEnd, LinkInv, ServedInv, gateway
  <2>4. QED
    BY <2>1, <2>2, <2>3
<1>7. QED
  BY <1>2, <1>4, <1>6 DEF SuccessInv

\* A retry that reaches the gateway, in the delay before a chunk, lowers the index to
\* what its node has; nobody who was served is then ahead of the gateway by less.
LEMMA RetrySuccess ==
  ASSUME Settled, TypeInv, SuccessInv, NEW n \in Node, ReceiveRetry(n)
  PROVE  SuccessInv'
<1> USE SuccessTypes
<1>1. PhaseInv /\ LinkInv(n) /\ ServedInv(n)
  BY DEF SuccessInv
<1>2. /\ Retries(n) /\ state[n] = "ota" /\ pc = "wait"
      /\ ota_next_chunk[n] < send_chunk /\ up[n] # <<>> /\ down[n] = <<>>
  BY <1>1 DEF ReceiveRetry, LinkInv, Idle, Carries, Retries
<1>3. up' = [up EXCEPT ![n] = <<>>]
  <2>1. Tail(up[n]) = <<>>
    BY <1>2, TailAlone DEF Retries
  <2>2. QED
    BY <2>1 DEF ReceiveRetry
<1>4. /\ next_chunk' <= next_chunk /\ next_chunk' <= ota_next_chunk[n]
      /\ next_chunk' \in 0 .. Last
      /\ UNCHANGED <<pc, send_chunk, loaded, last_chunk_sent, down, losses>>
      /\ UNCHANGED nodes
  BY <1>2 DEF ReceiveRetry, Retries
<1>5. PhaseInv'
  BY <1>1, <1>2, <1>4 DEF PhaseInv
<1>6. ASSUME NEW k \in Node
      PROVE  LinkInv(k)' /\ ServedInv(k)' /\ NodeInv(k)'
  <2>1. LinkInv(k) /\ ServedInv(k) /\ NodeInv(k)
    BY DEF SuccessInv
  <2>2. CASE k = n
    <3>1. Idle(n)' /\ ~Carries(n, "data")' /\ ~Retries(n)'
      BY <1>2, <1>3, <1>4 DEF Idle, Carries, Retries
    <3>2. QED
      BY <1>2, <1>4, <2>1, <2>2, <3>1 DEF LinkInv, ServedInv, Served, NodeInv, nodes
  <2>3. CASE k # n
    <3>1. up'[k] = up[k] /\ down'[k] = down[k]
      BY <1>3, <1>4, <2>3
    <3>2. LinkInv(k)' /\ NodeInv(k)'
      BY <1>4, <2>1, <3>1 DEF LinkInv, NodeInv, nodes, Idle, Carries, Retries
    <3>3. ServedInv(k)'
      BY <1>2, <1>4, <2>1, <3>1
         DEF ServedInv, Served, Paid, nodes, Idle, Carries, Retries
    <3>4. QED
      BY <3>2, <3>3
  <2>4. QED
    BY <2>2, <2>3
<1>7. QED
  BY <1>5, <1>6 DEF SuccessInv

\* A frame that is lost is paid for.
LEMMA LoseSuccess ==
  ASSUME TypeInv, SuccessInv, NEW n \in Node, Lose(n)
  PROVE  SuccessInv'
<1> USE SuccessTypes
<1>1. PhaseInv /\ LinkInv(n) /\ ServedInv(n) /\ NodeInv(n)
  BY DEF SuccessInv
<1>2. /\ losses' = losses + 1 /\ UNCHANGED gateway /\ UNCHANGED nodes
      /\ ~Idle(n)
  BY DEF Lose, Idle
<1>3. /\ down' = [down EXCEPT ![n] = <<>>] /\ up' = [up EXCEPT ![n] = <<>>]
      /\ \/ /\ Carries(n, "begin") \/ Carries(n, "data") \/ Carries(n, "end")
            /\ down[n] # <<>>
         \/ Retries(n) /\ up[n] # <<>>
  <2>1. CASE down[n] # <<>> /\ down' = [down EXCEPT ![n] = Tail(@)] /\ up' = up
    <3>1. Len(down[n]) = 1 /\ up[n] = <<>>
      BY <1>1, <2>1 DEF LinkInv, Idle, Carries, Retries
    <3>2. Tail(down[n]) = <<>>
      BY <3>1, TailAlone
    <3>3. QED
      BY <1>1, <2>1, <3>1, <3>2 DEF LinkInv, Idle, Carries, Retries
  <2>2. CASE up[n] # <<>> /\ up' = [up EXCEPT ![n] = Tail(@)] /\ down' = down
    <3>1. Len(up[n]) = 1 /\ down[n] = <<>>
      BY <1>1, <2>2 DEF LinkInv, Idle, Carries, Retries
    <3>2. Tail(up[n]) = <<>>
      BY <3>1, TailAlone
    <3>3. QED
      BY <1>1, <2>2, <3>1, <3>2 DEF LinkInv, Idle, Carries, Retries
  <2>3. QED
    BY <2>1, <2>2 DEF Lose
<1>4. PhaseInv'
  BY <1>1, <1>2 DEF PhaseInv, gateway
<1>5. ASSUME NEW k \in Node, k # n
      PROVE  LinkInv(k)' /\ ServedInv(k)' /\ NodeInv(k)'
  <2>1. LinkInv(k) /\ ServedInv(k) /\ NodeInv(k)
    BY DEF SuccessInv
  <2>2. down'[k] = down[k] /\ up'[k] = up[k]
    BY <1>3, <1>5
  <2>3. LinkInv(k)' /\ NodeInv(k)'
    BY <1>2, <2>1, <2>2 DEF LinkInv, NodeInv, Idle, Carries, Retries, gateway, nodes
  <2>4. /\ Idle(k)' = Idle(k) /\ Carries(k, "data")' = Carries(k, "data")
        /\ Retries(k)' = Retries(k)
    BY <1>2, <2>2 DEF Idle, Carries, Retries, nodes
  <2>5. ServedInv(k)'
    BY <1>2, <2>1, <2>4 DEF ServedInv, Served, Paid, gateway, nodes
  <2>6. QED
    BY <2>3, <2>5
<1>6. LinkInv(n)' /\ ServedInv(n)' /\ NodeInv(n)'
  <2>1. Idle(n)' /\ ~Carries(n, "data")' /\ ~Retries(n)'
    BY <1>3 DEF Idle, Carries, Retries
  <2>2. LinkInv(n)' /\ NodeInv(n)'
    BY <1>1, <1>2, <2>1 DEF LinkInv, NodeInv, nodes
  <2>3. ASSUME state[n] = "ota" PROVE ServedInv(n)'
    <3>1. CASE Carries(n, "data")
      <4>0. pc \in {"load", "store", "wait", "end"}
        BY <1>1, <1>3, <3>1 DEF LinkInv, Idle, Carries, Retries
      <4>1. /\ pc = "end" => send_chunk = Last
            /\ pc # "end" /\ send_chunk # Last => last_chunk_sent = 0
            /\ pc = "wait" => next_chunk <= send_chunk + 1
        BY <1>1, <4>0 DEF PhaseInv
      <4>2. /\ ota_next_chunk[n] >= send_chunk \/ Paid
            /\ send_chunk = Last /\ ota_next_chunk[n] = Last =>
                 losses + 1 >= last_chunk_sent
        BY <1>1, <2>3, <3>1 DEF ServedInv
      <4>3. Served(n, Last)'
        BY <1>2, <4>0, <4>1, <4>2 DEF Served, Paid, gateway, nodes
      <4>4. pc = "wait" => Served(n, next_chunk)'
        BY <1>2, <4>0, <4>1, <4>2 DEF Served, Paid, gateway, nodes
      <4>5. QED
        BY <1>2, <2>1, <4>0, <4>3, <4>4 DEF ServedInv, gateway
    <3>2. CASE Retries(n)
      <4>0. pc = "wait"
        BY <1>1, <1>3, <3>2 DEF LinkInv, Idle, Carries, Retries
      <4>1. Paid
        BY <1>1, <2>3, <3>2 DEF ServedInv
      <4>2. QED
        BY <1>2, <2>1, <4>0, <4>1 DEF ServedInv, Served, Paid, gateway
    <3>3. CASE Carries(n, "begin") \/ Carries(n, "end")
      <4>1. pc = "done"
        BY <1>1, <2>3, <3>3 DEF LinkInv, Idle, Carries, Retries
      <4>2. QED
        BY <1>1, <1>2, <2>1, <2>3, <4>1 DEF ServedInv, gateway, nodes
    <3>4. QED
      BY <1>3, <3>1, <3>2, <3>3
  <2>4. QED
    BY <1>2, <2>2, <2>3 DEF ServedInv, nodes
<1>7. QED
  BY <1>4, <1>5, <1>6 DEF SuccessInv

LEMMA NextSuccess ==
  ASSUME Settled, MaxLosses < LastRepeats, TypeInv, FlashInv, SuccessInv, [Next]_vars
  PROVE  SuccessInv'
<1>1. CASE UNCHANGED vars
  BY <1>1 DEF vars, SuccessInv, PhaseInv, LinkInv, ServedInv, NodeInv, Served, Paid,
              Idle, Carries, Retries
<1>2. QED
  BY <1>1, GatewaySuccess, ReceiveSuccess, RetrySuccess, LoseSuccess DEF Next, Receive

\* An update in which fewer frames are lost than the last chunk has repetitions ends
\* with the whole image on every node that took part, and, but for flash errors, with
\* every one of them set to boot it (gateway.c:386-432, node.c:262-322).
THEOREM UpdateSucceedsWhenSettled ==
  ASSUME Settled, MaxLosses < LastRepeats
  PROVE  Spec => []UpdateSucceeds
<1>1. Init => SuccessInv
  BY OtaAssumption, LastTyped
     DEF Init, SuccessInv, PhaseInv, LinkInv, ServedInv, NodeInv, Idle, Carries, Retries
<1>2. SuccessInv => UpdateSucceeds
  BY DEF SuccessInv, ServedInv, NodeInv, UpdateSucceeds
<1>3. QED
  BY <1>1, <1>2, InitTyped, NextTyped, InitFlash, NextFlash, NextSuccess, PTL DEF Spec

=============================================================================
