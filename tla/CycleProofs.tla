----------------------------- MODULE CycleProofs -----------------------------
(***************************************************************************)
(* Proofs about WakeCycle for every set of nodes and channels, every number *)
(* of advertisements, firmware versions and faults, and every kind of fault.*)
(***************************************************************************)
EXTENDS WakeCycle, TLAPS

-----------------------------------------------------------------------------
(* Type correctness.                                                        *)

\* The gateway joins a network only if there is one, and has an advertisement left
\* while it advertises.
SessionShape ==
  /\ gpc = "connecting" => network # NoNetwork
  /\ gpc \in {"starting", "connecting", "advertising"} => advertised < Advertisements

TypeInv == TypeOK /\ SessionShape

LEMMA CountTyped ==
  ASSUME faults \in 0 .. MaxFaults, NEW k \in Nat, Count(k)
  PROVE  faults' \in 0 .. MaxFaults
BY CycleAssumption DEF Count

LEMMA CostTyped ==
  ASSUME NEW S
  PROVE  Cost(S) \in Nat
BY DEF Cost

\* A board boots on a real channel with all its advertisements to send.
LEMMA BootTyped ==
  /\ 1 \in Channel
  /\ 0 \in 0 .. Advertisements /\ 0 < Advertisements
  /\ 0 \in 0 .. MaxVersion /\ 0 \in 0 .. MaxFaults /\ 0 \in Nat
BY CycleAssumption

LEMMA GatewayStepTyped ==
  ASSUME TypeInv, Gateway
  PROVE  TypeInv'
<1> USE CycleAssumption DEF TypeInv, TypeOK, GatewayTyped, NodesTyped, SessionShape
<1>1. 1 \in Channel /\ NoNetwork \notin Channel /\ 0 \in Nat /\ 1 \in Nat
  OBVIOUS
<1>2. ASSUME NEW c \in Channel, NEW H \in SUBSET Node, Announce(c, H)
      PROVE  /\ NodesTyped' /\ faults' \in 0 .. MaxFaults
             /\ UNCHANGED <<network, interrupted, parted, gchannel, connectivity, advertised, gota,
                            gversion>>
  <2>1. faults' \in 0 .. MaxFaults
    BY <1>2, CountTyped, CostTyped DEF Announce
  <2>2. QED
    BY <1>2, <2>1 DEF Announce
<1>3. ASSUME NEW H \in SUBSET Node, FindNetwork(H) PROVE TypeInv'
  <2>1. network \in Channel
    BY <1>3 DEF FindNetwork
  <2>2. Announce(network, H)
    BY <1>3 DEF FindNetwork
  <2>3. QED
    BY <1>2, <1>3, <2>1, <2>2 DEF FindNetwork
<1>4. ASSUME NEW H \in SUBSET Node, FindNothing(H) PROVE TypeInv'
  <2>1. Announce(1, H)
    BY <1>4 DEF FindNothing
  <2>2. QED
    BY <1>1, <1>2, <1>4, <2>1 DEF FindNothing
<1>5. ASSUME NEW H \in SUBSET Node, OtaBegin(H) PROVE TypeInv'
  <2>1. faults' \in 0 .. MaxFaults
    BY <1>5, CountTyped, CostTyped DEF OtaBegin, Broadcast
  <2>2. QED
    BY <1>5, <2>1, BootTyped DEF OtaBegin, Broadcast, Spoil, NoImage
<1>6. ASSUME NEW H \in SUBSET Node, SendSleep(H) PROVE TypeInv'
  <2>1. faults' \in 0 .. MaxFaults
    BY <1>6, CountTyped, CostTyped DEF SendSleep, Broadcast
  <2>2. QED
    BY <1>6, <2>1 DEF SendSleep, Broadcast
<1>7. ASSUME NEW H \in SUBSET Node, NEW R \in SUBSET Node, Advertise(H, R) PROVE TypeInv'
  <2>1. faults' \in 0 .. MaxFaults
    BY <1>7, CountTyped, CostTyped DEF Advertise
  <2>2. advertised' = advertised + 1 /\ advertised + 1 \in 0 .. Advertisements
    BY <1>7 DEF Advertise
  <2>3. GatewayTyped' /\ SessionShape'
    BY <1>7, <2>2 DEF Advertise, AllAdvertised
  <2>4. NodesTyped' /\ UNCHANGED <<network, interrupted, parted>>
    BY <1>7 DEF Advertise
  <2>5. QED
    BY <2>1, <2>3, <2>4
<1>8. ASSUME NEW H \in SUBSET Node, NEW R \in SUBSET Node, OtaEnd(H, R) PROVE TypeInv'
  <2>1. faults' \in 0 .. MaxFaults
    BY <1>8, CountTyped, CostTyped DEF OtaEnd
  <2>2. parted' \in BOOLEAN
    BY <1>8 DEF OtaEnd
  <2>3. /\ written' \in [Node -> {"none", "part", "whole", "spoilt"}]
        /\ image' \in [Node -> 0 .. MaxVersion] /\ installed' \in [Node -> 0 .. MaxVersion]
    BY <1>8, BootTyped DEF OtaEnd, Spoil, NoImage
  <2>4. QED
    BY <1>8, <2>1, <2>2, <2>3 DEF OtaEnd, AfterEnd
<1>9. CASE Connect
  <2>1. faults' \in 0 .. MaxFaults
    BY <1>9, CountTyped DEF Connect
  <2>2. gchannel' \in Channel /\ connectivity' \in BOOLEAN
    BY <1>1, <1>9 DEF Connect
  <2>3. QED
    BY <1>9, <2>1, <2>2 DEF Connect, nodes
<1>10. CASE StopCollecting
  <2>1. faults' \in 0 .. MaxFaults
    BY <1>10, CountTyped, CostTyped DEF StopCollecting
  <2>2. QED
    BY <1>10, <2>1 DEF StopCollecting, nodes
<1>11. CASE CheckUpdate
  BY <1>11, BootTyped DEF CheckUpdate, GatewayForgets, nodes
<1>12. CASE GatewayWakes
  BY <1>12, BootTyped DEF GatewayWakes, GatewayBoots, GatewayForgets, nodes
<1>13. QED
  BY <1>3, <1>4, <1>5, <1>6, <1>7, <1>8, <1>9, <1>10, <1>11, <1>12 DEF Gateway

LEMMA NodeStepTyped ==
  ASSUME TypeInv, NEW n \in Node,
         Main(n) \/ NodeRestarts(n) \/ ChunksArrive(n) \/ ChunkFails(n)
  PROVE  TypeInv'
<1> USE CycleAssumption DEF TypeInv, TypeOK, GatewayTyped, NodesTyped, SessionShape, gateway
<1>1. 1 \in Channel /\ 0 \in Nat /\ 1 \in Nat
  OBVIOUS
<1>2. CASE NodeWakes(n)
  BY <1>1, <1>2, BootTyped DEF NodeWakes, NodeBoots, NodeForgets, NoImage
<1>3. CASE LeavePoll(n)
  BY <1>3 DEF LeavePoll, Goto
<1>4. CASE SkipTelemetry(n)
  BY <1>4 DEF SkipTelemetry, Goto, AfterTelemetry
<1>5. CASE StartTelemetry(n)
  BY <1>5 DEF StartTelemetry, Goto
<1>6. CASE SendTelemetry(n)
  <2>1. faults' \in 0 .. MaxFaults /\ uploads' \in [Node -> Nat]
    BY <1>6, CountTyped, CostTyped DEF SendTelemetry, Upload
  <2>2. QED
    BY <1>6, <2>1 DEF SendTelemetry, Goto
<1>7. CASE FinishTelemetry(n)
  BY <1>7 DEF FinishTelemetry, Goto, AfterTelemetry
<1>8. CASE GoToSleep(n)
  BY <1>1, <1>8, BootTyped DEF GoToSleep, NodeForgets, NoImage
<1>9. CASE NodeRestarts(n)
  <2>1. faults' \in 0 .. MaxFaults
    BY <1>1, <1>9, CountTyped DEF NodeRestarts
  <2>2. QED
    BY <1>1, <1>9, <2>1, BootTyped DEF NodeRestarts, NodeBoots, NodeForgets, NoImage
<1>10. CASE ChunkFails(n)
  <2>1. faults' \in 0 .. MaxFaults
    BY <1>1, <1>10, CountTyped DEF ChunkFails
  <2>2. QED
    BY <1>10, <2>1, BootTyped DEF ChunkFails, Spoil, NoImage
<1>11. CASE ChunksArrive(n)
  BY <1>11, BootTyped DEF ChunksArrive, NoImage
<1>12. QED
  BY <1>2, <1>3, <1>4, <1>5, <1>6, <1>7, <1>8, <1>9, <1>10, <1>11 DEF Main

LEMMA NextTyped ==
  ASSUME TypeInv, [Next]_vars
  PROVE  TypeInv'
<1> USE CycleAssumption DEF TypeInv, TypeOK, GatewayTyped, NodesTyped, SessionShape, gateway, nodes
<1>1. CASE GatewayRestarts
  <2>1. faults' \in 0 .. MaxFaults
    BY <1>1, CountTyped DEF GatewayRestarts
  <2>2. QED
    BY <1>1, <2>1, BootTyped DEF GatewayRestarts, GatewayBoots, GatewayForgets
<1>2. CASE MoveNetwork
  <2>1. faults' \in 0 .. MaxFaults
    BY <1>2, CountTyped DEF MoveNetwork
  <2>2. QED
    BY <1>2, <2>1 DEF MoveNetwork
<1>3. CASE UNCHANGED vars
  BY <1>3 DEF vars
<1>4. QED
  BY <1>1, <1>2, <1>3, GatewayStepTyped, NodeStepTyped DEF Next

LEMMA InitTyped == Init => TypeInv
<1> SUFFICES ASSUME Init PROVE TypeInv
  OBVIOUS
<1>1. GatewayTyped /\ SessionShape
  BY BootTyped DEF Init, GatewayTyped, SessionShape
<1>2. NodesTyped
  BY BootTyped DEF Init, NodesTyped, NoImage
<1>3. QED
  BY <1>1, <1>2, BootTyped DEF Init, TypeInv, TypeOK

\* Every variable keeps its type: the radio channels exist and no advertisement is
\* sent too many (gateway.c:95-131, 220-231).
THEOREM TypeCorrect == Spec => []TypeOK
<1>1. TypeInv => TypeOK
  BY DEF TypeInv
<1>2. QED
  BY <1>1, InitTyped, NextTyped, PTL DEF Spec

-----------------------------------------------------------------------------
(* A batch is uploaded at most once.                                        *)

\* A node that may still send this period's batch has not sent it.
BatchPending ==
  \A n \in Node :
    /\ npc[n] = "asleep" => uploads[n] = 0
    /\ npc[n] \in {"poll", "decide"} /\ ~cold[n] => uploads[n] = 0
    /\ npc[n] = "send" => uploads[n] = 0

BatchInv == BatchUploadedOnce /\ BatchPending

LEMMA NextBatch ==
  ASSUME TypeInv, BatchInv, [Next]_vars
  PROVE  BatchInv'
<1> USE DEF BatchInv, BatchUploadedOnce, BatchPending, TypeInv, TypeOK, NodesTyped
<1>1. CASE UNCHANGED <<npc, cold, uploads>>
  BY <1>1
<1>2. ASSUME NEW n \in Node, NodeWakes(n) PROVE BatchInv'
  BY <1>2 DEF NodeWakes, NodeBoots, NodeForgets
<1>3. ASSUME NEW n \in Node, LeavePoll(n) PROVE BatchInv'
  BY <1>3 DEF LeavePoll, Goto
<1>4. ASSUME NEW n \in Node, SkipTelemetry(n) PROVE BatchInv'
  BY <1>4 DEF SkipTelemetry, Goto
<1>5. ASSUME NEW n \in Node, StartTelemetry(n) PROVE BatchInv'
  BY <1>5 DEF StartTelemetry, FromSleep, Goto
<1>6. ASSUME NEW n \in Node, SendTelemetry(n) PROVE BatchInv'
  <2>1. uploads' = [uploads EXCEPT ![n] = uploads[n] + 1] \/ uploads' = uploads
    BY <1>6 DEF SendTelemetry, Upload
  <2>2. npc' = [npc EXCEPT ![n] = "sent"] /\ cold' = cold /\ uploads[n] = 0
    BY <1>6 DEF SendTelemetry, Goto
  <2>3. QED
    BY <2>1, <2>2
<1>7. ASSUME NEW n \in Node, FinishTelemetry(n) PROVE BatchInv'
  BY <1>7 DEF FinishTelemetry, Goto
<1>8. ASSUME NEW n \in Node, GoToSleep(n) PROVE BatchInv'
  BY <1>8 DEF GoToSleep, NodeForgets
<1>9. ASSUME NEW n \in Node, NodeRestarts(n) PROVE BatchInv'
  BY <1>9 DEF NodeRestarts, NodeBoots, NodeForgets
<1>10. ASSUME Gateway \/ GatewayRestarts \/ MoveNetwork \/ UNCHANGED vars
       PROVE  UNCHANGED <<npc, cold, uploads>>
  BY <1>10 DEF Gateway, FindNetwork, FindNothing, Announce, OtaBegin, SendSleep, Broadcast,
               Advertise, OtaEnd, Connect, StopCollecting, CheckUpdate, GatewayWakes,
               GatewayRestarts, GatewayBoots, GatewayForgets, MoveNetwork, vars, nodes
<1>11. ASSUME NEW n \in Node, ChunksArrive(n) \/ ChunkFails(n)
       PROVE  UNCHANGED <<npc, cold, uploads>>
  BY <1>11 DEF ChunksArrive, ChunkFails
<1>12. QED
  BY <1>1, <1>2, <1>3, <1>4, <1>5, <1>6, <1>7, <1>8, <1>9, <1>10, <1>11 DEF Next, Main

\* The readings of a sleep period are uploaded at most once, whatever restarts and
\* is lost (node.c:96-139).
THEOREM BatchUploadedOnceCorrect == Spec => []BatchUploadedOnce
<1>1. Init => BatchInv
  BY DEF Init, BatchInv, BatchUploadedOnce, BatchPending
<1>2. BatchInv => BatchUploadedOnce
  BY DEF BatchInv
<1>3. QED
  BY <1>1, <1>2, InitTyped, NextTyped, NextBatch, PTL DEF Spec

-----------------------------------------------------------------------------
(* Only newer firmware is installed.                                        *)

\* What a node runs, what it boots next and its gateway's release are in that order.
NotAhead == \A n \in Node : version[n] <= installed[n] /\ installed[n] <= gversion

\* A node asks for and takes only a release newer than the one it runs.
ImageInv ==
  \A n \in Node :
    /\ state[n] = "ota" => ota_requested[n]
    /\ ota_requested[n] => version[n] < gversion
    /\ image[n] # NoImage => version[n] < image[n] /\ image[n] <= gversion
    /\ written[n] \in {"part", "whole"} => image[n] # NoImage
    /\ state[n] = "ota" /\ written[n] = "none" => image[n] # NoImage

VersionInv == NotAhead /\ ImageInv

\* What the next step may do to the firmware versions.
NoDowngradeStep ==
  \A n \in Node : version[n] <= version'[n] /\ version'[n] <= gversion'

LEMMA NextVersion ==
  ASSUME TypeInv, VersionInv, [Next]_vars
  PROVE  VersionInv' /\ NoDowngradeStep
<1> USE CycleAssumption
    DEF VersionInv, NotAhead, ImageInv, NoDowngradeStep, TypeInv, TypeOK, GatewayTyped,
        NodesTyped
<1>0. /\ gversion \in Nat
      /\ \A n \in Node : version[n] \in Nat /\ installed[n] \in Nat /\ image[n] \in Nat
  OBVIOUS
<1>1. CASE UNCHANGED <<version, installed, gversion, state, image, written, ota_requested>>
  BY <1>0, <1>1
<1>2. ASSUME NEW H \in SUBSET Node, NEW F \in SUBSET Node, OtaEnd(H, F)
      PROVE  VersionInv' /\ NoDowngradeStep
  <2> DEFINE Updating == {n \in Listening(gchannel) : state[n] = "ota"}
             Whole == {n \in Updating \ F : Complete(n)}
             Ended == Updating \cap H
  <2>1. UNCHANGED <<gversion, version, ota_requested>>
    BY <1>2 DEF OtaEnd
  <2>2. ASSUME NEW n \in Node
        PROVE  /\ state'[n] = IF n \in Ended THEN "wait_sleep" ELSE state[n]
               /\ installed'[n] = IF n \in Ended \cap Whole THEN image[n] ELSE installed[n]
               /\ image'[n] = IF n \in Ended THEN NoImage ELSE image[n]
               /\ written'[n] = IF n \in Whole THEN (IF n \in H THEN "spoilt" ELSE "whole")
                               ELSE IF n \in Ended THEN Spoil(written[n]) ELSE written[n]
               /\ n \in Whole => image[n] # NoImage /\ (n \in H <=> n \in Ended)
    BY <1>2 DEF OtaEnd, AfterEnd, Complete
  <2> HIDE DEF Updating, Whole, Ended
  <2>3. ASSUME NEW n \in Node
        PROVE  /\ version[n] <= installed'[n] /\ installed'[n] <= gversion
               /\ state'[n] = "ota" => ota_requested[n]
               /\ image'[n] # NoImage => version[n] < image'[n] /\ image'[n] <= gversion
               /\ written'[n] \in {"part", "whole"} => image'[n] # NoImage
               /\ state'[n] = "ota" /\ written'[n] = "none" => image'[n] # NoImage
    <3>1. version[n] <= installed'[n] /\ installed'[n] <= gversion
      BY <1>0, <2>2
    <3>2. /\ state'[n] = "ota" => ota_requested[n]
          /\ image'[n] # NoImage => version[n] < image'[n] /\ image'[n] <= gversion
      BY <2>2
    <3>3. CASE n \in Ended
      <4>1. state'[n] = "wait_sleep" /\ image'[n] = NoImage
        BY <2>2, <3>3
      <4>2. written'[n] \in {"none", "spoilt"}
        BY <2>2, <3>3 DEF Spoil
      <4>3. QED
        BY <3>1, <3>2, <4>1, <4>2
    <3>4. CASE n \notin Ended /\ n \in Whole
      BY <2>2, <3>1, <3>2, <3>4
    <3>5. CASE n \notin Ended /\ n \notin Whole
      BY <2>2, <3>1, <3>2, <3>5
    <3>6. QED
      BY <3>3, <3>4, <3>5
  <2>4. QED
    BY <1>0, <2>1, <2>3
<1>3. CASE CheckUpdate
  <2>1. /\ UNCHANGED <<version, installed, state, image, written, ota_requested>>
        /\ gversion' \in Nat /\ gversion <= gversion'
    BY <1>0, <1>3 DEF CheckUpdate, GatewayForgets, Newer, nodes
  <2>2. QED
    BY <1>0, <2>1
<1>4. ASSUME NEW H \in SUBSET Node, FindNetwork(H) \/ FindNothing(H) \/ SendSleep(H)
      PROVE  VersionInv' /\ NoDowngradeStep
  <2>1. UNCHANGED <<version, installed, gversion, image, written, ota_requested>>
    BY <1>4 DEF FindNetwork, FindNothing, Announce, SendSleep, Broadcast
  <2>2. \A n \in Node : state'[n] = "ota" => state[n] = "ota"
    BY <1>4 DEF FindNetwork, FindNothing, Announce, SendSleep, Broadcast
  <2>3. QED
    BY <1>0, <2>1, <2>2
<1>5. ASSUME NEW H \in SUBSET Node, NEW R \in SUBSET Node, Advertise(H, R)
      PROVE  VersionInv' /\ NoDowngradeStep
  <2>1. UNCHANGED <<version, installed, gversion, image, written>>
    BY <1>5 DEF Advertise
  <2>2. \A n \in Node : /\ state'[n] = "ota" => state[n] = "ota"
                        /\ ota_requested[n] => ota_requested'[n]
                        /\ ota_requested'[n] => ota_requested[n] \/ gversion > version[n]
    BY <1>5 DEF Advertise
  <2>3. QED
    BY <1>0, <2>1, <2>2
<1>6. ASSUME NEW H \in SUBSET Node, OtaBegin(H) PROVE VersionInv' /\ NoDowngradeStep
  <2>1. UNCHANGED <<version, gversion, ota_requested>>
    BY <1>6 DEF OtaBegin, Broadcast
  <2>2. ASSUME NEW n \in Node
        PROVE  \/ UNCHANGED <<state[n], installed[n], image[n], written[n]>>
               \/ /\ ota_requested[n] /\ state'[n] = "ota" /\ installed'[n] = version[n]
                  /\ written[n] = "none" => written'[n] = "none" /\ image'[n] = gversion
                  /\ written[n] # "none" => written'[n] = "spoilt" /\ image'[n] = NoImage
    BY <1>6 DEF OtaBegin, Spoil
  <2>3. QED
    BY <1>0, <2>1, <2>2 DEF NoImage
<1>7. ASSUME NEW n \in Node, NodeWakes(n) \/ NodeRestarts(n) \/ GoToSleep(n)
      PROVE  VersionInv' /\ NoDowngradeStep
  <2>1. UNCHANGED <<installed, gversion>>
    BY <1>7 DEF NodeWakes, NodeRestarts, GoToSleep, NodeForgets, gateway
  <2>2. /\ ~ota_requested'[n] /\ image'[n] = NoImage /\ written'[n] = "none"
        /\ state'[n] # "ota" /\ version'[n] = installed[n]
    BY <1>7 DEF NodeWakes, NodeRestarts, GoToSleep, NodeBoots, NodeForgets
  <2>3. \A k \in Node \ {n} :
          UNCHANGED <<state[k], version[k], image[k], written[k], ota_requested[k]>>
    BY <1>7 DEF NodeWakes, NodeRestarts, GoToSleep, NodeBoots, NodeForgets
  <2>4. QED
    BY <1>0, <2>1, <2>2, <2>3
<1>8. ASSUME NEW n \in Node, SkipTelemetry(n) \/ FinishTelemetry(n)
      PROVE  VersionInv' /\ NoDowngradeStep
  <2>1. UNCHANGED <<version, installed, gversion, image, written, ota_requested>>
    BY <1>8 DEF SkipTelemetry, FinishTelemetry, Goto, gateway
  <2>2. \A k \in Node : state'[k] = "ota" => state[k] = "ota"
    BY <1>8 DEF SkipTelemetry, FinishTelemetry, AfterTelemetry
  <2>3. QED
    BY <1>0, <2>1, <2>2
<1>9. ASSUME NEW n \in Node, ChunksArrive(n) PROVE VersionInv' /\ NoDowngradeStep
  <2>1. /\ UNCHANGED <<version, installed, gversion, ota_requested, state>>
        /\ state[n] = "ota"
    BY <1>9 DEF ChunksArrive, Receiving, gateway
  <2>2. PICK w \in {"part", "whole", "spoilt"} :
          /\ written' = [written EXCEPT ![n] = w]
          /\ image' = [image EXCEPT ![n] = IF w = "spoilt" THEN NoImage ELSE gversion]
    BY <1>9 DEF ChunksArrive
  <2>3. version[n] < gversion /\ gversion # NoImage
    BY <1>0, <2>1 DEF NoImage
  <2>4. QED
    BY <1>0, <2>1, <2>2, <2>3
<1>10. ASSUME NEW n \in Node, ChunkFails(n) PROVE VersionInv' /\ NoDowngradeStep
  <2>1. UNCHANGED <<version, installed, gversion, ota_requested>>
    BY <1>10 DEF ChunkFails, gateway
  <2>2. /\ image'[n] = NoImage /\ state'[n] = "wait_sleep"
        /\ written'[n] = Spoil(written[n])
    BY <1>10 DEF ChunkFails
  <2>3. \A k \in Node \ {n} : UNCHANGED <<state[k], image[k], written[k]>>
    BY <1>10 DEF ChunkFails
  <2>4. QED
    BY <1>0, <2>1, <2>2, <2>3 DEF Spoil
<1>11. ASSUME NEW n \in Node, LeavePoll(n) \/ StartTelemetry(n) \/ SendTelemetry(n)
       PROVE  VersionInv' /\ NoDowngradeStep
  BY <1>1, <1>11 DEF LeavePoll, StartTelemetry, SendTelemetry, Goto, gateway
<1>12. CASE GatewayRestarts \/ MoveNetwork \/ UNCHANGED vars
  BY <1>1, <1>12 DEF GatewayRestarts, GatewayBoots, GatewayForgets, MoveNetwork, vars, gateway,
                     nodes
<1>13. CASE Connect \/ StopCollecting \/ GatewayWakes
  BY <1>1, <1>13 DEF Connect, StopCollecting, GatewayWakes, GatewayBoots, GatewayForgets, nodes
<1>14. QED
  BY <1>2, <1>3, <1>4, <1>5, <1>6, <1>7, <1>8, <1>9, <1>10, <1>11, <1>12, <1>13
     DEF Next, Gateway, Main

LEMMA InitVersions == Init => VersionInv
<1>1. Init => \A n \in Node : /\ version[n] = 0 /\ installed[n] = 0 /\ gversion = 0
                              /\ image[n] = NoImage /\ state[n] = "wait_channel"
                              /\ ~ota_requested[n] /\ written[n] = "none"
  BY DEF Init
<1>2. 0 <= 0
  OBVIOUS
<1>3. QED
  BY <1>1, <1>2 DEF VersionInv, NotAhead, ImageInv

\* No node goes back to an older firmware or gets ahead of its gateway, whatever the
\* platform offers and whatever restarts (gateway.c:261, node.c:195-199).
THEOREM NoDowngradeCorrect == Spec => NoDowngrade
BY InitVersions, InitTyped, NextTyped, NextVersion, PTL DEF Spec, NoDowngrade, NoDowngradeStep

-----------------------------------------------------------------------------
(* Telemetry meets a gateway that listens.                                  *)

\* A node has been told to send its readings and has not done so.
Due(n) == npc[n] \in {"poll", "decide", "send"} /\ state[n] = "send_telemetry"

\* As long as the gateway has not restarted or given a node up, a node that is due is in
\* the session whose advertisement it heard.
DueInv ==
  \A n \in Node :
    /\ npc[n] = "send" => Due(n)
    /\ Due(n) /\ ~interrupted =>
         channel[n] = gchannel /\ connectivity /\ gpc \in {"advertising", "collecting"}

\* What the gateway does, a node that is due hears of it as before.
LEMMA GatewayKeepsDue ==
  ASSUME TypeInv, DueInv, Gateway
  PROVE  DueInv'
<1> USE DEF DueInv, Due, TypeInv, TypeOK, NodesTyped
<1>1. ASSUME NEW c, NEW H \in SUBSET Node, Announce(c, H), gpc = "starting",
             gpc' \in {"connecting", "advertising"}
      PROVE  DueInv'
  BY <1>1 DEF Announce
<1>2. ASSUME NEW H \in SUBSET Node, FindNetwork(H) \/ FindNothing(H) PROVE DueInv'
  BY <1>1, <1>2 DEF FindNetwork, FindNothing
<1>3. CASE Connect
  BY <1>3 DEF Connect, nodes
<1>4. ASSUME NEW H \in SUBSET Node, NEW R \in SUBSET Node, Advertise(H, R) PROVE DueInv'
  <2>1. /\ \A n \in H : channel[n] = gchannel
        /\ gpc = "advertising" /\ gpc' \in {"advertising", "collecting"}
        /\ UNCHANGED <<npc, channel, gchannel, connectivity, interrupted>>
    BY <1>4 DEF Advertise, Reach, Listening
  <2>2. \A n \in Node : state'[n] # state[n] =>
          n \in H /\ state[n] = "wait_gateway" /\ (state'[n] = "send_telemetry" => connectivity)
    BY <1>4 DEF Advertise
  <2>3. QED
    BY <2>1, <2>2
<1>5. CASE StopCollecting
  BY <1>5 DEF StopCollecting, Busy, nodes
<1>6. ASSUME NEW H \in SUBSET Node, OtaBegin(H) \/ SendSleep(H) PROVE DueInv'
  <2>1. gpc \in {"begin", "closing"} /\ UNCHANGED <<npc, interrupted>>
    BY <1>6 DEF OtaBegin, SendSleep, Broadcast
  <2>2. \A n \in Node : Due(n)' <=> Due(n)
    BY <1>6, <2>1 DEF OtaBegin, SendSleep, AcceptsSleep
  <2>3. QED
    BY <2>1, <2>2
<1>7. ASSUME NEW H \in SUBSET Node, NEW R \in SUBSET Node, OtaEnd(H, R) PROVE DueInv'
  BY <1>7 DEF OtaEnd, AfterEnd
<1>8. CASE CheckUpdate \/ GatewayWakes
  BY <1>8 DEF CheckUpdate, GatewayWakes, GatewayBoots, GatewayForgets, Busy, nodes
<1>9. QED
  BY <1>2, <1>3, <1>4, <1>5, <1>6, <1>7, <1>8 DEF Gateway

LEMMA NextDue ==
  ASSUME TypeInv, DueInv, [Next]_vars
  PROVE  DueInv'
<1> USE DEF DueInv, Due, TypeInv, TypeOK, NodesTyped
<1>1. CASE GatewayRestarts
  BY <1>1 DEF GatewayRestarts, GatewayBoots, GatewayForgets, nodes
<1>2. CASE MoveNetwork \/ UNCHANGED vars
  BY <1>2 DEF MoveNetwork, vars, gateway, nodes
<1>3. ASSUME NEW n \in Node, NodeWakes(n) \/ NodeRestarts(n) PROVE DueInv'
  BY <1>3 DEF NodeWakes, NodeRestarts, NodeBoots, NodeForgets, gateway
<1>4. ASSUME NEW n \in Node, LeavePoll(n) \/ StartTelemetry(n) PROVE DueInv'
  BY <1>4 DEF LeavePoll, StartTelemetry, Goto, gateway
<1>5. ASSUME NEW n \in Node, SkipTelemetry(n) \/ FinishTelemetry(n) PROVE DueInv'
  BY <1>5 DEF SkipTelemetry, FinishTelemetry, Goto, gateway
<1>6. ASSUME NEW n \in Node, SendTelemetry(n) \/ GoToSleep(n) PROVE DueInv'
  BY <1>6 DEF SendTelemetry, GoToSleep, NodeForgets, Goto, gateway
<1>7. ASSUME NEW n \in Node, ChunksArrive(n) \/ ChunkFails(n) PROVE DueInv'
  BY <1>7 DEF ChunksArrive, ChunkFails, Receiving, gateway
<1>8. QED
  BY <1>1, <1>2, <1>3, <1>4, <1>5, <1>6, <1>7, GatewayKeepsDue DEF Next, Main

\* A node's readings go to a gateway that serves telemetry on its channel, whatever is lost,
\* fails or moves, unless the gateway restarted or gave a node up in a session that is not
\* yet over for all of them (gateway.c:216, 233-239).
THEOREM TelemetryIsHeardCorrect == Spec => TelemetryIsHeard
<1>1. Init => DueInv
  BY DEF Init, DueInv, Due
<1>2. DueInv =>
        \A n \in Node :
          npc[n] = "send" /\ npc'[n] = "sent" => TelemetryServed(n) \/ interrupted
  BY DEF DueInv, TelemetryServed
<1>3. QED
  BY <1>1, <1>2, InitTyped, NextTyped, NextDue, PTL DEF Spec, TelemetryIsHeard

-----------------------------------------------------------------------------
(* A session without a fault leaves nobody behind.                          *)

\* The states a node may be in, by where the gateway is.
Expected ==
  CASE gpc \in {"starting", "stopped", "asleep"} -> {"wait_channel", "sleep"}
    [] gpc = "connecting" -> {"wait_channel", "sleep", "wait_gateway"}
    [] gpc = "advertising" -> {"wait_channel", "sleep", "wait_gateway", "send_telemetry",
                               "wait_ota_or_sleep", "wait_sleep"}
    [] gpc = "collecting" -> {"wait_channel", "sleep", "send_telemetry",
                              "wait_ota_or_sleep", "wait_sleep"}
    [] gpc = "begin" -> {"wait_channel", "sleep", "wait_ota_or_sleep", "wait_sleep"}
    [] gpc = "updating" -> {"wait_channel", "sleep", "ota", "wait_sleep"}
    [] gpc = "closing" -> {"wait_channel", "sleep", "wait_sleep"}

\* The states of a node that has heard an advertisement in this session.
Found == {"send_telemetry", "wait_ota_or_sleep", "ota", "wait_sleep"}

\* n takes part in the session: on its channel, with its request known to the gateway
\* when it needs one, with chunks of this session's update only, and with no step of its
\* main task due once nodes are collected.
Attends(n) ==
  /\ state[n] \in Expected
  /\ state[n] = "wait_channel" => npc[n] = "poll" /\ channel[n] = 1 /\ ~ota_requested[n]
  /\ state[n] = "wait_gateway" => npc[n] = "poll" /\ channel[n] = Home /\ ~ota_requested[n]
  /\ state[n] = "sleep" => npc[n] \in {"wait", "asleep"}
  /\ state[n] \in Found => npc[n] # "asleep" /\ channel[n] = Home
  /\ state[n] = "send_telemetry" => npc[n] # "wait"
  /\ state[n] \in Found => IF ota_requested[n] THEN gota ELSE version[n] = gversion
  /\ state[n] \in {"wait_ota_or_sleep", "ota"} => ota_requested[n]
  /\ \/ state[n] \in {"wait_channel", "wait_gateway"}
     \/ state[n] \in Found /\ gpc \in {"advertising", "collecting", "begin"}
     => written[n] = "none"
  /\ state[n] = "ota" => image[n] = gversion /\ written[n] # "spoilt"
  /\ state[n] = "wait_sleep" => installed[n] = gversion
  /\ gpc \in {"begin", "updating", "closing"} => ~Busy(n)

GatewayAttends ==
  /\ gpc = "starting" => gchannel = 1
  /\ gpc \in {"advertising", "collecting", "begin", "updating", "closing"} => gchannel = Home

AttendInv == faults = 0 => GatewayAttends /\ \A n \in Node : Attends(n)

\* What the next step may do to a node that goes to sleep.
SleepsUpToDateStep ==
  \A n \in Node :
    faults' = 0 /\ state[n] # "sleep" /\ state'[n] = "sleep" => installed'[n] = gversion

\* A frame costs no fault only when all who should hear it do.
LEMMA NoFaultHeard ==
  ASSUME faults \in 0 .. MaxFaults, NEW S, NEW H \in SUBSET S,
         NEW k \in Nat, Count(Cost(S \ H) + k), faults' = 0
  PROVE  faults = 0 /\ H = S /\ k = 0
<1>1. Cost(S \ H) \in Nat
  BY CostTyped
<1>2. faults = 0 /\ Cost(S \ H) = 0 /\ k = 0
  BY <1>1, CycleAssumption DEF Count
<1>3. S \ H = {}
  BY <1>2 DEF Cost
<1>4. QED
  BY <1>2, <1>3

\* The same for a step that sends one frame.
LEMMA NoFaultHeardAlone ==
  ASSUME faults \in 0 .. MaxFaults, NEW S, NEW H \in SUBSET S,
         Count(Cost(S \ H)), faults' = 0
  PROVE  faults = 0 /\ H = S
<1>1. Cost(S \ H) \in Nat
  BY CostTyped
<1>2. faults = 0 /\ Cost(S \ H) = 0
  BY <1>1, CycleAssumption DEF Count
<1>3. S \ H = {}
  BY <1>2 DEF Cost
<1>4. QED
  BY <1>2, <1>3

LEMMA GatewayAttendsStep ==
  ASSUME TypeInv, VersionInv, AttendInv, Gateway
  PROVE  AttendInv' /\ SleepsUpToDateStep
<1> SUFFICES ASSUME faults' = 0 PROVE AttendInv' /\ SleepsUpToDateStep
  BY DEF AttendInv, SleepsUpToDateStep
<1> USE CycleAssumption DEF TypeInv, TypeOK, GatewayTyped, NodesTyped
<1>1. ASSUME NEW c, NEW H \in SUBSET Node, Announce(c, H), gpc = "starting",
             c = Home, gpc' \in {"connecting", "advertising"},
             gpc' = "advertising" => c = 1
      PROVE  AttendInv' /\ SleepsUpToDateStep
  <2>1. faults = 0 /\ H = Listening(1)
    BY <1>1, NoFaultHeardAlone DEF Announce, Reach
  <2>2. GatewayAttends /\ \A n \in Node : Attends(n)
    BY <2>1 DEF AttendInv
  <2>3. GatewayAttends' /\ Home' = Home
    BY <1>1, <2>2 DEF Announce, GatewayAttends, Home
  <2>4. ASSUME NEW n \in Node PROVE Attends(n)' /\ (state'[n] = "sleep" => state[n] = "sleep")
    <3>1. CASE state[n] = "wait_channel"
      <4>1. n \in H
        BY <2>1, <2>2, <3>1 DEF Attends, Listening
      <4>2. state'[n] = "wait_gateway" /\ channel'[n] = Home /\ npc' = npc
            /\ UNCHANGED <<ota_requested, written>>
        BY <1>1, <3>1, <4>1 DEF Announce
      <4>3. QED
        BY <1>1, <2>2, <2>3, <3>1, <4>2 DEF Attends, Expected, Found
    <3>2. CASE state[n] = "sleep"
      <4>1. state'[n] = "sleep" /\ npc' = npc
        BY <1>1, <3>2 DEF Announce
      <4>2. QED
        BY <1>1, <2>2, <3>2, <4>1 DEF Attends, Expected, Found
    <3>3. QED
      BY <1>1, <2>2, <3>1, <3>2 DEF Attends, Expected
  <2>5. QED
    BY <2>3, <2>4 DEF AttendInv, SleepsUpToDateStep
<1>2. ASSUME NEW H \in SUBSET Node, FindNetwork(H) PROVE AttendInv' /\ SleepsUpToDateStep
  BY <1>1, <1>2 DEF FindNetwork, Home
<1>3. ASSUME NEW H \in SUBSET Node, FindNothing(H) PROVE AttendInv' /\ SleepsUpToDateStep
  BY <1>1, <1>3 DEF FindNothing, Home
<1>4. CASE Connect
  <2>1. faults = 0 /\ gchannel' = network /\ UNCHANGED <<nodes, network, gota, gversion>>
    BY <1>4 DEF Connect, Count
  <2>2. gpc = "connecting" /\ gpc' = "advertising" /\ network # NoNetwork
    BY <1>4 DEF Connect, SessionShape
  <2>3. \A n \in Node : Attends(n)
    BY <2>1 DEF AttendInv
  <2>4. GatewayAttends' /\ Home' = Home
    BY <2>1, <2>2 DEF GatewayAttends, Home
  <2>5. \A n \in Node : Attends(n)'
    BY <2>1, <2>2, <2>3, <2>4 DEF Attends, Expected, Found, Busy, nodes
  <2>6. QED
    BY <2>1, <2>4, <2>5 DEF AttendInv, SleepsUpToDateStep, nodes
<1>5. ASSUME NEW H \in SUBSET Node, NEW R \in SUBSET Node, Advertise(H, R)
      PROVE  AttendInv' /\ SleepsUpToDateStep
  <2> DEFINE Told == {n \in H : state[n] = "wait_gateway"}
             Older == {n \in Told : gversion > version[n]}
  <2> HIDE DEF Told, Older
  <2>1. faults = 0 /\ H = Listening(gchannel) /\ R = Older
    <3>1. H \subseteq Listening(gchannel) /\ R \subseteq Older
      BY <1>5 DEF Advertise, Reach, Told, Older
    <3>2. Count(Cost(Listening(gchannel) \ H) + Cost(Older \ R))
      BY <1>5 DEF Advertise, Told, Older
    <3>3. Cost(Older \ R) \in Nat
      BY CostTyped
    <3>4. faults = 0 /\ H = Listening(gchannel) /\ Cost(Older \ R) = 0
      BY <3>1, <3>2, <3>3, NoFaultHeard
    <3>5. Older \ R = {}
      BY <3>4 DEF Cost
    <3>6. QED
      BY <3>1, <3>4, <3>5
  <2>2. GatewayAttends /\ \A n \in Node : Attends(n)
    BY <2>1 DEF AttendInv
  <2>3. /\ gpc = "advertising" /\ gpc' \in {"advertising", "collecting"}
        /\ UNCHANGED <<gchannel, gversion, npc, channel, version, installed, image, written,
                       network>>
        /\ gota' = (gota \/ R # {})
        /\ ota_requested' = [n \in Node |-> ota_requested[n] \/ n \in Older]
        /\ \A n \in Node : n \notin Told => state'[n] = state[n]
        /\ \A n \in Told : state'[n] =
             IF connectivity THEN "send_telemetry"
             ELSE IF n \in Older THEN "wait_ota_or_sleep" ELSE "wait_sleep"
        /\ Told = {n \in H : state[n] = "wait_gateway"}
        /\ Older = {n \in Told : gversion > version[n]}
    BY <1>5 DEF Advertise, Told, Older
  <2>4. GatewayAttends' /\ Home' = Home
    BY <2>2, <2>3 DEF GatewayAttends, Home
  <2>5. ASSUME NEW n \in Node
        PROVE  Attends(n)' /\ (state'[n] = "sleep" => state[n] = "sleep")
    <3>1. CASE state[n] = "wait_gateway"
      <4>1. npc[n] = "poll" /\ channel[n] = Home /\ ~ota_requested[n] /\ written[n] = "none"
        BY <2>2, <3>1 DEF Attends
      <4>2. n \in Told
        BY <2>1, <2>2, <2>3, <3>1, <4>1 DEF Listening, GatewayAttends
      <4>3. CASE n \in Older
        <5>1. ota_requested'[n] /\ gota'
          BY <2>1, <2>3, <4>3
        <5>2. state'[n] \in {"send_telemetry", "wait_ota_or_sleep"}
          BY <2>3, <4>2, <4>3
        <5>3. QED
          BY <2>3, <2>4, <4>1, <5>1, <5>2 DEF Attends, Expected, Found
      <4>4. CASE n \notin Older
        <5>1. ~ota_requested'[n]
          BY <2>3, <4>1, <4>4
        <5>2. version[n] = gversion /\ installed[n] = gversion
          BY <2>3, <4>2, <4>4 DEF VersionInv, NotAhead
        <5>3. state'[n] \in {"send_telemetry", "wait_sleep"}
          BY <2>3, <4>2, <4>4
        <5>4. QED
          BY <2>3, <2>4, <4>1, <5>1, <5>2, <5>3 DEF Attends, Expected, Found
      <4>5. QED
        BY <4>3, <4>4
    <3>2. CASE state[n] # "wait_gateway"
      <4>1. state'[n] = state[n] /\ ota_requested'[n] = ota_requested[n]
        BY <2>3, <3>2
      <4>2. gota => gota'
        BY <2>3
      <4>3. QED
        BY <2>2, <2>3, <2>4, <3>2, <4>1, <4>2 DEF Attends, Expected, Found
    <3>3. QED
      BY <3>1, <3>2
  <2>6. QED
    BY <2>4, <2>5 DEF AttendInv, SleepsUpToDateStep
<1>6. CASE StopCollecting
  <2>1. /\ faults = 0 /\ gpc = "collecting" /\ gpc' = (IF gota THEN "begin" ELSE "closing")
        /\ \A n \in Node : ~Busy(n)
        /\ UNCHANGED <<gchannel, gota, gversion, nodes, network>>
    <3> DEFINE Late == {n \in Node : Busy(n)}
    <3>1. Count(Cost(Late))
      BY <1>6 DEF StopCollecting
    <3>2. faults = 0 /\ Cost(Late) = 0
      BY <3>1, CostTyped DEF Count
    <3>3. Late = {}
      BY <3>2 DEF Cost
    <3>4. QED
      BY <1>6, <3>2, <3>3 DEF StopCollecting
  <2>2. GatewayAttends /\ \A n \in Node : Attends(n)
    BY <2>1 DEF AttendInv
  <2>3. GatewayAttends' /\ Home' = Home
    BY <2>1, <2>2 DEF GatewayAttends, Home
  <2>4. ASSUME NEW n \in Node PROVE Attends(n)'
    <3>1. Attends(n) /\ ~Busy(n)
      BY <2>1, <2>2
    <3>2. state[n] # "send_telemetry" => state[n] \in {"wait_channel", "sleep",
            "wait_ota_or_sleep", "wait_sleep"}
      BY <2>1, <3>1 DEF Attends, Expected
    <3>3. QED
      BY <2>1, <2>3, <3>1, <3>2 DEF Attends, Expected, Found, Busy, nodes
  <2>5. QED
    BY <2>1, <2>3, <2>4 DEF AttendInv, SleepsUpToDateStep, nodes
<1>7. ASSUME NEW H \in SUBSET Node, OtaBegin(H) PROVE AttendInv' /\ SleepsUpToDateStep
  <2>1. faults = 0 /\ H = Listening(gchannel)
    BY <1>7, NoFaultHeardAlone DEF OtaBegin, Broadcast, Reach
  <2>2. GatewayAttends /\ \A n \in Node : Attends(n)
    BY <2>1 DEF AttendInv
  <2>3. /\ gpc = "begin" /\ gpc' = "updating"
        /\ UNCHANGED <<gchannel, gota, gversion, npc, channel, ota_requested, version, network>>
        /\ state' = [n \in Node |->
                      IF n \in H /\ ota_requested[n] /\ state[n] = "wait_ota_or_sleep"
                      THEN "ota" ELSE state[n]]
        /\ \A n \in Node : written[n] = "none" =>
             written'[n] = "none" /\ (state[n] # "ota" /\ state'[n] = "ota" => image'[n] = gversion)
        /\ \A n \in Node : state'[n] = state[n] => UNCHANGED <<written[n], image[n], installed[n]>>
    BY <1>7 DEF OtaBegin, Broadcast, Spoil
  <2>4. GatewayAttends' /\ Home' = Home
    BY <2>2, <2>3 DEF GatewayAttends, Home
  <2>5. ASSUME NEW n \in Node
        PROVE  Attends(n)' /\ (state'[n] = "sleep" => state[n] = "sleep")
    <3>1. CASE state[n] = "wait_ota_or_sleep"
      <4>1. ota_requested[n] /\ npc[n] # "asleep" /\ channel[n] = Home
        BY <2>2, <3>1 DEF Attends, Found
      <4>2. n \in H /\ state'[n] = "ota"
        BY <2>1, <2>2, <2>3, <3>1, <4>1 DEF Listening, GatewayAttends
      <4>3. QED
        BY <2>2, <2>3, <2>4, <3>1, <4>2 DEF Attends, Expected, Found, Busy
    <3>2. CASE state[n] # "wait_ota_or_sleep"
      <4>1. state'[n] = state[n]
        BY <2>3, <3>2
      <4>2. QED
        BY <2>2, <2>3, <2>4, <3>2, <4>1 DEF Attends, Expected, Found, Busy
    <3>3. QED
      BY <3>1, <3>2
  <2>6. QED
    BY <2>4, <2>5 DEF AttendInv, SleepsUpToDateStep
<1>8. ASSUME NEW H \in SUBSET Node, NEW F \in SUBSET Node, OtaEnd(H, F)
      PROVE  AttendInv' /\ SleepsUpToDateStep
  <2> DEFINE Updating == {n \in H : state[n] = "ota"}
  <2>1. faults = 0 /\ H = Listening(gchannel) /\ F = {}
    <3>1. H \subseteq Listening(gchannel)
      BY <1>8 DEF OtaEnd, Reach
    <3>2. Count(Cost(Listening(gchannel) \ H) + Cost(F))
      BY <1>8 DEF OtaEnd
    <3>3. faults = 0 /\ H = Listening(gchannel) /\ Cost(F) = 0
      BY <3>1, <3>2, CostTyped, NoFaultHeard
    <3>4. QED
      BY <3>3 DEF Cost
  <2>2. GatewayAttends /\ \A n \in Node : Attends(n)
    BY <2>1 DEF AttendInv
  <2>3. /\ gpc = "updating" /\ gpc' = "closing"
        /\ UNCHANGED <<gchannel, gota, gversion, npc, channel, ota_requested, version, network>>
        /\ \A n \in Node : state'[n] = IF n \in Updating THEN "wait_sleep" ELSE state[n]
        /\ \A n \in Node : installed'[n] = IF n \in Updating THEN gversion ELSE installed[n]
        /\ \A n \in Node : n \notin Updating => UNCHANGED <<written[n], image[n]>>
    <3>1. Updating = {n \in Listening(gchannel) : state[n] = "ota"} /\ Updating \cap H = Updating
      BY <2>1
    <3>2. \A n \in Updating : Complete(n) /\ image[n] = gversion
      BY <2>2 DEF Attends, Complete, Listening
    <3>3. {n \in Updating \ F : Complete(n)} = Updating
      BY <2>1, <3>2
    <3> HIDE DEF Updating
    <3>4. QED
      BY <1>8, <2>1, <3>1, <3>2, <3>3 DEF OtaEnd, AfterEnd
  <2>4. GatewayAttends' /\ Home' = Home
    BY <2>2, <2>3 DEF GatewayAttends, Home
  <2>5. ASSUME NEW n \in Node
        PROVE  Attends(n)' /\ (state'[n] = "sleep" => state[n] = "sleep")
    <3>1. CASE state[n] = "ota"
      <4>1. npc[n] # "asleep" /\ channel[n] = Home
        BY <2>2, <3>1 DEF Attends, Found
      <4>2. n \in Updating
        BY <2>1, <2>2, <2>3, <3>1, <4>1 DEF Listening, GatewayAttends
      <4>3. state'[n] = "wait_sleep" /\ installed'[n] = gversion
        BY <2>3, <4>2
      <4>4. QED
        BY <2>2, <2>3, <2>4, <3>1, <4>3 DEF Attends, Expected, Found, Busy
    <3>2. CASE state[n] # "ota"
      <4>1. state'[n] = state[n] /\ installed'[n] = installed[n]
        BY <2>3, <3>2
      <4>2. QED
        BY <2>2, <2>3, <2>4, <3>2, <4>1 DEF Attends, Expected, Found, Busy
    <3>3. QED
      BY <3>1, <3>2
  <2>6. QED
    BY <2>4, <2>5 DEF AttendInv, SleepsUpToDateStep
<1>9. ASSUME NEW H \in SUBSET Node, SendSleep(H) PROVE AttendInv' /\ SleepsUpToDateStep
  <2>1. faults = 0 /\ H = Listening(gchannel)
    BY <1>9, NoFaultHeardAlone DEF SendSleep, Broadcast, Reach
  <2>2. GatewayAttends /\ \A n \in Node : Attends(n)
    BY <2>1 DEF AttendInv
  <2>3. /\ gpc = "closing" /\ gpc' = "stopped"
        /\ UNCHANGED <<gchannel, gota, gversion, npc, channel, ota_requested, version, installed,
                       written, network>>
        /\ state' = [n \in Node |-> IF n \in H /\ AcceptsSleep(n) THEN "sleep" ELSE state[n]]
    BY <1>9 DEF SendSleep, Broadcast
  <2>4. GatewayAttends' /\ Home' = Home
    BY <2>2, <2>3 DEF GatewayAttends, Home
  <2>5. ASSUME NEW n \in Node
        PROVE  /\ Attends(n)'
               /\ state[n] # "sleep" /\ state'[n] = "sleep" => installed[n] = gversion
    <3>1. CASE state[n] = "wait_sleep"
      <4>1. npc[n] # "asleep" /\ channel[n] = Home /\ installed[n] = gversion /\ ~Busy(n)
        BY <2>2, <2>3, <3>1 DEF Attends, Found
      <4>2. npc[n] = "wait"
        BY <3>1, <4>1 DEF Busy
      <4>3. n \in H /\ state'[n] = "sleep"
        BY <2>1, <2>2, <2>3, <3>1, <4>1 DEF Listening, GatewayAttends, AcceptsSleep
      <4>4. QED
        BY <2>3, <4>1, <4>2, <4>3 DEF Attends, Expected, Found
    <3>2. CASE state[n] # "wait_sleep"
      <4>1. state[n] \in {"wait_channel", "sleep"}
        BY <2>2, <2>3, <3>2 DEF Attends, Expected
      <4>2. state'[n] = state[n]
        BY <2>3, <4>1 DEF AcceptsSleep
      <4>3. QED
        BY <2>2, <2>3, <2>4, <4>1, <4>2 DEF Attends, Expected, Found
    <3>3. QED
      BY <3>1, <3>2
  <2>6. QED
    BY <2>3, <2>4, <2>5 DEF AttendInv, SleepsUpToDateStep
<1>10. CASE CheckUpdate \/ GatewayWakes
  <2>1. /\ faults = 0 /\ gpc \in {"stopped", "asleep"} /\ gpc' \in {"asleep", "starting"}
        /\ gpc' = "starting" => gchannel' = 1
        /\ UNCHANGED <<nodes, network>>
    BY <1>10 DEF CheckUpdate, GatewayWakes, GatewayBoots, GatewayForgets, Count
  <2>2. \A n \in Node : Attends(n) /\ state[n] \in {"wait_channel", "sleep"}
    BY <2>1 DEF AttendInv, Attends, Expected
  <2>3. GatewayAttends' /\ \A n \in Node : Attends(n)'
    BY <2>1, <2>2 DEF GatewayAttends, Attends, Expected, Found, nodes
  <2>4. QED
    BY <2>1, <2>3 DEF AttendInv, SleepsUpToDateStep, nodes
<1>11. QED
  BY <1>2, <1>3, <1>4, <1>5, <1>6, <1>7, <1>8, <1>9, <1>10 DEF Gateway

LEMMA NodeAttendsStep ==
  ASSUME TypeInv, VersionInv, AttendInv, NEW n \in Node, Main(n)
  PROVE  AttendInv' /\ SleepsUpToDateStep
<1> SUFFICES ASSUME faults' = 0 PROVE AttendInv' /\ SleepsUpToDateStep
  BY DEF AttendInv, SleepsUpToDateStep
<1> USE CycleAssumption DEF TypeInv, TypeOK, GatewayTyped, NodesTyped
<1>1. /\ faults = 0
      /\ UNCHANGED <<gateway, network, installed>>
  <2>1. faults' = faults \/ \E k \in Nat : Count(k)
    BY CostTyped DEF Main, NodeWakes, LeavePoll, SkipTelemetry, StartTelemetry,
                     SendTelemetry, FinishTelemetry, GoToSleep, NodeForgets
  <2>2. QED
    BY <2>1 DEF Main, NodeWakes, NodeBoots, NodeForgets, LeavePoll, SkipTelemetry, StartTelemetry,
                SendTelemetry, FinishTelemetry, GoToSleep, NodeForgets, Goto, Count
<1>2. GatewayAttends /\ \A k \in Node : Attends(k)
  BY <1>1 DEF AttendInv
<1>3. GatewayAttends' /\ Home' = Home
  BY <1>1, <1>2 DEF GatewayAttends, Home, gateway
<1>4. ASSUME NEW k \in Node, k # n
      PROVE  Attends(k)' /\ state'[k] = state[k]
  <2>1. UNCHANGED <<npc[k], state[k], channel[k], ota_requested[k], version[k],
                   image[k], written[k]>>
    BY <1>4 DEF Main, NodeWakes, NodeBoots, NodeForgets, LeavePoll, SkipTelemetry, StartTelemetry,
                SendTelemetry, FinishTelemetry, GoToSleep, NodeForgets, Goto
  <2>2. QED
    BY <1>1, <1>2, <1>3, <2>1 DEF Attends, Expected, Found, Busy, gateway
<1>5. Attends(n)' /\ (state'[n] = "sleep" => state[n] = "sleep")
  <2>1. CASE NodeWakes(n)
    <3>1. state[n] = "sleep" \/ state[n] = "wait_channel"
      BY <1>2, <2>1 DEF NodeWakes, Attends, Expected, Found
    <3>2. /\ state'[n] = "wait_channel" /\ npc'[n] = "poll" /\ channel'[n] = 1
          /\ ~ota_requested'[n] /\ written'[n] = "none"
      BY <2>1 DEF NodeWakes, NodeBoots, NodeForgets
    <3>3. QED
      BY <1>1, <1>2, <3>1, <3>2 DEF Attends, Expected, Found, Busy, gateway
  <2>2. CASE LeavePoll(n) \/ StartTelemetry(n) \/ SendTelemetry(n)
    <3>1. /\ UNCHANGED <<state, channel, ota_requested, version, image, written>>
          /\ npc'[n] \in {"decide", "send", "wait", "sent"}
          /\ npc'[n] = "wait" => state[n] # "send_telemetry"
          /\ npc[n] \in {"poll", "decide", "send"}
          /\ npc[n] = "poll" => state[n] \notin {"wait_channel", "wait_gateway"}
      BY <2>2 DEF LeavePoll, StartTelemetry, SendTelemetry, Goto
    <3>2. state[n] \in Found
      BY <1>2, <3>1 DEF Attends, Found
    <3>3. Busy(n)
      BY <3>1, <3>2 DEF Busy, Found
    <3>4. QED
      BY <1>1, <1>2, <1>3, <3>1, <3>2, <3>3 DEF Attends, Expected, Found, gateway
  <2>3. CASE SkipTelemetry(n) \/ FinishTelemetry(n)
    <3>1. /\ UNCHANGED <<channel, ota_requested, version, image, written>>
          /\ state'[n] = AfterTelemetry(n) /\ npc'[n] = "wait"
          /\ npc[n] \in {"decide", "sent"}
      BY <2>3 DEF SkipTelemetry, FinishTelemetry, Goto
    <3>2. state[n] \in Found
      BY <1>2, <3>1 DEF Attends, Found
    <3>3. Busy(n)
      BY <3>1, <3>2 DEF Busy, Found
    <3>4. gpc \in {"advertising", "collecting"}
      BY <1>2, <3>2, <3>3 DEF Attends, Expected, Found
    <3>5. ~ota_requested[n] => installed[n] = gversion
      BY <1>2, <3>2 DEF Attends, VersionInv, NotAhead
    <3>6. QED
      BY <1>1, <1>2, <1>3, <3>1, <3>2, <3>4, <3>5
         DEF Attends, Expected, Found, AfterTelemetry, gateway
  <2>4. CASE GoToSleep(n)
    BY <1>1, <1>2, <1>3, <2>4
       DEF GoToSleep, NodeForgets, Goto, Attends, Expected, Found, Busy, gateway
  <2>5. QED
    BY <2>1, <2>2, <2>3, <2>4 DEF Main
<1>6. QED
  BY <1>3, <1>4, <1>5 DEF AttendInv, SleepsUpToDateStep

LEMMA ChunksAttendStep ==
  ASSUME TypeInv, AttendInv, NEW n \in Node, ChunksArrive(n)
  PROVE  AttendInv' /\ SleepsUpToDateStep
<1>1. /\ UNCHANGED <<gateway, npc, state, channel, ota_requested, version, installed, network,
                     faults>>
      /\ gpc = "updating" /\ state[n] = "ota"
      /\ \A k \in Node \ {n} : UNCHANGED <<image[k], written[k]>>
      /\ image[n] = gversion => image'[n] = gversion /\ written'[n] # "spoilt"
  BY DEF ChunksArrive, Receiving, TypeInv, TypeOK, NodesTyped
<1>2. ASSUME faults = 0, NEW k \in Node PROVE Attends(k)'
  <2>1. Attends(k)
    BY <1>2 DEF AttendInv
  <2>2. CASE k = n
    BY <1>1, <2>1, <2>2 DEF Attends, Expected, Found, Busy, Home, gateway
  <2>3. CASE k # n
    <3>1. UNCHANGED <<image[k], written[k]>>
      BY <1>1, <2>3
    <3>2. QED
      BY <1>1, <2>1, <3>1 DEF Attends, Expected, Found, Busy, Home, gateway
  <2>4. QED
    BY <2>2, <2>3
<1>3. faults = 0 => GatewayAttends'
  BY <1>1 DEF AttendInv, GatewayAttends, Home, gateway
<1>4. QED
  BY <1>1, <1>2, <1>3 DEF AttendInv, SleepsUpToDateStep

LEMMA NextAttends ==
  ASSUME TypeInv, VersionInv, AttendInv, [Next]_vars
  PROVE  AttendInv' /\ SleepsUpToDateStep
<1>1. CASE UNCHANGED vars
  BY <1>1 DEF vars, gateway, nodes, AttendInv, GatewayAttends, Attends, Expected, Found,
              Busy, Home, SleepsUpToDateStep
<1>2. ASSUME GatewayRestarts \/ MoveNetwork \/ \E n \in Node : NodeRestarts(n) \/ ChunkFails(n)
      PROVE  faults' # 0
  <2>1. Count(1)
    BY <1>2 DEF GatewayRestarts, MoveNetwork, NodeRestarts, ChunkFails
  <2>2. QED
    BY <2>1, CycleAssumption DEF Count, TypeInv, TypeOK
<1>3. QED
  BY <1>1, <1>2, GatewayAttendsStep, NodeAttendsStep, ChunksAttendStep
     DEF Next, AttendInv, SleepsUpToDateStep

LEMMA InitAttends == Init => AttendInv
BY CycleAssumption DEF Init, AttendInv, GatewayAttends, Attends, Expected, Found, Busy

\* A session in which nothing goes wrong sends every node to sleep that woke in time
\* for it, for any number of nodes, channels and advertisements (gateway.c:200-268,
\* node.c:85-146).
THEOREM NobodyLeftBehindCorrect == Spec => []NobodyLeftBehind
<1>1. AttendInv => NobodyLeftBehind
  BY DEF AttendInv, Attends, Expected, NobodyLeftBehind
<1>2. QED
  BY <1>1, InitTyped, NextTyped, InitVersions, NextVersion, InitAttends, NextAttends, PTL
     DEF Spec

\* When nothing goes wrong, a node that goes to sleep has the firmware of its gateway,
\* whatever its callbacks interrupt (node.c:96-139, 195-208, gateway.c:235-249, 328).
THEOREM SleepsUpToDateCorrect == Spec => SleepsUpToDate
BY InitTyped, NextTyped, InitVersions, NextVersion, InitAttends, NextAttends, PTL
   DEF Spec, SleepsUpToDate, SleepsUpToDateStep

-----------------------------------------------------------------------------
(* Who can be stranded.                                                     *)

\* A node sleeps only when it has been told to, and is past its polling loop only once
\* it has been found; while it is awake it is in an update only during the update of its
\* gateway, on the gateway's channel, and otherwise where the gateway called it to.
AtHome(n) ==
  /\ npc[n] = "asleep" => state[n] = "sleep"
  /\ npc[n] \in {"decide", "send", "sent", "wait"} => state[n] # "wait_channel"
  /\ ~parted /\ npc[n] # "asleep" =>
       /\ state[n] = "ota" => gpc = "updating" /\ channel[n] = gchannel
       /\ state[n] # "wait_channel" => channel[n] = Home

HomeInv == \A n \in Node : AtHome(n)

\* The frames that the gateway sends find every node where it was.
LEMMA GatewayKeepsHome ==
  ASSUME TypeInv, HomeInv, Gateway
  PROVE  HomeInv'
<1> USE DEF HomeInv, AtHome, TypeInv, TypeOK, NodesTyped
<1>1. ASSUME NEW c, NEW H \in SUBSET Node, Announce(c, H), c = Home, gpc = "starting"
      PROVE  HomeInv'
  <2>1. Home' = Home /\ \A n \in H : npc[n] # "asleep"
    BY <1>1 DEF Announce, Home, Reach, Listening
  <2>2. ASSUME NEW n \in Node PROVE AtHome(n)'
    <3>1. \/ UNCHANGED <<state[n], channel[n]>>
          \/ n \in H /\ state[n] = "wait_channel" /\ state'[n] = "wait_gateway" /\ channel'[n] = c
      BY <1>1 DEF Announce
    <3>2. UNCHANGED <<npc, parted, gchannel>>
      BY <1>1 DEF Announce
    <3>3. QED
      BY <1>1, <2>1, <3>1, <3>2
  <2>3. QED
    BY <2>2
<1>2. ASSUME NEW H \in SUBSET Node, FindNetwork(H) \/ FindNothing(H) PROVE HomeInv'
  BY <1>1, <1>2 DEF FindNetwork, FindNothing, Home
<1>3. CASE Connect
  BY <1>3 DEF Connect, nodes, Home
<1>4. ASSUME NEW H \in SUBSET Node, NEW R \in SUBSET Node, Advertise(H, R) PROVE HomeInv'
  <2>1. /\ gpc = "advertising" /\ \A n \in H : npc[n] # "asleep"
        /\ UNCHANGED <<npc, channel, gchannel, network, parted>>
    BY <1>4 DEF Advertise, Reach, Listening
  <2>2. \A n \in Node : state'[n] # state[n] =>
          /\ n \in H /\ state[n] = "wait_gateway"
          /\ state'[n] \in {"send_telemetry", "wait_ota_or_sleep", "wait_sleep"}
    BY <1>4 DEF Advertise
  <2>3. QED
    BY <2>1, <2>2 DEF Home
<1>5. CASE StopCollecting
  BY <1>5 DEF StopCollecting, nodes, Home
<1>6. ASSUME NEW H \in SUBSET Node, OtaBegin(H) PROVE HomeInv'
  <2>1. /\ gpc = "begin" /\ gpc' = "updating"
        /\ \A n \in H : npc[n] # "asleep" /\ channel[n] = gchannel
        /\ UNCHANGED <<npc, channel, gchannel, network, parted>>
    BY <1>6 DEF OtaBegin, Broadcast, Reach, Listening
  <2>2. \A n \in Node : state'[n] # state[n] =>
          n \in H /\ state[n] = "wait_ota_or_sleep" /\ state'[n] = "ota"
    BY <1>6 DEF OtaBegin
  <2>3. QED
    BY <2>1, <2>2 DEF Home
<1>7. ASSUME NEW H \in SUBSET Node, NEW F \in SUBSET Node, OtaEnd(H, F) PROVE HomeInv'
  <2>1. /\ gpc = "updating" /\ gpc' = "closing"
        /\ \A n \in H : npc[n] # "asleep"
        /\ UNCHANGED <<npc, channel, gchannel, network>>
    BY <1>7 DEF OtaEnd, Reach, Listening
  <2> DEFINE Updating == {n \in Listening(gchannel) : state[n] = "ota"}
  <2>2. ASSUME NEW n \in Node
        PROVE  \/ state'[n] = state[n] /\ n \notin Updating \cap H
               \/ n \in H /\ state[n] = "ota" /\ state'[n] = "wait_sleep"
    BY <1>7 DEF OtaEnd, AfterEnd
  <2>3. ASSUME NEW n \in Node, ~parted', npc[n] # "asleep", state[n] = "ota"
        PROVE  n \in Updating \cap H
    <3>1. ~parted /\ Updating \cap H = Updating
      BY <1>7, <2>3 DEF OtaEnd
    <3>2. n \in Updating
      BY <2>3, <3>1 DEF Listening
    <3>3. QED
      BY <3>1, <3>2
  <2>4. parted => parted'
    BY <1>7 DEF OtaEnd
  <2>5. QED
    BY <2>1, <2>2, <2>3, <2>4 DEF Home
<1>8. ASSUME NEW H \in SUBSET Node, SendSleep(H) PROVE HomeInv'
  <2>1. /\ gpc = "closing" /\ \A n \in H : npc[n] # "asleep"
        /\ UNCHANGED <<npc, channel, gchannel, network, parted>>
    BY <1>8 DEF SendSleep, Broadcast, Reach, Listening
  <2>2. \A n \in Node : state'[n] # state[n] =>
          /\ n \in H /\ state'[n] = "sleep"
          /\ state[n] \in {"wait_sleep", "wait_ota_or_sleep"}
    BY <1>8 DEF SendSleep, AcceptsSleep
  <2>3. QED
    BY <2>1, <2>2 DEF Home
<1>9. CASE CheckUpdate \/ GatewayWakes
  BY <1>9 DEF CheckUpdate, GatewayWakes, GatewayBoots, GatewayForgets, nodes, Home
<1>10. QED
  BY <1>2, <1>3, <1>4, <1>5, <1>6, <1>7, <1>8, <1>9 DEF Gateway

\* A node's own steps and restarts move its radio only to boot.
LEMMA NodeKeepsHome ==
  ASSUME TypeInv, HomeInv, NEW n \in Node,
         Main(n) \/ NodeRestarts(n) \/ ChunksArrive(n) \/ ChunkFails(n)
  PROVE  HomeInv'
<1> USE DEF HomeInv, AtHome, Home, TypeInv, TypeOK, NodesTyped, gateway
<1>1. CASE NodeWakes(n) \/ NodeRestarts(n)
  BY <1>1 DEF NodeWakes, NodeRestarts, NodeBoots, NodeForgets
<1>2. CASE LeavePoll(n) \/ StartTelemetry(n) \/ SendTelemetry(n)
  BY <1>2 DEF LeavePoll, StartTelemetry, SendTelemetry, Goto
<1>3. CASE SkipTelemetry(n) \/ FinishTelemetry(n)
  BY <1>3 DEF SkipTelemetry, FinishTelemetry, AfterTelemetry, Goto
<1>4. CASE GoToSleep(n)
  BY <1>4 DEF GoToSleep, NodeForgets
<1>5. CASE ChunksArrive(n) \/ ChunkFails(n)
  BY <1>5 DEF ChunksArrive, ChunkFails, Receiving, Listening
<1>6. QED
  BY <1>1, <1>2, <1>3, <1>4, <1>5 DEF Main

LEMMA NextHome ==
  ASSUME TypeInv, HomeInv, [Next]_vars
  PROVE  HomeInv'
<1> USE DEF HomeInv, AtHome, Home, TypeInv, TypeOK, NodesTyped
<1>1. CASE GatewayRestarts
  BY <1>1 DEF GatewayRestarts, GatewayBoots, GatewayForgets, nodes
<1>2. CASE MoveNetwork
  BY <1>2 DEF MoveNetwork, gateway, nodes
<1>3. CASE UNCHANGED vars
  BY <1>3 DEF vars, gateway, nodes
<1>4. QED
  BY <1>1, <1>2, <1>3, GatewayKeepsHome, NodeKeepsHome DEF Next

\* A node is stranded only when it misses the end of its update, when its gateway restarts
\* during it or when the access point moves while it is awake: no other fault and no
\* interleaving does it, for any number of nodes and channels (node.c:164, 213, 322-334).
THEOREM NoneStrandedCorrect == Spec => []NoneStranded
<1>1. Init => HomeInv
  BY DEF Init, HomeInv, AtHome
<1>2. HomeInv => NoneStranded
  BY DEF HomeInv, AtHome, NoneStranded, Stranded
<1>3. QED
  BY <1>1, <1>2, InitTyped, NextTyped, NextHome, PTL DEF Spec

-----------------------------------------------------------------------------
(* The network implements Deployment.                                       *)

Asleep == {n \in Node : npc[n] = "asleep"}

LEMMA NodeStepDeployed ==
  ASSUME TypeInv, BatchInv, VersionInv, NEW n \in Node,
         Main(n) \/ NodeRestarts(n) \/ ChunksArrive(n) \/ ChunkFails(n)
  PROVE  [Deployed!Next]_Deployed!dvars
<1> USE DEF TypeInv, TypeOK, NodesTyped, gateway, Deployed!Next, Deployed!dvars, Deployed!firmware
<1>1. CASE NodeWakes(n)
  <2>1. /\ UNCHANGED <<gversion, installed, uploads>>
        /\ version' = [version EXCEPT ![n] = installed[n]]
        /\ npc[n] = "asleep" /\ npc' = [npc EXCEPT ![n] = "poll"]
        /\ image' = [image EXCEPT ![n] = NoImage] /\ written' = [written EXCEPT ![n] = "none"]
    BY <1>1 DEF NodeWakes, NodeBoots, NodeForgets
  <2>2. Asleep' = Asleep \ {n} /\ n \in Asleep
    BY <2>1 DEF Asleep
  <2>3. Received' = [Received EXCEPT ![n] = 0]
    BY <2>1 DEF Received, NoImage
  <2>4. QED
    BY <2>1, <2>2, <2>3 DEF Asleep, Deployed!Wake, Deployed!Reset
<1>2. CASE NodeRestarts(n)
  <2>1. /\ UNCHANGED <<gversion, installed, uploads>> /\ npc' = [npc EXCEPT ![n] = "poll"]
        /\ version' = [version EXCEPT ![n] = installed[n]]
        /\ image' = [image EXCEPT ![n] = NoImage] /\ written' = [written EXCEPT ![n] = "none"]
    BY <1>2 DEF NodeRestarts, NodeBoots, NodeForgets
  <2>2. Asleep' = Asleep \ {n}
    BY <2>1 DEF Asleep
  <2>3. Received' = [Received EXCEPT ![n] = 0]
    BY <2>1 DEF Received, NoImage
  <2>4. CASE n \in Asleep
    BY <2>1, <2>2, <2>3, <2>4 DEF Asleep, Deployed!Wake, Deployed!Reset
  <2>5. CASE n \notin Asleep
    <3>1. Asleep' = Asleep
      BY <2>2, <2>5
    <3>2. QED
      BY <2>1, <2>3, <3>1 DEF Asleep, Deployed!Restart, Deployed!Reset
  <2>6. QED
    BY <2>4, <2>5
<1>3. CASE LeavePoll(n) \/ StartTelemetry(n) \/ SkipTelemetry(n) \/ FinishTelemetry(n)
  <2>1. /\ UNCHANGED <<gversion, version, installed, image, written, uploads>>
        /\ npc[n] # "asleep"
        /\ \E to \in {"decide", "send", "wait"} : npc' = [npc EXCEPT ![n] = to]
    BY <1>3 DEF LeavePoll, StartTelemetry, SkipTelemetry, FinishTelemetry, Goto
  <2>2. Asleep' = Asleep /\ Received' = Received
    BY <2>1 DEF Asleep, Received
  <2>3. QED
    BY <2>1, <2>2 DEF Asleep
<1>4. CASE SendTelemetry(n)
  <2>1. /\ UNCHANGED <<gversion, version, installed, image, written>>
        /\ npc[n] = "send" /\ npc' = [npc EXCEPT ![n] = "sent"]
        /\ uploads' = uploads \/ uploads' = [uploads EXCEPT ![n] = uploads[n] + 1]
    BY <1>4 DEF SendTelemetry, Goto, Upload
  <2>2. Asleep' = Asleep /\ n \notin Asleep /\ Received' = Received
    BY <2>1 DEF Asleep, Received
  <2>3. uploads[n] = 0
    BY <2>1 DEF BatchInv, BatchPending
  <2>4. uploads' = uploads \/ uploads' = [uploads EXCEPT ![n] = 1]
    BY <2>1, <2>3
  <2>5. QED
    BY <2>1, <2>2, <2>3, <2>4 DEF Asleep, Deployed!Upload
<1>5. CASE GoToSleep(n)
  <2>1. /\ UNCHANGED <<gversion, installed>> /\ version' = [version EXCEPT ![n] = installed[n]]
        /\ npc[n] = "wait" /\ npc' = [npc EXCEPT ![n] = "asleep"]
        /\ uploads' = [uploads EXCEPT ![n] = 0]
        /\ image' = [image EXCEPT ![n] = NoImage] /\ written' = [written EXCEPT ![n] = "none"]
    BY <1>5 DEF GoToSleep, NodeForgets
  <2>2. Asleep' = Asleep \cup {n} /\ n \notin Asleep
    BY <2>1 DEF Asleep
  <2>3. Received' = [Received EXCEPT ![n] = 0]
    BY <2>1 DEF Received, NoImage
  <2>4. QED
    BY <2>1, <2>2, <2>3 DEF Asleep, Deployed!FallAsleep, Deployed!Reset
<1>6. CASE ChunksArrive(n)
  <2>1. /\ UNCHANGED <<gversion, version, installed, npc, uploads, ota_requested>>
        /\ npc[n] # "asleep" /\ state[n] = "ota"
    BY <1>6 DEF ChunksArrive, Receiving, Listening
  <2>2. PICK w \in {"part", "whole", "spoilt"} :
          /\ written[n] = "none" \/ (written[n] = "part" /\ image[n] = gversion)
          /\ written' = [written EXCEPT ![n] = w]
          /\ image' = [image EXCEPT ![n] = IF w = "spoilt" THEN NoImage ELSE gversion]
    BY <1>6 DEF ChunksArrive
  <2>3. version[n] < gversion
    BY <2>1, <2>2 DEF VersionInv, NotAhead, ImageInv, GatewayTyped
  <2>4. CASE w = "whole"
    <3>1. Received' = [Received EXCEPT ![n] = gversion]
      BY <2>2, <2>4 DEF Received
    <3>2. Deployed!Update({n}, {}, {})
      BY <2>1, <2>3, <3>1 DEF Deployed!Update, Received
    <3>3. {} \in SUBSET (Node \ Asleep) /\ {n} \in SUBSET (Node \ Asleep)
      BY <2>1 DEF Asleep
    <3>4. QED
      BY <3>2, <3>3 DEF Asleep
  <2>5. CASE w # "whole"
    <3>1. Received' = Received
      BY <2>2, <2>5 DEF Received
    <3>2. QED
      BY <2>1, <3>1
  <2>6. QED
    BY <2>4, <2>5
<1>7. CASE ChunkFails(n)
  <2>1. /\ UNCHANGED <<gversion, version, installed, npc, uploads>> /\ npc[n] # "asleep"
        /\ image' = [image EXCEPT ![n] = NoImage]
        /\ written' = [written EXCEPT ![n] = Spoil(written[n])]
    BY <1>7 DEF ChunkFails, Receiving, Listening
  <2>2. Received' = [Received EXCEPT ![n] = 0]
    BY <2>1 DEF Received, NoImage, Spoil
  <2>3. Deployed!Update({}, {n}, {})
    BY <2>1, <2>2 DEF Deployed!Update, Received
  <2>4. {} \in SUBSET (Node \ Asleep) /\ {n} \in SUBSET (Node \ Asleep)
    BY <2>1 DEF Asleep
  <2>5. QED
    BY <2>3, <2>4 DEF Asleep
<1>8. QED
  BY <1>1, <1>2, <1>3, <1>4, <1>5, <1>6, <1>7 DEF Main

\* OtaBegin takes from the nodes that begin once more what they had, OtaEnd gives the rest
\* of the release to some, ends the update of some and installs what it finds whole.
LEMMA UpdateDeployed ==
  ASSUME TypeInv, VersionInv, NEW H \in SUBSET Node, NEW F \in SUBSET Node,
         OtaBegin(H) \/ OtaEnd(H, F)
  PROVE  Deployed!Next
<1> USE DEF TypeInv, TypeOK, NodesTyped, GatewayTyped
<1>1. CASE OtaBegin(H)
  <2> DEFINE E == {n \in H : ota_requested[n] /\ state[n] = "wait_ota_or_sleep"}
  <2>1. /\ UNCHANGED <<gversion, npc, uploads, version>>
        /\ installed' = [n \in Node |-> IF n \in E THEN version[n] ELSE installed[n]]
        /\ \A n \in H : npc[n] # "asleep"
        /\ image' = [n \in Node |-> IF n \notin E THEN image[n]
                                    ELSE IF written[n] = "none" THEN gversion ELSE NoImage]
        /\ written' = [n \in Node |-> IF n \in E THEN Spoil(written[n]) ELSE written[n]]
    BY <1>1 DEF OtaBegin, Broadcast, Reach, Listening
  <2>2. E \in SUBSET (Node \ Asleep) /\ {} \in SUBSET (Node \ Asleep)
    BY <2>1 DEF Asleep
  <2> HIDE DEF E
  <2>3. Received' = [n \in Node |-> IF n \in E THEN 0 ELSE Received[n]]
    BY <2>1 DEF Received, NoImage, Spoil
  <2>4. Deployed!Prepare(E)
    BY <2>1, <2>3 DEF Deployed!Prepare
  <2>5. QED
    BY <2>2, <2>4 DEF Asleep, Deployed!Next
<1>2. CASE OtaEnd(H, F)
  <2> DEFINE Updating == {n \in Listening(gchannel) : state[n] = "ota"}
             Whole == {n \in Updating \ F : Complete(n)}
             E == Updating \cap H
             R == {n \in Whole : written[n] # "whole"}
             S == E \cap Whole
  <2>1. /\ UNCHANGED <<gversion, npc, uploads, version>>
        /\ installed' = [n \in Node |-> IF n \in E \cap Whole THEN image[n] ELSE installed[n]]
        /\ image' = [n \in Node |-> IF n \in E THEN NoImage ELSE image[n]]
        /\ written' = [n \in Node |-> IF n \in Whole THEN (IF n \in H THEN "spoilt" ELSE "whole")
                                    ELSE IF n \in E THEN Spoil(written[n]) ELSE written[n]]
    BY <1>2 DEF OtaEnd
  <2>2. /\ R \in SUBSET (Node \ Asleep) /\ E \in SUBSET (Node \ Asleep)
        /\ S \in SUBSET (Node \ Asleep) /\ S \subseteq E
    BY DEF Asleep, Listening
  <2>3. /\ \A n \in R : image[n] = gversion /\ version[n] < image[n]
        /\ \A n \in S \ R : written[n] = "whole" /\ version[n] < image[n]
        /\ R \subseteq Whole /\ R \cup S \subseteq Node
    BY DEF Complete, VersionInv, ImageInv, Listening
  <2>4. \A n \in Node : /\ n \in Whole /\ n \notin E => n \notin H
                        /\ n \in Whole /\ n \notin R => written[n] = "whole"
                        /\ n \in E => n \in H
    OBVIOUS
  <2>5. S = E \cap Whole
    OBVIOUS
  <2> HIDE DEF Updating, Whole, E, R, S
  <2> DEFINE Has(n) == IF n \in R THEN gversion ELSE Received[n]
  <2>6. \A n \in R \cup S : Has(n) = image[n] /\ version[n] < Has(n)
    BY <2>3 DEF Received
  <2>7. installed' = [n \in Node |-> IF n \in S THEN Has(n) ELSE installed[n]]
    BY <2>1, <2>5, <2>6
  <2>8. ASSUME NEW n \in Node PROVE Received'[n] = IF n \in E THEN 0 ELSE Has(n)
    <3>1. Received'[n] = IF written'[n] = "whole" THEN image'[n] ELSE NoImage
      BY DEF Received
    <3>2. CASE n \in E
      BY <2>1, <3>1, <3>2 DEF NoImage
    <3>3. CASE n \notin E /\ n \in Whole
      <4>1. written'[n] = "whole" /\ image'[n] = image[n]
        BY <2>1, <2>4, <3>3
      <4>2. n \in R => Has(n) = image[n]
        BY <2>3
      <4>3. n \notin R => Has(n) = image[n]
        BY <2>4, <3>3 DEF Received
      <4>4. QED
        BY <3>1, <3>3, <4>1, <4>2, <4>3
    <3>4. CASE n \notin E /\ n \notin Whole
      <4>1. written'[n] = written[n] /\ image'[n] = image[n] /\ n \notin R
        BY <2>1, <2>3, <3>4
      <4>2. QED
        BY <3>1, <3>4, <4>1 DEF Received
    <3>5. QED
      BY <3>2, <3>3, <3>4
  <2>9. Received' = [n \in Node |-> IF n \in E THEN 0 ELSE Has(n)]
    BY <2>8 DEF Received
  <2>10. Deployed!Update(R, E, S)
    BY <2>1, <2>2, <2>6, <2>7, <2>9 DEF Deployed!Update
  <2>11. QED
    BY <2>2, <2>10 DEF Asleep, Deployed!Next
<1>3. QED
  BY <1>1, <1>2

LEMMA StepOfDeployment ==
  ASSUME TypeInv, BatchInv, VersionInv, [Next]_vars
  PROVE  [Deployed!Next]_Deployed!dvars
<1> USE DEF TypeInv, TypeOK, NodesTyped, GatewayTyped
<1>1. CASE UNCHANGED <<gversion, npc, version, installed, uploads, image, written>>
  BY <1>1 DEF Deployed!dvars, Deployed!firmware, Received
<1>2. CASE CheckUpdate
  <2>1. UNCHANGED <<npc, version, installed, uploads, image, written>>
    BY <1>2 DEF CheckUpdate, GatewayForgets, nodes
  <2>2. gversion' > gversion \/ gversion' = gversion
    BY <1>2 DEF CheckUpdate, Newer
  <2>3. QED
    BY <2>1, <2>2 DEF Deployed!Release, Deployed!Next, Deployed!dvars, Deployed!firmware, Received
<1>3. CASE Gateway
  BY <1>1, <1>2, <1>3, UpdateDeployed
     DEF Gateway, FindNetwork, FindNothing, Announce, SendSleep, Broadcast,
         Advertise, Connect, StopCollecting, GatewayWakes, GatewayBoots, GatewayForgets, nodes
<1>4. CASE GatewayRestarts \/ MoveNetwork \/ UNCHANGED vars
  BY <1>1, <1>4 DEF GatewayRestarts, GatewayBoots, GatewayForgets, MoveNetwork, vars, gateway,
                    nodes
<1>5. QED
  BY <1>3, <1>4, NodeStepDeployed DEF Next

\* For any number of nodes, releases and faults of all kinds the network does nothing that
\* Deployment does not allow: what a node comes to run it received whole, and it is newer
\* than what it ran (node.c:96-154, 230-336, gateway.c:256-282).
THEOREM DeploymentImplemented == Spec => DeploymentSpec
<1>1. Init => Deployed!Init
  BY DEF Init, Deployed!Init, Received, NoImage
<1>2. Init => BatchInv
  BY DEF Init, BatchInv, BatchUploadedOnce, BatchPending
<1>3. QED
  BY <1>1, <1>2, InitTyped, NextTyped, NextBatch, InitVersions, NextVersion, StepOfDeployment, PTL
     DEF Spec, DeploymentSpec, Deployed!Spec
=============================================================================
