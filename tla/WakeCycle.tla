------------------------------ MODULE WakeCycle ------------------------------
(***************************************************************************)
(* The duty cycle of the network: spv_start_gateway on the gateway,         *)
(* spv_start_node and its two callbacks on every node, the radio channel    *)
(* each board listens on, deep sleep and restarts.                          *)
(*                                                                          *)
(* A frame is handled as soon as it is sent, by the awake boards on its     *)
(* channel that hear it: callbacks run on the Wi-Fi task, which preempts    *)
(* the main task, so a frame falls between any two steps of a node's main   *)
(* task.  Of an update's data only what is left of it in a node is kept     *)
(* (OtaTransfer has the frames), a batch of readings is one frame.          *)
(***************************************************************************)
EXTENDS Naturals

CONSTANTS Node,
          Channel,      \* radio channels
          Advertisements, \* how often the gateway advertises itself (gateway.c:220)
          MaxVersion,   \* bound: firmware versions the gateway may download
          Faults,       \* the kinds of fault that happen
          MaxFaults     \* bound: how many happen in a run

FrameType == {"channel", "advertisement", "request", "telemetry", "begin", "end", "sleep"}

\* A frame of some type is lost, a board restarts, the Wi-Fi network moves, the
\* gateway cannot connect, chunks are lost or not written or an image not committed, a
\* node's main task needs more than the 20 s that the gateway waits for its telemetry.
FaultType == FrameType \cup {"node_restart", "gateway_restart", "network", "connect",
                            "chunk", "late"}

NoNetwork == 0
NoImage == 0

ASSUME CycleAssumption ==
  /\ Channel \subseteq Nat \ {NoNetwork} /\ 1 \in Channel
  /\ Advertisements \in Nat \ {0}
  /\ {MaxVersion, MaxFaults} \subseteq Nat
  /\ Faults \subseteq FaultType

VARIABLES
  network,        \* channel of the configured Wi-Fi network, or NoNetwork
  gpc,            \* where the gateway's main task is
  gchannel,       \* channel of the gateway's radio
  connectivity,   \* gateway_status.connectivity
  advertised,     \* advertisements sent since the gateway woke
  gota,           \* gateway_status.ota_requested
  gversion,       \* the gateway's firmware version
  npc,            \* where the main task of each node is
  state,          \* node_status.state
  channel,        \* channel of the node's radio
  cold,           \* esp_reset_reason() != ESP_RST_DEEPSLEEP
  ota_requested,  \* node_status.ota_requested
  version,        \* the version of the firmware that runs on the node
  installed,      \* the version that it boots next
  image,          \* the release in the open node_status.ota_handle, or NoImage
  written,        \* what it has of that release by node_status.ota_next_chunk: "none" (no
                  \* chunk), a "part", the "whole"; "spoilt" if it counts others' chunks
  uploads,        \* history: times its batch of readings reached the platform
  interrupted,    \* history: the gateway has interrupted, or given a node up, and a main
                  \* task may still be busy with the session that it was in
  parted,         \* history: a node in its update missed the end of it or a restart of
                  \* the gateway, or one awake on its channel a move of the network
  faults          \* history: faults so far

gateway == <<gpc, gchannel, connectivity, advertised, gota, gversion>>
nodes == <<npc, state, channel, cold, ota_requested, version, installed, image, written,
           uploads>>
vars == <<network, gateway, nodes, interrupted, parted, faults>>

Init ==
  /\ network \in Channel \cup {NoNetwork}
  /\ gpc = "starting" /\ gchannel = 1 /\ connectivity = FALSE
  /\ advertised = 0 /\ gota = FALSE /\ gversion = 0
  /\ npc = [n \in Node |-> "poll"]
  /\ state = [n \in Node |-> "wait_channel"]
  /\ channel = [n \in Node |-> 1]
  /\ cold = [n \in Node |-> TRUE]
  /\ ota_requested = [n \in Node |-> FALSE]
  /\ version = [n \in Node |-> 0] /\ installed = [n \in Node |-> 0]
  /\ image = [n \in Node |-> NoImage]
  /\ written = [n \in Node |-> "none"]
  /\ uploads = [n \in Node |-> 0]
  /\ interrupted = FALSE /\ parted = FALSE /\ faults = 0

-----------------------------------------------------------------------------
(* The air.                                                                 *)

\* The nodes that hear a broadcast on channel c unless it is lost.
Listening(c) == {n \in Node : npc[n] # "asleep" /\ channel[n] = c}

\* Some of those who should get a frame of this type, H of L, get it.
Reach(type, H, L) == H \subseteq L /\ (H # L => type \in Faults)
Cost(missed) == IF missed = {} THEN 0 ELSE 1

Count(k) == faults + k <= MaxFaults /\ faults' = faults + k

\* Somebody reconfigures the access point while the gateway sleeps.
MoveNetwork ==
  /\ "network" \in Faults /\ Count(1)
  /\ gpc = "asleep"
  /\ network' \in (Channel \cup {NoNetwork}) \ {network}
  /\ parted' = (parted \/ \E n \in Node : npc[n] # "asleep" /\ state[n] # "wait_channel")
  /\ UNCHANGED <<gateway, nodes, interrupted>>

-----------------------------------------------------------------------------
(* The gateway.                                                             *)

\* GATEWAY_TYPE_CHANNEL: the gateway calls on channel 1, the nodes in H follow.
Announce(c, H) ==
  LET Moving == {n \in H : state[n] = "wait_channel"}
  IN /\ Reach("channel", H, Listening(1)) /\ Count(Cost(Listening(1) \ H))
     /\ state' = [n \in Node |-> IF n \in Moving THEN "wait_gateway" ELSE state[n]]
     /\ channel' = [n \in Node |-> IF n \in Moving THEN c ELSE channel[n]]
     /\ UNCHANGED <<gchannel, connectivity, advertised, gota, gversion, npc, cold,
                    ota_requested, version, installed, image, written, uploads, network,
                    interrupted, parted>>

FindNetwork(H) ==
  /\ gpc = "starting" /\ network # NoNetwork
  /\ Announce(network, H)
  /\ gpc' = "connecting"

FindNothing(H) ==
  /\ gpc = "starting" /\ network = NoNetwork
  /\ Announce(1, H)
  /\ gpc' = "advertising"

\* Wi-Fi, the platform and the time server; a failed association may leave the
\* radio on either channel.
Connect ==
  /\ gpc = "connecting"
  /\ \/ connectivity' = TRUE /\ gchannel' = network /\ Count(0)
     \/ /\ "connect" \in Faults /\ Count(1)
        /\ connectivity' = FALSE /\ gchannel' \in {1, network}
  /\ gpc' = "advertising"
  /\ UNCHANGED <<advertised, gota, gversion, nodes, network, interrupted, parted>>

\* Mutant of AfterTelemetry: the request for an update is forgotten.
AfterTelemetryAlways(n) == "wait_sleep"

AfterTelemetry(n) == IF ota_requested[n] THEN "wait_ota_or_sleep" ELSE "wait_sleep"

\* Mutant of AllAdvertised: the loop counts to "<=".
AllAdvertisedLate(k) == k > Advertisements

AllAdvertised(k) == k = Advertisements

\* GATEWAY_TYPE_ADVERTISEMENT.  The nodes with an older firmware ask for the update,
\* and the gateway hears those in R.
Advertise(H, R) ==
  LET Found == {n \in H : state[n] = "wait_gateway"}
      Older == {n \in Found : gversion > version[n]}
  IN /\ gpc = "advertising"
     /\ Reach("advertisement", H, Listening(gchannel))
     /\ Reach("request", R, Older)
     /\ Count(Cost(Listening(gchannel) \ H) + Cost(Older \ R))
     /\ ota_requested' = [n \in Node |-> ota_requested[n] \/ n \in Older]
     /\ state' = [n \in Node |->
                   IF n \notin Found THEN state[n]
                   ELSE IF connectivity THEN "send_telemetry"
                   ELSE IF n \in Older THEN "wait_ota_or_sleep" ELSE "wait_sleep"]
     /\ gota' = (gota \/ R # {})
     /\ advertised' = advertised + 1
     /\ gpc' = IF AllAdvertised(advertised') THEN "collecting" ELSE "advertising"
     /\ UNCHANGED <<gchannel, connectivity, gversion, npc, channel, cold, version, installed,
                    image, written, uploads, network, interrupted, parted>>

\* A node whose main task has yet to act on an advertisement.
Busy(n) ==
  /\ npc[n] \notin {"wait", "asleep"}
  /\ state[n] \notin {"wait_channel", "wait_gateway"}

\* Mutant of StopCollecting: without the wait.
StopCollectingAtOnce ==
  /\ gpc = "collecting"
  /\ gpc' = IF gota THEN "begin" ELSE "closing"
  /\ UNCHANGED <<gchannel, connectivity, advertised, gota, gversion, nodes, network,
                 interrupted, parted, faults>>

\* No telemetry came for 20 s.
StopCollecting ==
  LET Late == {n \in Node : Busy(n)}
  IN /\ gpc = "collecting"
     /\ (Late # {} => "late" \in Faults) /\ Count(Cost(Late))
     /\ gpc' = IF gota THEN "begin" ELSE "closing"
     /\ interrupted' = (interrupted \/ Late # {})
     /\ UNCHANGED <<gchannel, connectivity, advertised, gota, gversion, nodes, network, parted>>

\* A broadcast of the given type, handled by H.
Broadcast(type, H) ==
  /\ Reach(type, H, Listening(gchannel)) /\ Count(Cost(Listening(gchannel) \ H))
  /\ UNCHANGED <<gchannel, connectivity, advertised, gota, gversion, npc, channel, cold,
                 ota_requested, version, uploads, network, interrupted, parted>>

\* The handle is closed or replaced; ota_next_chunk stays.
Spoil(w) == IF w = "none" THEN "none" ELSE "spoilt"

\* OTA_TYPE_BEGIN.  The partition that does not run is erased, also when it is the one to
\* boot next: the bootloader falls back to the firmware that runs now.
OtaBegin(H) ==
  LET Starting == {n \in H : ota_requested[n] /\ state[n] = "wait_ota_or_sleep"}
  IN /\ gpc = "begin" /\ Broadcast("begin", H)
     /\ state' = [n \in Node |-> IF n \in Starting THEN "ota" ELSE state[n]]
     /\ image' = [n \in Node |-> IF n \notin Starting THEN image[n]
                                 ELSE IF written[n] = "none" THEN gversion ELSE NoImage]
     /\ written' = [n \in Node |-> IF n \in Starting THEN Spoil(written[n]) ELSE written[n]]
     /\ installed' = [n \in Node |-> IF n \in Starting THEN version[n] ELSE installed[n]]
     /\ gpc' = "updating"

\* A node in its update while the gateway sends chunks.
Receiving(n) == gpc = "updating" /\ n \in Listening(gchannel) /\ state[n] = "ota"

\* OTA_TYPE_DATA.  A node that is still at the first chunk of an older release takes
\* those of the new one, with the size of the old.
ChunksArrive(n) ==
  /\ Receiving(n)
  /\ \E w \in {"part", "whole", "spoilt"} :
       /\ \/ written[n] = "none" /\ (w = "spoilt" => image[n] # gversion)
          \/ written[n] = "part" /\ image[n] = gversion /\ w = "whole"
       /\ written' = [written EXCEPT ![n] = w]
       /\ image' = [image EXCEPT ![n] = IF w = "spoilt" THEN NoImage ELSE gversion]
  /\ UNCHANGED <<gateway, npc, state, channel, cold, ota_requested, version, installed, uploads,
                 network, interrupted, parted, faults>>

\* OTA_TYPE_DATA that cannot be written.
ChunkFails(n) ==
  /\ "chunk" \in Faults /\ Count(1)
  /\ Receiving(n) /\ ~(written[n] = "whole" /\ image[n] = gversion)
  /\ state' = [state EXCEPT ![n] = "wait_sleep"]
  /\ image' = [image EXCEPT ![n] = NoImage]
  /\ written' = [written EXCEPT ![n] = Spoil(@)]
  /\ UNCHANGED <<gateway, npc, channel, cold, ota_requested, version, installed, uploads,
                 network, interrupted, parted>>

\* Mutant of AfterEnd: a node whose image is not whole stays in the update.
AfterEndIfWhole(failed) == IF failed THEN "ota" ELSE "wait_sleep"

AfterEnd(failed) == "wait_sleep"

\* Mutant of Complete: the last BEGIN, not the chunks, says what is in flash.
CompleteIfBegun(n) == written[n] # "spoilt"

\* What n has once all chunks are sent is a whole release: an older one too, its chunks
\* below ota_next_chunk are ignored.
Complete(n) == written[n] = "whole" \/ (written[n] # "spoilt" /\ image[n] = gversion)

\* The rest of the chunks and OTA_TYPE_END.  The nodes in Failed miss a chunk or fail to
\* commit; those with a whole release boot it next.
OtaEnd(H, Failed) ==
  LET Updating == {n \in Listening(gchannel) : state[n] = "ota"}
      Whole == {n \in Updating \ Failed : Complete(n)}
      Ended == Updating \cap H
  IN /\ gpc = "updating"
     /\ Reach("end", H, Listening(gchannel))
     /\ Failed \subseteq Updating /\ (Failed # {} => "chunk" \in Faults)
     /\ Count(Cost(Listening(gchannel) \ H) + Cost(Failed))
     /\ state' = [n \in Node |-> IF n \in Ended THEN AfterEnd(n \notin Whole) ELSE state[n]]
     /\ installed' = [n \in Node |-> IF n \in Ended \cap Whole THEN image[n] ELSE installed[n]]
     /\ image' = [n \in Node |-> IF n \in Ended THEN NoImage ELSE image[n]]
     /\ written' = [n \in Node |-> IF n \in Whole THEN (IF n \in H THEN "spoilt" ELSE "whole")
                                   ELSE IF n \in Ended THEN Spoil(written[n]) ELSE written[n]]
     /\ gpc' = "closing"
     /\ parted' = (parted \/ Ended # Updating)
     /\ UNCHANGED <<gchannel, connectivity, advertised, gota, gversion, npc, channel, cold,
                    ota_requested, version, uploads, network, interrupted>>

\* Mutant of AcceptsSleep: the state of a node that asked for an update is left out.
AcceptsSleepOnlyIdle(n) == state[n] = "wait_sleep"

AcceptsSleep(n) == state[n] \in {"wait_sleep", "wait_ota_or_sleep"}

\* GATEWAY_TYPE_SLEEP, sent once, and the end of the session (wmesh_stop).
SendSleep(H) ==
  /\ gpc = "closing" /\ Broadcast("sleep", H)
  /\ state' = [n \in Node |-> IF n \in H /\ AcceptsSleep(n) THEN "sleep" ELSE state[n]]
  /\ gpc' = "stopped"
  /\ UNCHANGED <<installed, image, written>>

\* Mutant of Newer: any other firmware is taken.
NewerIfOther(v) == v # gversion

Newer(v) == v > gversion

\* RAM is lost, the radio starts on channel 1.
GatewayForgets ==
  /\ gchannel' = 1 /\ connectivity' = FALSE /\ advertised' = 0 /\ gota' = FALSE
  /\ UNCHANGED <<nodes, network>>

\* The platform offers firmware v; it runs from the next wake-up on.
CheckUpdate ==
  /\ gpc = "stopped"
  /\ \/ \E v \in 0 .. MaxVersion : connectivity /\ Newer(v) /\ gversion' = v
     \/ UNCHANGED gversion
  /\ gpc' = "asleep" /\ GatewayForgets
  /\ UNCHANGED <<faults, interrupted, parted>>

GatewayBoots == gpc' = "starting" /\ GatewayForgets /\ UNCHANGED gversion

GatewayWakes ==
  /\ gpc = "asleep" /\ GatewayBoots
  /\ interrupted' = (\E n \in Node : Busy(n))
  /\ UNCHANGED <<parted, faults>>

GatewayRestarts ==
  /\ "gateway_restart" \in Faults /\ Count(1)
  /\ GatewayBoots /\ interrupted' = TRUE
  /\ parted' = (parted \/ \E n \in Node : state[n] = "ota")

-----------------------------------------------------------------------------
(* A node.                                                                  *)

\* RAM is lost, also in deep sleep, and the firmware installed runs from then on.
NodeForgets(n, reset) ==
  /\ channel' = [channel EXCEPT ![n] = 1]
  /\ cold' = [cold EXCEPT ![n] = reset]
  /\ ota_requested' = [ota_requested EXCEPT ![n] = FALSE]
  /\ image' = [image EXCEPT ![n] = NoImage]
  /\ written' = [written EXCEPT ![n] = "none"]
  /\ version' = [version EXCEPT ![n] = installed[n]]
  /\ UNCHANGED <<installed, gateway, network, interrupted, parted>>

NodeBoots(n) ==
  /\ npc' = [npc EXCEPT ![n] = "poll"]
  /\ state' = [state EXCEPT ![n] = "wait_channel"]
  /\ UNCHANGED uploads

NodeWakes(n) ==
  /\ npc[n] = "asleep"
  /\ NodeBoots(n) /\ NodeForgets(n, FALSE)
  /\ UNCHANGED faults

NodeRestarts(n) ==
  /\ "node_restart" \in Faults /\ Count(1)
  /\ NodeBoots(n) /\ NodeForgets(n, TRUE)

\* A step of the node's main task.
Goto(n, to) ==
  /\ npc' = [npc EXCEPT ![n] = to]
  /\ UNCHANGED <<channel, cold, ota_requested, version, installed, image, written, gateway,
                 network, interrupted, parted>>

\* The loop of lines 96-98 ends...
LeavePoll(n) ==
  /\ npc[n] = "poll" /\ state[n] \notin {"wait_channel", "wait_gateway"}
  /\ Goto(n, "decide")
  /\ UNCHANGED <<state, uploads, faults>>

\* Mutant of FromSleep: the reset reason is not looked at.
FromSleepAlways(n) == TRUE

FromSleep(n) == ~cold[n]

\* ... and callbacks may run before line 100 sets the state.
SkipTelemetry(n) ==
  /\ npc[n] = "decide" /\ ~FromSleep(n)
  /\ state' = [state EXCEPT ![n] = AfterTelemetry(n)]
  /\ Goto(n, "wait")
  /\ UNCHANGED <<uploads, faults>>

StartTelemetry(n) ==
  /\ npc[n] = "decide" /\ FromSleep(n)
  /\ Goto(n, IF state[n] = "send_telemetry" THEN "send" ELSE "wait")
  /\ UNCHANGED <<state, uploads, faults>>

\* telemetry_cb runs only if its service is registered.
TelemetryServed(n) ==
  /\ channel[n] = gchannel /\ connectivity
  /\ gpc \in {"advertising", "collecting", "begin", "updating", "closing"}

\* telemetry_cb uploads every batch that it is handed.
Upload(n) == uploads' = [uploads EXCEPT ![n] = @ + 1]

SendTelemetry(n) ==
  /\ npc[n] = "send"
  /\ LET L == {k \in {n} : TelemetryServed(k)}
     IN \E R \in SUBSET L :
          /\ Reach("telemetry", R, L) /\ Count(Cost(L \ R))
          /\ IF n \in R THEN Upload(n) ELSE UNCHANGED uploads
  /\ Goto(n, "sent")
  /\ UNCHANGED state

FinishTelemetry(n) ==
  /\ npc[n] = "sent"
  /\ state' = [state EXCEPT ![n] = AfterTelemetry(n)]
  /\ Goto(n, "wait")
  /\ UNCHANGED <<uploads, faults>>

\* The ULP starts a new batch.
GoToSleep(n) ==
  /\ npc[n] = "wait" /\ state[n] = "sleep"
  /\ npc' = [npc EXCEPT ![n] = "asleep"] /\ NodeForgets(n, FALSE)
  /\ uploads' = [uploads EXCEPT ![n] = 0]
  /\ UNCHANGED <<state, faults>>

-----------------------------------------------------------------------------
Gateway ==
  \/ \E H \in SUBSET Node : FindNetwork(H) \/ FindNothing(H) \/ OtaBegin(H) \/ SendSleep(H)
  \/ \E H, R \in SUBSET Node : Advertise(H, R) \/ OtaEnd(H, R)
  \/ Connect \/ StopCollecting \/ CheckUpdate \/ GatewayWakes

Main(n) ==
  \/ NodeWakes(n) \/ LeavePoll(n) \/ SkipTelemetry(n) \/ StartTelemetry(n)
  \/ SendTelemetry(n) \/ FinishTelemetry(n) \/ GoToSleep(n)

Next ==
  \/ Gateway \/ GatewayRestarts \/ MoveNetwork
  \/ \E n \in Node : Main(n) \/ NodeRestarts(n) \/ ChunksArrive(n) \/ ChunkFails(n)

Spec == Init /\ [][Next]_vars

\* The main tasks keep running.
FairSpec == Spec /\ WF_vars(Gateway) /\ \A n \in Node : WF_vars(Main(n))

-----------------------------------------------------------------------------
(* Properties.                                                              *)

GatewayTyped ==
  /\ gpc \in {"starting", "connecting", "advertising", "collecting", "begin", "updating",
              "closing", "stopped", "asleep"}
  /\ gchannel \in Channel
  /\ connectivity \in BOOLEAN /\ gota \in BOOLEAN
  /\ advertised \in 0 .. Advertisements
  /\ gversion \in 0 .. MaxVersion

NodesTyped ==
  /\ npc \in [Node -> {"poll", "decide", "send", "sent", "wait", "asleep"}]
  /\ state \in [Node -> {"wait_channel", "wait_gateway", "send_telemetry",
                         "wait_ota_or_sleep", "ota", "wait_sleep", "sleep"}]
  /\ channel \in [Node -> Channel]
  /\ cold \in [Node -> BOOLEAN] /\ ota_requested \in [Node -> BOOLEAN]
  /\ version \in [Node -> 0 .. MaxVersion] /\ installed \in [Node -> 0 .. MaxVersion]
  /\ image \in [Node -> 0 .. MaxVersion]
  /\ written \in [Node -> {"none", "part", "whole", "spoilt"}]
  /\ uploads \in [Node -> Nat]

\* The variables stay in their types; the radios are on real channels and the
\* advertisements are counted right, also when the network vanishes.
TypeOK ==
  /\ network \in Channel \cup {NoNetwork}
  /\ GatewayTyped
  /\ NodesTyped
  /\ interrupted \in BOOLEAN /\ parted \in BOOLEAN /\ faults \in 0 .. MaxFaults

\* The readings of a sleep period are uploaded at most once, also when the node or
\* the gateway restarts in between (node.c:96-139).
BatchUploadedOnce == \A n \in Node : uploads[n] <= 1

\* A node never goes back to an older firmware and is never ahead of its gateway,
\* whatever versions the platform offers (gateway.c:261, node.c:195-199, 235-241).
NoDowngrade ==
  [][\A n \in Node : version[n] <= version'[n] /\ version'[n] <= gversion']_vars

\* The network implements the promise of Deployment, whatever faults happen: a batch is
\* handed over once at most, by a node that is awake, and a node comes to run nothing but
\* a release that it received whole since it woke, from a gateway that had it, and that
\* is newer than its own (node.c:96-154, 230-336, gateway.c:256-282, 396-429).
Received == [n \in Node |-> IF written[n] = "whole" THEN image[n] ELSE NoImage]
Deployed == INSTANCE Deployment
  WITH release <- gversion, received <- Received,
       asleep <- {n \in Node : npc[n] = "asleep"}, uploaded <- uploads
DeploymentSpec == Deployed!Spec

\* A node that sends its readings does so while its gateway serves telemetry on its
\* channel, in the session of the advertisement it heard (gateway.c:216, 233-239),
\* unless the gateway restarted or gave a node up in a session not yet over.
TelemetryIsHeard ==
  [][\A n \in Node :
       npc[n] = "send" /\ npc'[n] = "sent" => TelemetryServed(n) \/ interrupted]_vars

\* As long as nothing is lost, fails, moves or restarts, a session leaves nobody behind
\* (README.md:214-220): when the gateway stops, every node sleeps or has woken too late
\* for the session and waits for the next.
NobodyLeftBehind ==
  faults = 0 /\ gpc \in {"stopped", "asleep"} =>
    \A n \in Node : state[n] \in {"wait_channel", "sleep"}

\* As long as nothing goes wrong, no node is sent to sleep without the firmware of its
\* gateway to boot next, whichever of its callbacks and its main task came first
\* (gateway.c:235-249, 328, node.c:96-139, 195-208).
SleepsUpToDate ==
  [][\A n \in Node :
       faults' = 0 /\ state[n] # "sleep" /\ state'[n] = "sleep" => installed'[n] = gversion]_vars

\* The channel that the gateway calls its nodes to.
Home == IF network = NoNetwork THEN 1 ELSE network

\* The two states that a node does not leave by itself: in an update whose end it has
\* missed (node.c:213), and on a channel that its gateway has left (node.c:164).
Stranded(n) == state[n] = "ota" \/ (state[n] # "wait_channel" /\ channel[n] # Home)

\* Nothing else strands a node: unless one in its update missed the end of it or its
\* gateway interrupted, or the access point moved while one was awake on its channel, none
\* is stranded between updates, whatever frames are lost, chunks and connections fail and
\* boards restart (node.c:164, 213, 322-334).
NoneStranded ==
  ~parted /\ gpc # "updating" => \A n \in Node : npc[n] # "asleep" => ~Stranded(n)

\* Every node that is awake goes to sleep again (README.md:214-220), whatever its
\* gateway, the network and the other nodes do.
AwakeNodeSleeps == \A n \in Node : npc[n] # "asleep" ~> npc[n] = "asleep"

\* No other fault keeps a node awake: whatever is lost, late, fails, moves or restarts, it
\* sleeps again and again (README.md:214-220) or is at last stranded in one of those two.
SleepsUnlessStranded ==
  \A n \in Node : []<>(npc[n] = "asleep") \/ <>[]Stranded(n)

\* Every release of the gateway reaches, or is overtaken by a newer one that reaches, every
\* node that is not at last stranded (node.c:195-199, gateway.c:243-249).
FirmwareSpreads ==
  \A n \in Node : []<>(version[n] = gversion) \/ <>[]Stranded(n)
=============================================================================
