-------------------------------- MODULE Board --------------------------------
(***************************************************************************)
(* One board from its start to deep sleep and on: the main tasks of           *)
(* spv_start_gateway and spv_start_node with the components they use          *)
(* (UlpBuffer, ServiceRegistry, StaConnect), the coprocessor, the Wi-Fi task  *)
(* and the event loop stepping in between.  What boards say to each other is  *)
(* in WakeCycle; here a session is one step.                                 *)
(***************************************************************************)
EXTENDS UlpBuffer, ServiceRegistry, StaConnect

CONSTANTS Roles,           \* the roles of the board that are considered
          GatewayReadings, \* readings that a gateway takes of a batch (gateway.c:178)
          NtpBoots,        \* starts without the time server (gateway.c:150)
          BootsMax,        \* where boots_since_ntp_sync stops counting (gateway.c:162)
          MaxResets        \* bound: resets other than the end of deep sleep

ASSUME BoardAssumption ==
  /\ Roles \subseteq {"node", "gateway"} /\ Roles # {}
  /\ {GatewayReadings, NtpBoots, BootsMax, MaxResets} \subseteq Nat
  /\ GatewayReadings < MinRuns
  /\ NtpBoots < BootsMax
  /\ {"gateway", "ota", "telemetry"} \subseteq Service

VARIABLES
  role,         \* config->role
  mpc,          \* where the main task is
  connectivity, \* of spv_start_gateway; of a node, whether its gateway takes telemetry
  boots,        \* boots_since_ntp_sync
  clock,        \* whether the clock has been set since it last lost its time
  dated,        \* history: whether it was when spv_ulp_start_time was taken
  resets        \* history: resets so far

boardVars == <<role, mpc, connectivity, boots, clock, dated, resets>>
vars == <<boardVars, ulpVars, registryVars, staVars>>

Init ==
  /\ UlpInit /\ RegistryInit /\ StaInit
  /\ role \in Roles /\ mpc = "boot" /\ connectivity = FALSE
  /\ boots = 0 /\ clock = FALSE /\ dated = FALSE /\ resets = 0

-----------------------------------------------------------------------------
(* Steps of the main task.  Each says what it does with its components.      *)

Goto(from, to) == mpc = from /\ mpc' = to /\ UNCHANGED <<role, resets>>

\* The start of either role: ulp_timer_stop, the modem, wmesh_init.
Boot ==
  /\ Goto("boot", IF role = "node" THEN "register" ELSE "scan")
  /\ UlpTimerStop
  /\ UNCHANGED <<connectivity, boots, clock, dated, registryVars, staVars>>

\* The configured network is there, or not.
Scan ==
  /\ \/ Goto("scan", "connect") /\ connectivity' = TRUE
     \/ Goto("scan", "clock") /\ connectivity' = FALSE
  /\ UNCHANGED <<boots, clock, dated, ulpVars, registryVars, staVars>>

Connecting ==
  /\ Goto("connect", "connect") /\ Caller
  /\ UNCHANGED <<connectivity, boots, clock, dated, ulpVars, registryVars>>

Connect ==
  /\ Goto("connect", "platform") /\ spc = "done"
  /\ connectivity' = (result = "ok")
  /\ UNCHANGED <<boots, clock, dated, ulpVars, registryVars, staVars>>

\* thingsboard_connect
Platform ==
  /\ Goto("platform", "clock")
  /\ connectivity' \in {connectivity, FALSE}
  /\ UNCHANGED <<boots, clock, dated, ulpVars, registryVars, staVars>>

\* A start that is not the end of a sleep, or many without the time server.
NeedsTime == cold \/ boots > NtpBoots

\* The time server answers, or too late: then the clock may still be set afterwards.
SetClock ==
  /\ Goto("clock", "telemetry")
  /\ connectivity /\ NeedsTime
  /\ \/ clock' = TRUE /\ UNCHANGED connectivity
     \/ clock' \in {clock, TRUE} /\ connectivity' = FALSE
  /\ UNCHANGED <<boots, dated, ulpVars, registryVars, staVars>>

KeepClock ==
  /\ Goto("clock", "telemetry")
  /\ ~(connectivity /\ NeedsTime)
  /\ boots' = IF boots < BootsMax THEN boots + 1 ELSE boots
  /\ UNCHANGED <<connectivity, clock, dated, ulpVars, registryVars, staVars>>

\* A node has found its gateway and set its clock by it; the gateway's clock may not
\* be right itself.
HearGateway ==
  /\ Goto("listen", "telemetry")
  /\ clock' \in BOOLEAN /\ connectivity' \in BOOLEAN
  /\ UNCHANGED <<boots, dated, ulpVars, registryVars, staVars>>

\* The batch: of all readings a node, of a fixed number a gateway.
SendsBatch == connectivity /\ ~cold

TakeBatch ==
  /\ Goto("telemetry", "telemetry") /\ SendsBatch
  /\ \E n \in IF role = "node" THEN MayCount ELSE {GatewayReadings} : TakeCount(n)
  /\ UNCHANGED <<connectivity, boots, clock, dated, registryVars, staVars>>

ReadBatch ==
  /\ Goto("telemetry", "telemetry")
  /\ LoadValue \/ SendChunk \/ FinishBatch
  /\ UNCHANGED <<connectivity, boots, clock, dated, registryVars, staVars>>

LeaveBatch ==
  /\ Goto("telemetry", "telemetry") /\ ~SendsBatch /\ SkipBatch
  /\ UNCHANGED <<connectivity, boots, clock, dated, registryVars, staVars>>

Telemetry ==
  /\ Goto("telemetry", IF role = "node" THEN "session" ELSE "register") /\ phase = "done"
  /\ UNCHANGED <<connectivity, boots, clock, dated, ulpVars, registryVars, staVars>>

\* What the role registers, in this order.
Services ==
  IF role = "node" THEN <<"gateway", "ota">>
  ELSE IF connectivity THEN <<"telemetry", "ota">> ELSE <<"ota">>

Register ==
  /\ Goto("register", "register")
  /\ \/ Len(cells) < Len(Services) /\ LinkCell(Services[Len(cells) + 1])
     \/ SetField
  /\ UNCHANGED <<connectivity, boots, clock, dated, ulpVars, staVars>>

RegisterDone ==
  /\ Goto("register", IF role = "node" THEN "listen" ELSE "session")
  /\ filled = 4 /\ Len(cells) = Len(Services)
  /\ UNCHANGED <<connectivity, boots, clock, dated, ulpVars, registryVars, staVars>>

\* The session ends: wmesh_stop, spv_ulp_start and the time of it.
EndSession ==
  /\ Goto("session", "update")
  /\ UlpStart /\ dated' = clock
  /\ UNCHANGED <<connectivity, boots, clock, registryVars, staVars>>

\* A gateway looks for a new firmware, then esp_deep_sleep.
Sleep ==
  /\ Goto("update", "asleep")
  /\ UNCHANGED <<connectivity, boots, clock, dated, ulpVars, registryVars, staVars>>

\* RAM is lost, RTC memory is kept.
Wake ==
  /\ Goto("asleep", "boot") /\ UlpBoot
  /\ connectivity' = FALSE
  /\ RegistryReset /\ StaReset
  /\ UNCHANGED <<boots, clock, dated>>

Main ==
  \/ Boot \/ Scan \/ Connecting \/ Connect \/ Platform \/ SetClock \/ KeepClock
  \/ HearGateway \/ TakeBatch \/ ReadBatch \/ LeaveBatch \/ Telemetry
  \/ Register \/ RegisterDone \/ EndSession \/ Sleep \/ Wake

-----------------------------------------------------------------------------
(* Everything else.                                                         *)

Ulp == Coprocessor /\ UNCHANGED <<boardVars, registryVars, staVars>>

Wifi == (EventLoop \/ Driver) /\ UNCHANGED <<boardVars, ulpVars, registryVars>>

\* A panic or a loss of power: RTC_DATA_ATTR variables are initialised again, and the
\* clock runs on only if the power was not lost.
Reset ==
  /\ resets < MaxResets /\ resets' = resets + 1
  /\ mpc' = "boot" /\ connectivity' = FALSE /\ boots' = 0 /\ dated' = FALSE
  /\ clock' \in {clock, FALSE}
  /\ UlpReset /\ RegistryReset /\ StaReset
  /\ UNCHANGED role

\* A frame for s comes while the list leads nowhere: the board panics.
FrameGoesAstray(s) == FindService(s)[1] = Wild /\ Reset

Next == Main \/ Ulp \/ Wifi \/ Reset \/ \E s \in Service : FrameGoesAstray(s)

Spec == Init /\ [][Next]_vars

\* The main task runs, the coprocessor's timer elapses, the event loop takes its
\* events, and the driver answers.
FairSpec ==
  /\ Spec
  /\ WF_vars(Main) /\ WF_vars(Ulp)
  /\ WF_vars(EventLoop /\ UNCHANGED <<boardVars, ulpVars, registryVars>>)
  /\ WF_vars(link = "joining" /\ Driver /\ UNCHANGED <<boardVars, ulpVars, registryVars>>)

-----------------------------------------------------------------------------
(* Properties.                                                              *)

\* Types of the board and its components; a batch is counted right at every start.
TypeOK ==
  /\ UlpTypeOK /\ RegistryTypeOK /\ StaTypeOK
  /\ role \in Roles
  /\ mpc \in {"boot", "scan", "connect", "platform", "clock", "listen", "telemetry",
              "register", "session", "update", "asleep"}
  /\ connectivity \in BOOLEAN /\ clock \in BOOLEAN /\ dated \in BOOLEAN
  /\ boots \in 0 .. BootsMax
  /\ resets \in 0 .. MaxResets

\* Every reading that a gateway uploads has a Unix timestamp (README.md:238).
ReadingsAreDated == role = "gateway" /\ messages # <<>> => dated

\* Wherever a gateway is, it goes to sleep again: the wait for the network has no timeout
\* (sta_connect.c:119), a new batch waits for the coprocessor.
GatewaySleeps == role = "gateway" ~> mpc = "asleep"
=============================================================================
