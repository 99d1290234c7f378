----------------------------- MODULE BoardProofs -----------------------------
(***************************************************************************)
(* The board implements its components: every step of the composition is a    *)
(* step of UlpBuffer or stutters there, and likewise for ServiceRegistry and  *)
(* StaConnect.  So what is proved of a component for any caller holds on the  *)
(* board.                                                                   *)
(***************************************************************************)
EXTENDS Board, UlpProofs, RegistryProofs, StaProofs

-----------------------------------------------------------------------------
(* The steps of the board, seen by each component.                           *)

LEMMA StepOfUlp ==
  ASSUME [Next]_vars
  PROVE  [UlpNext]_ulpVars
<1>1. CASE Main
  <2>1. CASE TakeBatch
    <3>1. GatewayReadings \in 0 .. MinRuns - 1
      BY BoardAssumption, UlpAssumption
    <3>2. PICK n \in MayCount \cup {GatewayReadings} : TakeCount(n)
      BY <2>1 DEF TakeBatch
    <3>3. QED
      BY <3>1, <3>2 DEF UlpNext
  <2>2. CASE Boot \/ ReadBatch \/ LeaveBatch \/ EndSession \/ Wake
    BY <2>2 DEF Boot, ReadBatch, LeaveBatch, EndSession, Wake, UlpNext
  <2>3. CASE \/ Scan \/ Connecting \/ Connect \/ Platform \/ SetClock \/ KeepClock
             \/ HearGateway \/ Telemetry \/ Register \/ RegisterDone \/ Sleep
    BY <2>3
       DEF Scan, Connecting, Connect, Platform, SetClock, KeepClock, HearGateway,
           Telemetry, Register, RegisterDone, Sleep
  <2>4. QED
    BY <1>1, <2>1, <2>2, <2>3 DEF Main
<1>2. CASE Ulp \/ Wifi
  BY <1>2 DEF Ulp, Wifi, UlpNext
<1>3. CASE Reset \/ \E s \in Service : FrameGoesAstray(s)
  BY <1>3 DEF Reset, FrameGoesAstray, UlpNext
<1>4. CASE UNCHANGED vars
  BY <1>4 DEF vars
<1>5. QED
  BY <1>1, <1>2, <1>3, <1>4 DEF Next

LEMMA StepOfRegistry ==
  ASSUME RegistryInv, [Next]_vars
  PROVE  [RegistryNext]_registryVars
<1>1. CASE Main
  <2>1. CASE Register
    <3>1. CASE Len(cells) < Len(Services) /\ LinkCell(Services[Len(cells) + 1])
      <4>1. Len(cells) \in Nat
        BY DEF RegistryInv, RegistryTypeOK
      <4>2. Services \in {<<"gateway", "ota">>, <<"telemetry", "ota">>, <<"ota">>}
        BY DEF Services
      <4>3. \A k \in 1 .. Len(Services) : Services[k] \in Service
        BY <4>2, BoardAssumption
      <4>4. Len(cells) + 1 \in 1 .. Len(Services)
        BY <3>1, <4>1, <4>2
      <4>5. QED
        BY <3>1, <4>3, <4>4 DEF RegistryNext
    <3>2. QED
      BY <2>1, <3>1 DEF Register, RegistryNext
  <2>2. CASE Wake
    BY <2>2 DEF Wake, RegistryNext
  <2>3. CASE \/ Boot \/ Scan \/ Connecting \/ Connect \/ Platform \/ SetClock
             \/ KeepClock \/ HearGateway \/ TakeBatch \/ ReadBatch \/ LeaveBatch
             \/ Telemetry \/ RegisterDone \/ EndSession \/ Sleep
    BY <2>3
       DEF Boot, Scan, Connecting, Connect, Platform, SetClock, KeepClock, HearGateway,
           TakeBatch, ReadBatch, LeaveBatch, Telemetry, RegisterDone, EndSession, Sleep
  <2>4. QED
    BY <1>1, <2>1, <2>2, <2>3 DEF Main
<1>2. CASE Ulp \/ Wifi
  BY <1>2 DEF Ulp, Wifi
<1>3. CASE Reset \/ \E s \in Service : FrameGoesAstray(s)
  BY <1>3 DEF Reset, FrameGoesAstray, RegistryNext
<1>4. CASE UNCHANGED vars
  BY <1>4 DEF vars
<1>5. QED
  BY <1>1, <1>2, <1>3, <1>4 DEF Next

LEMMA StepOfSta ==
  ASSUME [Next]_vars
  PROVE  [StaNext]_staVars
<1>1. CASE Main
  <2>1. CASE Connecting \/ Wake
    BY <2>1 DEF Connecting, Wake, StaNext
  <2>2. CASE \/ Boot \/ Scan \/ Connect \/ Platform \/ SetClock \/ KeepClock
             \/ HearGateway \/ TakeBatch \/ ReadBatch \/ LeaveBatch \/ Telemetry
             \/ Register \/ RegisterDone \/ EndSession \/ Sleep
    BY <2>2
       DEF Boot, Scan, Connect, Platform, SetClock, KeepClock, HearGateway, TakeBatch,
           ReadBatch, LeaveBatch, Telemetry, Register, RegisterDone, EndSession, Sleep
  <2>3. QED
    BY <1>1, <2>1, <2>2 DEF Main
<1>2. CASE Ulp \/ Wifi
  BY <1>2 DEF Ulp, Wifi, StaNext
<1>3. CASE Reset \/ \E s \in Service : FrameGoesAstray(s)
  BY <1>3 DEF Reset, FrameGoesAstray, StaNext
<1>4. CASE UNCHANGED vars
  BY <1>4 DEF vars
<1>5. QED
  BY <1>1, <1>2, <1>3, <1>4 DEF Next
-----------------------------------------------------------------------------
(* The components' invariants, and the variables of the board itself.        *)

BoardTyped ==
  /\ role \in Roles
  /\ mpc \in {"boot", "scan", "connect", "platform", "clock", "listen", "telemetry",
              "register", "session", "update", "asleep"}
  /\ connectivity \in BOOLEAN /\ clock \in BOOLEAN /\ dated \in BOOLEAN

BoardCounts == boots \in 0 .. BootsMax /\ resets \in 0 .. MaxResets

BoardInv ==
  /\ UlpInv /\ RegistryInv /\ StaInv
  /\ BoardTyped /\ BoardCounts

LEMMA BoardInitRight ==
  ASSUME Init
  PROVE  BoardInv
<1>1. UlpInv /\ RegistryInv /\ StaInv
  BY UlpInitRight, RegistryStartRight, StaInitRight DEF Init
<1>2. BoardTyped
  BY DEF Init, BoardTyped
<1>3. BoardCounts
  BY BoardAssumption DEF Init, BoardCounts
<1>4. QED
  BY <1>1, <1>2, <1>3 DEF BoardInv

LEMMA BoardTypedKept ==
  ASSUME BoardInv, [Next]_vars
  PROVE  BoardTyped' /\ BoardCounts'
<1> USE DEF BoardInv, BoardTyped
<1>1. BoardTyped'
  <2>1. CASE Main
    <3>1. CASE Boot \/ Scan \/ Connecting \/ Connect
      BY <3>1 DEF Boot, Scan, Connecting, Connect, Goto
    <3>2. CASE Platform \/ SetClock \/ KeepClock \/ HearGateway
      BY <3>2 DEF Platform, SetClock, KeepClock, HearGateway, Goto
    <3>3. CASE TakeBatch \/ ReadBatch \/ LeaveBatch \/ Telemetry
      BY <3>3 DEF TakeBatch, ReadBatch, LeaveBatch, Telemetry, Goto
    <3>4. CASE Register \/ RegisterDone \/ EndSession \/ Sleep \/ Wake
      BY <3>4 DEF Register, RegisterDone, EndSession, Sleep, Wake, Goto
    <3>5. QED
      BY <2>1, <3>1, <3>2, <3>3, <3>4 DEF Main
  <2>2. CASE Ulp \/ Wifi \/ UNCHANGED vars
    BY <2>2 DEF Ulp, Wifi, vars, boardVars
  <2>3. CASE Reset \/ \E s \in Service : FrameGoesAstray(s)
    BY <2>3 DEF Reset, FrameGoesAstray
  <2>4. QED
    BY <2>1, <2>2, <2>3 DEF Next
<1>2. BoardCounts'
  <2>1. \/ UNCHANGED <<boots, resets>>
        \/ /\ boots' = (IF boots < BootsMax THEN boots + 1 ELSE boots)
           /\ resets' = resets
        \/ boots' = 0 /\ resets < MaxResets /\ resets' = resets + 1
    <3>1. CASE Main
      BY <3>1
         DEF Main, Boot, Scan, Connecting, Connect, Platform, SetClock, KeepClock,
             HearGateway, TakeBatch, ReadBatch, LeaveBatch, Telemetry, Register,
             RegisterDone, EndSession, Sleep, Wake, Goto
    <3>2. CASE Ulp \/ Wifi \/ UNCHANGED vars
      BY <3>2 DEF Ulp, Wifi, vars, boardVars
    <3>3. CASE Reset \/ \E s \in Service : FrameGoesAstray(s)
      BY <3>3 DEF Reset, FrameGoesAstray
    <3>4. QED
      BY <3>1, <3>2, <3>3 DEF Next
  <2>2. QED
    BY <2>1, BoardAssumption DEF BoardCounts
<1>3. QED
  BY <1>1, <1>2

LEMMA BoardStepRight ==
  ASSUME BoardInv, [Next]_vars
  PROVE  BoardInv'
<1>1. UlpInv'
  BY StepOfUlp, UlpNextRight DEF BoardInv
<1>2. RegistryInv'
  BY StepOfRegistry, RegistryStepRight DEF BoardInv
<1>3. StaInv'
  BY StepOfSta, StaStepRight DEF BoardInv
<1>4. QED
  BY <1>1, <1>2, <1>3, BoardTypedKept DEF BoardInv

LEMMA BoardInvariant == Spec => []BoardInv
BY BoardInitRight, BoardStepRight, PTL DEF Spec

-----------------------------------------------------------------------------

\* The board drives the coprocessor and reads its buffers as UlpBuffer allows: what is
\* proved of the buffers holds on the board (node.c:61-154, gateway.c:58-281).
THEOREM BoardUsesBuffers == Spec => UlpSpec
<1>1. Init => UlpInit
  BY DEF Init
<1>2. QED
  BY <1>1, StepOfUlp, PTL DEF Spec, UlpSpec

\* So the messages of a board of either role are those that Sampling promises.
THEOREM BoardSamples == Spec => SamplingSpec
BY BoardUsesBuffers, SamplingImplemented

\* It registers services as ServiceRegistry allows.
THEOREM BoardUsesRegistry == Spec => RegistrySpec
<1>1. Init => RegistryInit
  BY DEF Init
<1>2. BoardInv => RegistryInv
  BY DEF BoardInv
<1>3. QED
  BY <1>1, <1>2, StepOfRegistry, BoardInvariant, PTL DEF Spec, RegistrySpec

\* It connects to the network as StaConnect allows.
THEOREM BoardConnects == Spec => StaSpec
<1>1. Init => StaInit
  BY DEF Init
<1>2. QED
  BY <1>1, StepOfSta, PTL DEF Spec, StaSpec

\* The variables of a board and its components keep their types.
THEOREM BoardTypeCorrect == Spec => []TypeOK
<1>1. BoardInv => TypeOK
  <2>1. RegistryInv => RegistryTypeOK
    BY DEF RegistryInv
  <2>2. QED
    BY <2>1, UlpTyped, StaInvImplies DEF BoardInv, BoardTyped, BoardCounts, TypeOK
<1>2. QED
  BY <1>1, BoardInvariant, PTL
=============================================================================
