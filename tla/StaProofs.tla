------------------------------ MODULE StaProofs ------------------------------
(***************************************************************************)
(* Proofs about StaConnect: for every number of retries, whatever the driver  *)
(* answers and whenever the calling task is preempted, the handlers of a      *)
(* connection do not outlive its event group, the result says what happened,  *)
(* and the wait without a timeout is for something that is on its way.        *)
(***************************************************************************)
EXTENDS StaConnect, TLAPS

\* Before esp_wifi_connect is called.
StaEarly == {"idle", "register_wifi", "register_ip", "configure", "start", "connect"}

\* The handlers that are registered, by the place of the caller.
StaHandlersRight ==
  /\ spc \in {"idle", "register_wifi", "delete", "done"} => handlers = {}
  /\ spc \in {"register_ip", "unregister_wifi"} => handlers = {"wifi"}
  /\ spc \in {"configure", "start", "connect", "wait", "unregister_ip"}
       => handlers = {"wifi", "ip"}
  /\ spc \notin {"idle", "done"} => group

\* Nothing has happened before the connection is asked for.
StaEarlyQuiet ==
  spc \in StaEarly =>
    /\ link = "idle" /\ events = <<>> /\ bits = {}
    /\ failures = 0 /\ ~leased /\ result = "none"

\* What the queue holds follows from the state of the driver: a request is made only
\* when the answer to the one before has been taken.
StaQueueRight ==
  \/ link = "joining" /\ events = <<>>
  \/ link = "joined" /\ events \in {<<>>, <<"got_ip">>}
  \/ /\ link = "idle"
     /\ events \in {<<>>, <<"disconnected">>, <<"got_ip", "disconnected">>}

\* The attempts: those made and those left add up, until none is left and all is over.
StaAttemptsRight ==
  /\ "fail" \in bits =>
       Retries > 0 /\ failures = Retries + 1 /\ link = "idle" /\ events = <<>>
  /\ "fail" \notin bits /\ spc \notin {"idle", "done"} =>
       \/ Retries = 0 /\ retry_num < 0
       \/ Retries > 0 /\ retry_num >= 0 /\ failures + retry_num = Retries

StaResultRight ==
  /\ leased <=> "connected" \in bits
  /\ spc = "wait" => result = "none"
  /\ result = "ok" => "connected" \in bits
  /\ result = "not_assoc" => "fail" \in bits /\ "connected" \notin bits

\* StaTypeOK, but for the queue, which StaQueueRight describes.
StaPlacesTyped ==
  /\ spc \in {"idle", "register_wifi", "register_ip", "configure", "start", "connect",
              "wait", "unregister_ip", "unregister_wifi", "delete", "done"}
  /\ result \in {"none", "ok", "not_assoc", "error"}
  /\ link \in {"idle", "joining", "joined"}

StaNumbersTyped ==
  /\ retry_num \in Int /\ retry_num <= Retries
  /\ failures \in Nat

StaFlagsTyped ==
  /\ group \in BOOLEAN /\ leased \in BOOLEAN
  /\ bits \subseteq {"connected", "fail"}
  /\ handlers \subseteq {"wifi", "ip"}

StaTyped == StaPlacesTyped /\ StaNumbersTyped /\ StaFlagsTyped

StaInv ==
  /\ StaTyped /\ StaHandlersRight /\ StaEarlyQuiet /\ StaQueueRight
  /\ StaAttemptsRight /\ StaResultRight /\ AnswerIsComing

\* The four queues that occur.
LEMMA StaQueuesTyped ==
  ASSUME NEW q,
         q \in {<<>>, <<"disconnected">>, <<"got_ip">>, <<"got_ip", "disconnected">>}
  PROVE  q \in Seq({"disconnected", "got_ip"})
<1> DEFINE S == {"disconnected", "got_ip"}
<1>1. "disconnected" \in S /\ "got_ip" \in S
  OBVIOUS
<1> HIDE DEF S
<1>2. <<>> \in Seq(S)
  OBVIOUS
<1>3. <<"disconnected">> \in Seq(S) /\ <<"got_ip">> \in Seq(S)
  BY <1>1
<1>4. <<"got_ip", "disconnected">> \in Seq(S)
  BY <1>1
<1>5. q \in Seq(S)
  BY <1>2, <1>3, <1>4
<1>6. QED
  BY <1>5 DEF S

LEMMA StaQueueGrows ==
  /\ Append(<<>>, "disconnected") = <<"disconnected">>
  /\ Append(<<>>, "got_ip") = <<"got_ip">>
  /\ Append(<<"got_ip">>, "disconnected") = <<"got_ip", "disconnected">>
<1> DEFINE Two == [i \in 1 .. 2 |-> IF i = 1 THEN "got_ip" ELSE "disconnected"]
<1>1. Append(<<>>, "disconnected") = <<"disconnected">>
  OBVIOUS
<1>2. Append(<<>>, "got_ip") = <<"got_ip">>
  OBVIOUS
<1>3. Append(<<"got_ip">>, "disconnected") = <<"got_ip", "disconnected">>
  <2>1. <<"got_ip">> \in Seq({"got_ip", "disconnected"}) /\ Len(<<"got_ip">>) = 1
    OBVIOUS
  <2>2. Append(<<"got_ip">>, "disconnected") = Two
    BY <2>1
  <2>3. <<"got_ip", "disconnected">> = Two
    OBVIOUS
  <2>4. QED
    BY <2>2, <2>3
<1>4. QED
  BY <1>1, <1>2, <1>3

LEMMA StaQueueShrinks ==
  /\ <<"disconnected">> # <<>> /\ <<"got_ip">> # <<>>
  /\ Head(<<"disconnected">>) = "disconnected" /\ Tail(<<"disconnected">>) = <<>>
  /\ Head(<<"got_ip">>) = "got_ip" /\ Tail(<<"got_ip">>) = <<>>
  /\ Head(<<"got_ip", "disconnected">>) = "got_ip"
  /\ Tail(<<"got_ip", "disconnected">>) = <<"disconnected">>
<1>1. Head(<<"disconnected">>) = "disconnected" /\ Tail(<<"disconnected">>) = <<>>
  OBVIOUS
<1>2. Head(<<"got_ip">>) = "got_ip" /\ Tail(<<"got_ip">>) = <<>>
  OBVIOUS
<1>3. Head(<<"got_ip", "disconnected">>) = "got_ip"
  OBVIOUS
<1>4. Tail(<<"got_ip", "disconnected">>) = <<"disconnected">>
  OBVIOUS
<1>5. QED
  BY <1>1, <1>2, <1>3, <1>4

LEMMA StaInitRight ==
  ASSUME StaInit
  PROVE  StaInv
<1>1. StaTyped
  <2>1. StaPlacesTyped
    BY DEF StaInit, StaPlacesTyped
  <2>2. StaNumbersTyped
    BY StaAssumption DEF StaInit, StaNumbersTyped
  <2>3. StaFlagsTyped
    BY DEF StaInit, StaFlagsTyped
  <2>4. QED
    BY <2>1, <2>2, <2>3 DEF StaTyped
<1>2. StaHandlersRight /\ StaEarlyQuiet /\ StaQueueRight /\ StaAttemptsRight
  BY DEF StaInit, StaHandlersRight, StaEarlyQuiet, StaQueueRight, StaAttemptsRight
<1>3. StaResultRight /\ AnswerIsComing
  BY DEF StaInit, StaResultRight, AnswerIsComing
<1>4. QED
  BY <1>1, <1>2, <1>3 DEF StaInv

LEMMA StaResetRight ==
  ASSUME StaReset
  PROVE  StaInv'
<1>1. StaTyped'
  <2>1. StaPlacesTyped'
    BY DEF StaReset, StaPlacesTyped
  <2>2. StaNumbersTyped'
    BY StaAssumption DEF StaReset, StaNumbersTyped
  <2>3. StaFlagsTyped'
    BY DEF StaReset, StaFlagsTyped
  <2>4. QED
    BY <2>1, <2>2, <2>3 DEF StaTyped
<1>2. StaHandlersRight' /\ StaEarlyQuiet' /\ StaQueueRight' /\ StaAttemptsRight'
  BY DEF StaReset, StaHandlersRight, StaEarlyQuiet, StaQueueRight, StaAttemptsRight
<1>3. StaResultRight' /\ AnswerIsComing'
  BY DEF StaReset, StaResultRight, AnswerIsComing
<1>4. QED
  BY <1>1, <1>2, <1>3 DEF StaInv

-----------------------------------------------------------------------------
(* The driver and the event loop.                                           *)

\* Taking an event of a queue that looks as it should.
LEMMA StaQueueTail ==
  ASSUME StaQueueRight, events # <<>>
  PROVE  \/ /\ Head(events) = "got_ip" /\ link = "joined" /\ Tail(events) = <<>>
         \/ /\ Head(events) = "got_ip" /\ link = "idle"
            /\ Tail(events) = <<"disconnected">>
         \/ /\ Head(events) = "disconnected" /\ link = "idle" /\ Tail(events) = <<>>
BY StaQueueShrinks DEF StaQueueRight

LEMMA StaDriverRight ==
  ASSUME StaInv, Driver
  PROVE  StaInv'
<1> USE DEF StaInv, caller
<1>1. \/ link' = "joined" /\ events' = <<"got_ip">> /\ link = "joining"
      \/ /\ link' = "idle"
         /\ events' \in {<<"disconnected">>, <<"got_ip", "disconnected">>}
         /\ link \in {"joining", "joined"}
  BY StaQueueGrows DEF Driver, Disconnect, Associate, StaQueueRight
<1>2. UNCHANGED <<caller, retry_num, bits, failures, leased>>
  BY DEF Driver, Disconnect, Associate
<1>3. spc \notin StaEarly /\ "fail" \notin bits
  BY <1>1 DEF StaEarlyQuiet, StaAttemptsRight
<1>4. StaQueueRight'
  BY <1>1 DEF StaQueueRight
<1>5. StaTyped'
  BY <1>1, <1>2, StaQueuesTyped DEF StaTyped, StaPlacesTyped, StaNumbersTyped,
     StaFlagsTyped
<1>6. StaHandlersRight' /\ StaEarlyQuiet'
  BY <1>2, <1>3 DEF StaHandlersRight, StaEarlyQuiet
<1>7. StaAttemptsRight' /\ StaResultRight'
  BY <1>2, <1>3 DEF StaAttemptsRight, StaResultRight
<1>8. AnswerIsComing'
  BY <1>1 DEF AnswerIsComing
<1>9. QED
  BY <1>4, <1>5, <1>6, <1>7, <1>8

LEMMA StaDisconnectedRight ==
  ASSUME StaInv, HandleDisconnected
  PROVE  StaInv'
<1> USE StaAssumption DEF StaInv, caller
<1>1. /\ events # <<>> /\ Head(events) = "disconnected" /\ "wifi" \in handlers
      /\ failures' = failures + 1 /\ UNCHANGED <<caller, leased>>
  BY DEF HandleDisconnected
<1>2. link = "idle" /\ events' = <<>>
  BY <1>1, StaQueueTail DEF HandleDisconnected
<1>3. /\ "fail" \notin bits /\ spc \notin StaEarly \cup {"delete", "done"}
      /\ \/ Retries = 0 /\ retry_num < 0
         \/ Retries > 0 /\ retry_num >= 0 /\ failures + retry_num = Retries
  BY <1>1 DEF StaAttemptsRight, StaEarlyQuiet, StaHandlersRight, StaTyped,
     StaPlacesTyped, StaNumbersTyped, StaFlagsTyped, StaEarly
<1>4. \/ /\ retry_num = 0 /\ Retries > 0 /\ failures' = Retries + 1
         /\ bits' = bits \cup {"fail"} /\ retry_num' = retry_num /\ link' = "idle"
      \/ /\ retry_num # 0 /\ retry_num' = retry_num - 1 /\ link' = "joining"
         /\ bits' = bits
  BY <1>1, <1>2, <1>3 DEF HandleDisconnected, OneLessTry, GiveUp, Connected, StaTyped,
     StaPlacesTyped, StaNumbersTyped, StaFlagsTyped
<1>5. StaTyped'
  <2>1. retry_num' \in Int /\ retry_num' <= Retries /\ failures' \in Nat
    BY <1>1, <1>4 DEF StaTyped, StaPlacesTyped, StaNumbersTyped, StaFlagsTyped
  <2>2. events' \in Seq({"disconnected", "got_ip"})
    BY <1>2, StaQueuesTyped
  <2>3. bits' \subseteq {"connected", "fail"} /\ link' \in {"idle", "joining", "joined"}
    BY <1>4 DEF StaTyped, StaPlacesTyped, StaNumbersTyped, StaFlagsTyped
  <2>4. QED
    BY <1>1, <2>1, <2>2, <2>3 DEF StaTyped, StaPlacesTyped, StaNumbersTyped,
       StaFlagsTyped
<1>6. StaHandlersRight' /\ StaEarlyQuiet' /\ StaQueueRight'
  BY <1>1, <1>2, <1>3, <1>4 DEF StaHandlersRight, StaEarlyQuiet, StaQueueRight
<1>7. StaAttemptsRight'
  BY <1>1, <1>2, <1>3, <1>4 DEF StaAttemptsRight, StaTyped, StaPlacesTyped,
     StaNumbersTyped, StaFlagsTyped
<1>8. StaResultRight'
  BY <1>1, <1>3, <1>4 DEF StaResultRight
<1>9. AnswerIsComing'
  BY <1>4 DEF AnswerIsComing
<1>10. QED
  BY <1>5, <1>6, <1>7, <1>8, <1>9

LEMMA StaGotIpRight ==
  ASSUME StaInv, HandleGotIp
  PROVE  StaInv'
<1> USE DEF StaInv, caller
<1>1. /\ events # <<>> /\ Head(events) = "got_ip" /\ events' = Tail(events)
      /\ bits' = bits \cup {"connected"} /\ leased' = TRUE
      /\ UNCHANGED <<caller, retry_num, link, failures>>
  BY DEF HandleGotIp
<1>2. "fail" \notin bits /\ spc \notin StaEarly
  BY <1>1 DEF StaAttemptsRight, StaEarlyQuiet
<1>3. /\ events' \in {<<>>, <<"disconnected">>} /\ StaQueueRight'
  BY <1>1, StaQueueTail DEF StaQueueRight
<1>4. StaTyped'
  BY <1>1, <1>3 DEF StaTyped, StaPlacesTyped, StaNumbersTyped, StaFlagsTyped
<1>5. StaHandlersRight' /\ StaEarlyQuiet'
  BY <1>1, <1>2 DEF StaHandlersRight, StaEarlyQuiet
<1>6. StaAttemptsRight' /\ StaResultRight' /\ AnswerIsComing'
  BY <1>1, <1>2 DEF StaAttemptsRight, StaResultRight, AnswerIsComing
<1>7. QED
  BY <1>3, <1>4, <1>5, <1>6

\* An event that is not handled.  While the caller waits, all are.
LEMMA StaUnhandledRight ==
  ASSUME StaInv, DropEvent \/ SkipEvent
  PROVE  StaInv'
<1> USE DEF StaInv, caller
<1>1. /\ events # <<>> /\ events' = Tail(events) /\ spc # "wait"
      /\ UNCHANGED <<caller, retry_num, bits, link, failures, leased>>
  BY DEF DropEvent, SkipEvent, StaHandlersRight
<1>2. "fail" \notin bits /\ spc \notin StaEarly
  BY <1>1 DEF StaAttemptsRight, StaEarlyQuiet
<1>3. /\ events' \in {<<>>, <<"disconnected">>} /\ StaQueueRight'
  BY <1>1, StaQueueTail DEF StaQueueRight
<1>4. StaTyped'
  BY <1>1, <1>3 DEF StaTyped, StaPlacesTyped, StaNumbersTyped, StaFlagsTyped
<1>5. StaHandlersRight' /\ StaEarlyQuiet'
  BY <1>1, <1>2 DEF StaHandlersRight, StaEarlyQuiet
<1>6. StaAttemptsRight' /\ StaResultRight' /\ AnswerIsComing'
  BY <1>1, <1>2 DEF StaAttemptsRight, StaResultRight, AnswerIsComing
<1>7. QED
  BY <1>3, <1>4, <1>5, <1>6

-----------------------------------------------------------------------------
(* The caller.                                                              *)

LEMMA StaCallerRight ==
  ASSUME StaInv, Caller
  PROVE  StaInv'
<1> USE StaAssumption DEF StaInv, driver, Keep, StaEarly
<1>1. CASE RefuseOptions
  <2>1. StaTyped'
    BY <1>1 DEF RefuseOptions, StaTyped, StaPlacesTyped, StaNumbersTyped,
       StaFlagsTyped
  <2>2. StaHandlersRight' /\ StaEarlyQuiet' /\ StaQueueRight'
    BY <1>1 DEF RefuseOptions, StaHandlersRight, StaEarlyQuiet, StaQueueRight
  <2>3. StaAttemptsRight' /\ StaResultRight' /\ AnswerIsComing'
    BY <1>1 DEF RefuseOptions, StaAttemptsRight, StaResultRight, AnswerIsComing,
       StaEarlyQuiet, StaTyped, StaFlagsTyped
  <2>4. QED
    BY <2>1, <2>2, <2>3
<1>2. CASE BeginConnect
  <2>1. /\ retry_num' \in Int /\ failures' = 0
        /\ \/ Retries = 0 /\ retry_num' = -1
           \/ Retries > 0 /\ retry_num' = Retries
    BY <1>2 DEF BeginConnect
  <2>2. StaTyped'
    <3>1. StaPlacesTyped' /\ StaFlagsTyped'
      BY <1>2 DEF BeginConnect, StaTyped, StaPlacesTyped, StaFlagsTyped
    <3>2. StaNumbersTyped'
      BY <2>1 DEF StaNumbersTyped
    <3>3. QED
      BY <3>1, <3>2 DEF StaTyped
  <2>3. StaAttemptsRight'
    BY <1>2, <2>1 DEF BeginConnect, StaAttemptsRight
  <2>4. StaHandlersRight' /\ StaEarlyQuiet' /\ StaQueueRight'
    BY <1>2 DEF BeginConnect, StaHandlersRight, StaEarlyQuiet, StaQueueRight
  <2>5. StaResultRight' /\ AnswerIsComing'
    BY <1>2 DEF BeginConnect, StaResultRight, StaEarlyQuiet, AnswerIsComing
  <2>6. QED
    BY <2>2, <2>3, <2>4, <2>5
<1>3. CASE \/ SetUp("register_wifi", "register_ip", {"wifi"})
           \/ SetUp("register_ip", "configure", {"ip"})
           \/ SetUp("configure", "start", {}) \/ SetUp("start", "connect", {})
  <2>1. StaTyped'
    BY <1>3 DEF SetUp, StaTyped, StaPlacesTyped, StaNumbersTyped,
       StaFlagsTyped
  <2>2. StaHandlersRight' /\ StaEarlyQuiet' /\ StaQueueRight'
    BY <1>3 DEF SetUp, StaHandlersRight, StaEarlyQuiet, StaQueueRight
  <2>3. StaAttemptsRight' /\ StaResultRight' /\ AnswerIsComing'
    BY <1>3 DEF SetUp, StaAttemptsRight, StaResultRight, AnswerIsComing,
       StaEarlyQuiet, StaTyped, StaFlagsTyped
  <2>4. QED
    BY <2>1, <2>2, <2>3
<1>4. CASE \/ SetUpFails("register_wifi", "delete")
           \/ SetUpFails("register_ip", "unregister_wifi")
           \/ SetUpFails("configure", "unregister_ip")
           \/ SetUpFails("start", "unregister_ip")
  <2>1. StaTyped'
    BY <1>4 DEF SetUpFails, StaTyped, StaPlacesTyped, StaNumbersTyped,
       StaFlagsTyped
  <2>2. StaHandlersRight' /\ StaEarlyQuiet' /\ StaQueueRight'
    BY <1>4 DEF SetUpFails, StaHandlersRight, StaEarlyQuiet, StaQueueRight
  <2>3. StaAttemptsRight' /\ StaResultRight' /\ AnswerIsComing'
    BY <1>4 DEF SetUpFails, StaAttemptsRight, StaResultRight, AnswerIsComing,
       StaEarlyQuiet, StaTyped, StaFlagsTyped
  <2>4. QED
    BY <2>1, <2>2, <2>3
<1>5. CASE RequestConnection
  <2>1. StaTyped'
    BY <1>5 DEF RequestConnection, Connected, StaTyped, StaPlacesTyped, StaNumbersTyped,
       StaFlagsTyped
  <2>2. StaHandlersRight' /\ StaEarlyQuiet' /\ StaQueueRight'
    BY <1>5 DEF RequestConnection, Connected, StaHandlersRight, StaEarlyQuiet,
       StaQueueRight
  <2>3. StaAttemptsRight' /\ StaResultRight' /\ AnswerIsComing'
    BY <1>5 DEF RequestConnection, Connected, StaAttemptsRight, StaResultRight,
       AnswerIsComing,
       StaEarlyQuiet, StaTyped, StaFlagsTyped
  <2>4. QED
    BY <2>1, <2>2, <2>3
<1>6. CASE WaitEnds
  <2>1. StaTyped'
    BY <1>6 DEF WaitEnds, Awaited, Verdict, StaTyped, StaPlacesTyped, StaNumbersTyped,
       StaFlagsTyped
  <2>2. StaHandlersRight' /\ StaEarlyQuiet' /\ StaQueueRight'
    BY <1>6 DEF WaitEnds, Awaited, Verdict, StaHandlersRight, StaEarlyQuiet, StaQueueRight
  <2>3. StaAttemptsRight' /\ StaResultRight' /\ AnswerIsComing'
    BY <1>6 DEF WaitEnds, Awaited, Verdict, StaAttemptsRight, StaResultRight, AnswerIsComing,
       StaEarlyQuiet, StaTyped, StaFlagsTyped
  <2>4. QED
    BY <2>1, <2>2, <2>3
<1>7. CASE \/ Unregister("unregister_ip", AfterUnregister(result), "ip")
           \/ Unregister("unregister_wifi", "delete", "wifi")
  <2>1. StaTyped'
    BY <1>7 DEF Unregister, AfterUnregister, StaTyped, StaPlacesTyped, StaNumbersTyped,
       StaFlagsTyped
  <2>2. StaHandlersRight' /\ StaEarlyQuiet' /\ StaQueueRight'
    BY <1>7 DEF Unregister, AfterUnregister, StaHandlersRight, StaEarlyQuiet,
       StaQueueRight
  <2>3. StaAttemptsRight' /\ StaResultRight' /\ AnswerIsComing'
    BY <1>7 DEF Unregister, AfterUnregister, StaAttemptsRight, StaResultRight,
       AnswerIsComing,
       StaEarlyQuiet, StaTyped, StaFlagsTyped
  <2>4. QED
    BY <2>1, <2>2, <2>3
<1>8. CASE DeleteGroup
  <2>1. StaTyped'
    BY <1>8 DEF DeleteGroup, StaTyped, StaPlacesTyped, StaNumbersTyped,
       StaFlagsTyped
  <2>2. StaHandlersRight' /\ StaEarlyQuiet' /\ StaQueueRight'
    BY <1>8 DEF DeleteGroup, StaHandlersRight, StaEarlyQuiet, StaQueueRight
  <2>3. StaAttemptsRight' /\ StaResultRight' /\ AnswerIsComing'
    BY <1>8 DEF DeleteGroup, StaAttemptsRight, StaResultRight, AnswerIsComing,
       StaEarlyQuiet, StaTyped, StaFlagsTyped
  <2>4. QED
    BY <2>1, <2>2, <2>3
<1>9. QED
  BY <1>1, <1>2, <1>3, <1>4, <1>5, <1>6, <1>7, <1>8 DEF Caller

LEMMA StaStepRight ==
  ASSUME StaInv, [StaNext]_staVars
  PROVE  StaInv'
<1>1. CASE StaNext
  BY <1>1, StaCallerRight, StaDriverRight, StaResetRight, StaDisconnectedRight,
     StaGotIpRight, StaUnhandledRight DEF StaNext, EventLoop
<1>2. CASE UNCHANGED staVars
  BY <1>2 DEF staVars, StaInv, StaTyped, StaPlacesTyped, StaNumbersTyped,
     StaFlagsTyped, StaHandlersRight, StaEarlyQuiet, StaQueueRight,
     StaAttemptsRight, StaResultRight, AnswerIsComing
<1>3. QED
  BY <1>1, <1>2

LEMMA StaInvImplies ==
  StaInv => StaTypeOK /\ HandlersHaveGroup /\ VerdictRight /\ AnswerIsComing
<1> SUFFICES ASSUME StaInv PROVE StaTypeOK /\ HandlersHaveGroup /\ VerdictRight /\ AnswerIsComing
  OBVIOUS
<1>1. events \in Seq({"disconnected", "got_ip"})
  BY StaQueuesTyped DEF StaInv, StaQueueRight
<1>2. StaTypeOK
  BY <1>1 DEF StaInv, StaTyped, StaPlacesTyped, StaNumbersTyped, StaFlagsTyped,
     StaTypeOK
<1>3. HandlersHaveGroup
  BY DEF StaInv, HandlersHaveGroup, StaHandlersRight
<1>4. VerdictRight
  BY DEF StaInv, VerdictRight, StaResultRight, StaAttemptsRight
<1>5. QED
  BY <1>2, <1>3, <1>4 DEF StaInv

\* The variables of the connection keep their types, and the attempts left never exceed
\* those that options->retries asked for.
THEOREM StaTypeCorrect == StaSpec => []StaTypeOK
BY StaInitRight, StaStepRight, StaInvImplies, PTL DEF StaSpec

\* sta_connect_handler never runs without its event group, and is not left registered.
THEOREM HandlersHaveGroupCorrect == StaSpec => []HandlersHaveGroup
BY StaInitRight, StaStepRight, StaInvImplies, PTL DEF StaSpec

\* The result of spv_wifi_start_sta_connect is true.
THEOREM VerdictRightCorrect == StaSpec => []VerdictRight
BY StaInitRight, StaStepRight, StaInvImplies, PTL DEF StaSpec

\* xEventGroupWaitBits waits for something that is on its way.
THEOREM AnswerIsComingCorrect == StaSpec => []AnswerIsComing
BY StaInitRight, StaStepRight, StaInvImplies, PTL DEF StaSpec
=============================================================================
