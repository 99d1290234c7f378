----------------------------- MODULE StaConnect -----------------------------
(***************************************************************************)
(* spv_wifi_start_sta_connect (sta_connect.c): the calling task registers a  *)
(* handler, asks the driver for a connection and waits for the bits that the *)
(* handler sets on the task of the event loop.                               *)
(*                                                                          *)
(* The driver answers a request with a disconnection or with an association  *)
(* and an address, and may lose a connection at any time.  Its events are    *)
(* queued.  WIFI_EVENT_STA_START is not among them: the modem has been       *)
(* started long before (gateway.c:73).                                       *)
(***************************************************************************)
EXTENDS Integers, Sequences

CONSTANTS Retries,      \* options->retries
          DriverErrors  \* whether calls into the driver may fail

ASSUME StaAssumption == Retries \in 0 .. 255 /\ DriverErrors \in BOOLEAN

VARIABLES
  spc,       \* where the caller is
  retry_num, \* wifi_retry_num
  group,     \* whether wifi_event_group exists
  bits,      \* its bits
  handlers,  \* the events sta_connect_handler is registered for
  result,    \* what the call returns
  link,      \* the driver: idle, joining, or joined to a network
  events,    \* the queue of the event loop
  failures,  \* history: disconnections that the handler has seen in this call
  leased     \* history: an address was got in this call

caller == <<spc, group, handlers, result>>
driver == <<link, events>>
staVars == <<spc, retry_num, group, bits, handlers, result, link, events, failures, leased>>

StaInit ==
  /\ spc = "idle" /\ retry_num = 0 /\ group = FALSE /\ bits = {} /\ handlers = {}
  /\ result = "none" /\ link = "idle" /\ events = <<>>
  /\ failures = 0 /\ leased = FALSE

-----------------------------------------------------------------------------
(* The driver.                                                              *)

\* esp_wifi_connect: no effect on a connection that exists or is being made.
Connected(l) == IF l = "idle" THEN "joining" ELSE l

\* A request fails, or a connection is lost.
Disconnect ==
  /\ link \in {"joining", "joined"}
  /\ link' = "idle" /\ events' = Append(events, "disconnected")
  /\ UNCHANGED <<caller, retry_num, bits, failures, leased>>

\* A request succeeds, and the access point hands out an address.
Associate ==
  /\ link = "joining"
  /\ link' = "joined" /\ events' = Append(events, "got_ip")
  /\ UNCHANGED <<caller, retry_num, bits, failures, leased>>

-----------------------------------------------------------------------------
(* sta_connect_handler.                                                     *)

\* An event nobody is registered for any more.
DropEvent ==
  /\ events # <<>> /\ handlers = {}
  /\ events' = Tail(events)
  /\ UNCHANGED <<caller, retry_num, bits, link, failures, leased>>

OneLessTry(n) == n - 1

\* Mutant of GiveUp: nobody is told.
GiveUpSilently(b) == b

GiveUp(b) == b \cup {"fail"}

\* WIFI_EVENT_STA_DISCONNECTED
HandleDisconnected ==
  /\ events # <<>> /\ Head(events) = "disconnected" /\ "wifi" \in handlers
  /\ IF retry_num = 0
     THEN bits' = GiveUp(bits) /\ UNCHANGED <<retry_num, link>>
     ELSE link' = Connected(link) /\ retry_num' = OneLessTry(retry_num) /\ UNCHANGED bits
  /\ failures' = failures + 1
  /\ events' = Tail(events)
  /\ UNCHANGED <<caller, leased>>

\* IP_EVENT_STA_GOT_IP
HandleGotIp ==
  /\ events # <<>> /\ Head(events) = "got_ip" /\ "ip" \in handlers
  /\ bits' = bits \cup {"connected"}
  /\ leased' = TRUE
  /\ events' = Tail(events)
  /\ UNCHANGED <<caller, retry_num, link, failures>>

\* An event of the kind whose handler is unregistered already.
SkipEvent ==
  /\ events # <<>> /\ handlers # {}
  /\ (IF Head(events) = "got_ip" THEN "ip" ELSE "wifi") \notin handlers
  /\ events' = Tail(events)
  /\ UNCHANGED <<caller, retry_num, bits, link, failures, leased>>

-----------------------------------------------------------------------------
(* The caller.                                                              *)

Keep == UNCHANGED <<driver, failures, leased, retry_num, bits>>

\* Names that are too long, or no memory for the event group.
RefuseOptions ==
  /\ spc = "idle" /\ DriverErrors
  /\ spc' = "done" /\ result' = "error"
  /\ UNCHANGED <<group, handlers>> /\ Keep

BeginConnect ==
  /\ spc = "idle"
  /\ retry_num' = IF Retries = 0 THEN -1 ELSE Retries
  /\ group' = TRUE /\ bits' = {}
  /\ failures' = 0 /\ leased' = FALSE
  /\ spc' = "register_wifi"
  /\ UNCHANGED <<handlers, result, driver>>

\* A step of the set-up succeeds; what registers a handler adds it.
SetUp(at, to, added) ==
  /\ spc = at /\ spc' = to
  /\ handlers' = handlers \cup added
  /\ UNCHANGED <<group, result>> /\ Keep

\* It fails, and the function undoes the registrations made so far.
SetUpFails(at, to) ==
  /\ DriverErrors
  /\ spc = at /\ spc' = to /\ result' = "error"
  /\ UNCHANGED <<group, handlers>> /\ Keep

\* esp_wifi_connect, whose own result is ignored.
RequestConnection ==
  /\ spc = "connect" /\ spc' = "wait"
  /\ link' = Connected(link)
  /\ UNCHANGED <<group, handlers, result, events, retry_num, bits, failures, leased>>

\* Mutant of Verdict: the failure bit is looked at first.
VerdictFailFirst(b) == IF "fail" \in b THEN "not_assoc" ELSE "ok"

Verdict(b) == IF "connected" \in b THEN "ok" ELSE "not_assoc"

\* Mutant of Awaited: all bits are waited for.
AwaitedAll(b) == b = {"connected", "fail"}

Awaited(b) == b # {}

\* xEventGroupWaitBits returns the bits of that moment.
WaitEnds ==
  /\ spc = "wait" /\ Awaited(bits)
  /\ spc' = "unregister_ip" /\ result' = Verdict(bits)
  /\ UNCHANGED <<group, handlers>> /\ Keep

\* esp_event_handler_instance_unregister waits for a handler that is running.
Unregister(at, to, kind) ==
  /\ spc = at /\ spc' = to
  /\ handlers' = handlers \ {kind}
  /\ UNCHANGED <<group, result>> /\ Keep

\* Mutant of AfterUnregister: the error path forgets one of the two handlers.
AfterUnregisterOne(r) == IF r = "error" THEN "done" ELSE "unregister_wifi"

AfterUnregister(r) == "unregister_wifi"

\* The group is deleted, but not on the error paths.
DeleteGroup ==
  /\ spc = "delete" /\ spc' = "done"
  /\ group' = (result = "error")
  /\ UNCHANGED <<handlers, result>> /\ Keep

Caller ==
  \/ RefuseOptions \/ BeginConnect
  \/ SetUp("register_wifi", "register_ip", {"wifi"}) \/ SetUpFails("register_wifi", "delete")
  \/ SetUp("register_ip", "configure", {"ip"}) \/ SetUpFails("register_ip", "unregister_wifi")
  \/ SetUp("configure", "start", {}) \/ SetUpFails("configure", "unregister_ip")
  \/ SetUp("start", "connect", {}) \/ SetUpFails("start", "unregister_ip")
  \/ RequestConnection \/ WaitEnds
  \/ Unregister("unregister_ip", AfterUnregister(result), "ip")
  \/ Unregister("unregister_wifi", "delete", "wifi")
  \/ DeleteGroup

EventLoop == DropEvent \/ HandleDisconnected \/ HandleGotIp \/ SkipEvent

Driver == Disconnect \/ Associate

\* The board starts again.
StaReset ==
  /\ spc' = "idle" /\ retry_num' = 0 /\ group' = FALSE /\ bits' = {} /\ handlers' = {}
  /\ result' = "none" /\ link' = "idle" /\ events' = <<>>
  /\ failures' = 0 /\ leased' = FALSE

StaNext == Caller \/ EventLoop \/ Driver \/ StaReset

StaSpec == StaInit /\ [][StaNext]_staVars

-----------------------------------------------------------------------------
(* Properties.                                                              *)

\* Types; the attempts left are never more than were asked for.
StaTypeOK ==
  /\ spc \in {"idle", "register_wifi", "register_ip", "configure", "start", "connect",
              "wait", "unregister_ip", "unregister_wifi", "delete", "done"}
  /\ retry_num \in Int /\ retry_num <= Retries
  /\ group \in BOOLEAN /\ leased \in BOOLEAN
  /\ bits \subseteq {"connected", "fail"}
  /\ handlers \subseteq {"wifi", "ip"}
  /\ result \in {"none", "ok", "not_assoc", "error"}
  /\ link \in {"idle", "joining", "joined"}
  /\ events \in Seq({"disconnected", "got_ip"})
  /\ failures \in Nat

\* The handler runs only while its event group exists, and is not left registered,
\* however the call ends (sta_connect.c:87-113, 127-134).
HandlersHaveGroup ==
  /\ handlers # {} => group
  /\ spc \in {"idle", "done"} => handlers = {}

\* ESP_OK means that an address was got, ESP_ERR_WIFI_NOT_ASSOC that none was and that
\* the first attempt and all the retries have failed; with 0 retries the call never
\* gives up (wifi.h:77-79, 92-97).
VerdictRight ==
  /\ result = "ok" => leased
  /\ result = "not_assoc" => ~leased /\ Retries > 0 /\ failures = Retries + 1

\* While the caller waits for a bit, which it does without a timeout, either a request
\* is being answered or an event is on its way (sta_connect.c:119-125).
AnswerIsComing ==
  spc = "wait" /\ bits = {} => link = "joining" \/ events # <<>>
=============================================================================
