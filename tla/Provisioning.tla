---------------------------- MODULE Provisioning ----------------------------
(***************************************************************************)
(* How a board gets its configuration and its role: app_main, the           *)
(* provisioning service, the web server's handler of the form, and the      *)
(* configuration in flash (NVS).                                            *)
(*                                                                          *)
(* Two tasks run: the main task, and the server's, which handles one        *)
(* request at a time and finishes it before httpd_stop returns.             *)
(***************************************************************************)
EXTENDS FormParser

CONSTANTS Form,         \* the forms that users submit
          Garbage,      \* what a symbol of malloc'd memory may be
          MaxRequests,  \* bound: requests in a run
          MaxPieces,    \* bound: the pieces a body arrives in
          Faults,       \* which of "receive", "set", "commit", "read", "power" happen
          MaxFaults     \* bound: how many of them, each once

ASSUME ProvisioningAssumption ==
  /\ MaxRequests \in Nat /\ MaxFaults \in Nat /\ MaxPieces \in Nat \ {0}
  /\ Faults \subseteq {"receive", "set", "commit", "read", "power"}

\* The page sends one field at least, and its inputs hold one line each.
ASSUME FormAssumption ==
  /\ \A f \in Form :
       /\ DOMAIN f \subseteq Tag /\ DOMAIN f # {}
       /\ \A t \in DOMAIN f :
            /\ f[t] \in Seq(STRING)
            /\ \A i \in DOMAIN f[t] : f[t][i] \notin {"nl", "nul"}
  /\ Garbage \subseteq STRING

NoConfig == [role |-> "unprovisioned"]
Role == {"node", "gateway"}

VARIABLES
  main,       \* where the main task is; "node", "gateway": it runs that role
  nvs,        \* the configuration in flash
  staged,     \* set and not yet committed, or NoConfig
  server,     \* where the server's task is in webserver_update_handler
  form,       \* the form of the request that is handled
  buffer,     \* the memory that its body is read to
  remaining,  \* remaining_bytes of webserver_request_read
  posted,     \* WEBSERVER_POST_EVENT is set
  requests,   \* history: requests so far
  pieces,     \* history: pieces read of the current request
  faults,     \* history: the faults so far
  acked       \* history: a request was answered with the page that says ok

request == <<server, form, buffer, remaining, pieces>>
store == <<nvs, staged>>
history == <<requests, acked>>
vars == <<main, store, request, posted, history, faults>>

NoForm == <<>>

Init ==
  /\ main = "boot" /\ nvs = NoConfig /\ staged = NoConfig
  /\ server = "idle" /\ form = NoForm /\ buffer = <<>> /\ remaining = 0
  /\ posted = FALSE
  /\ requests = 0 /\ pieces = 0 /\ faults = {}
  /\ acked = FALSE

Fault(kind) ==
  /\ kind \in Faults \ faults /\ Cardinality(faults) < MaxFaults
  /\ faults' = faults \cup {kind}

-----------------------------------------------------------------------------
(* The main task.                                                           *)

\* app_main: its role, or provisioning if no configuration can be read.
Boot ==
  /\ main = "boot"
  /\ \/ /\ nvs = NoConfig /\ main' = "waiting" /\ UNCHANGED faults
     \/ /\ nvs # NoConfig /\ UNCHANGED faults
        /\ main' = IF nvs.role \in Role THEN nvs.role ELSE "aborted"
     \/ Fault("read") /\ main' = "waiting"
  /\ UNCHANGED <<store, request, posted, history>>

\* spv_provisioning_start waits for the event, then 5 s.
EndWait ==
  /\ main = "waiting" /\ posted
  /\ main' = "closing"
  /\ UNCHANGED <<store, request, posted, history, faults>>

\* The RAM after a restart.
Reset ==
  /\ main' = "boot"
  /\ server' = "idle" /\ form' = NoForm /\ buffer' = <<>> /\ remaining' = 0 /\ pieces' = 0
  /\ posted' = FALSE
  /\ staged' = NoConfig
  /\ UNCHANGED history

\* webserver_stop and esp_restart.
StopAndRestart ==
  /\ main = "closing" /\ server = "idle"
  /\ Reset
  /\ UNCHANGED <<nvs, faults>>

\* What is set and not committed may be in flash or not.
LosePower ==
  /\ Fault("power")
  /\ Reset
  /\ nvs' \in {nvs, IF staged = NoConfig THEN nvs ELSE staged}

-----------------------------------------------------------------------------
(* The server's task.                                                       *)

Serving == main \in {"waiting", "closing"}

\* A user submits the form; webserver_request_read allocates the buffer.
Submit(f) ==
  /\ Serving /\ server = "idle"
  /\ requests < MaxRequests /\ requests' = requests + 1
  /\ server' = "reading" /\ form' = f /\ pieces' = 0
  /\ remaining' = Len(Body(f))
  /\ buffer' \in [1 .. Len(Body(f)) -> Garbage]
  /\ UNCHANGED <<main, store, posted, acked, faults>>

\* One httpd_req_recv of k characters, which go to the start of the buffer.
ReceivePiece(k) ==
  LET body == Body(form)
      from == Len(body) - remaining
  IN /\ server = "reading"
     /\ k \in 1 .. remaining
     /\ pieces < MaxPieces /\ pieces' = pieces + 1
     /\ pieces' = MaxPieces => k = remaining
     /\ buffer' = [i \in 1 .. Len(body) |-> IF i <= k THEN body[from + i] ELSE buffer[i]]
     /\ remaining' = remaining - k
     /\ UNCHANGED <<main, store, server, form, posted, history, faults>>

Finish ==
  /\ server' = "idle" /\ form' = NoForm /\ buffer' = <<>> /\ remaining' = 0 /\ pieces' = 0

ReceiveFails ==
  /\ server = "reading" /\ remaining > 0
  /\ Fault("receive")
  /\ Finish
  /\ UNCHANGED <<main, store, posted, history>>

Fields == ReadPost(Append(buffer, "nul"))

Reject ==
  /\ server = "reading" /\ remaining = 0
  /\ ~Accepts(Fields)
  /\ Finish
  /\ UNCHANGED <<main, store, posted, history, faults>>

\* Mutant of Save: the result of spv_config_write is not looked at.
SaveUnchecked ==
  /\ server = "reading" /\ remaining = 0
  /\ \E p \in {Fields} :
       /\ Accepts(p)
       /\ \/ staged' = Config(p) /\ UNCHANGED faults
          \/ Fault("set") /\ UNCHANGED staged
  /\ server' = "commit"
  /\ UNCHANGED <<main, nvs, form, buffer, remaining, pieces, posted, history>>

\* nvs_set_blob; an error is answered with 500.
Save ==
  /\ server = "reading" /\ remaining = 0
  /\ \E p \in {Fields} :
       /\ Accepts(p)
       /\ \/ /\ staged' = Config(p) /\ server' = "commit"
             /\ UNCHANGED <<form, buffer, remaining, pieces, faults>>
          \/ Fault("set") /\ Finish /\ UNCHANGED staged
  /\ UNCHANGED <<main, nvs, posted, history>>

\* nvs_commit, whose result nobody looks at.
Commit ==
  /\ server = "commit"
  /\ \/ nvs' = (IF staged = NoConfig THEN nvs ELSE staged) /\ UNCHANGED faults
     \/ Fault("commit") /\ UNCHANGED nvs
  /\ staged' = NoConfig
  /\ server' = "answer"
  /\ UNCHANGED <<main, form, buffer, remaining, pieces, posted, history>>

Answer ==
  /\ server = "answer"
  /\ acked' = TRUE
  /\ server' = "signal"
  /\ UNCHANGED <<main, store, form, buffer, remaining, pieces, posted, requests,
                 faults>>

\* Mutant of Signal: the main task is not told.
SignalNobody ==
  /\ server = "signal"
  /\ Finish
  /\ UNCHANGED <<main, store, posted, history, faults>>

Signal ==
  /\ server = "signal"
  /\ posted' = TRUE
  /\ Finish
  /\ UNCHANGED <<main, store, history, faults>>

-----------------------------------------------------------------------------
Main == Boot \/ EndWait \/ StopAndRestart

Handler ==
  \/ \E k \in 1 .. remaining : ReceivePiece(k)
  \/ Reject \/ Save \/ Commit \/ Answer \/ Signal

Next == Main \/ Handler \/ ReceiveFails \/ LosePower \/ \E f \in Form : Submit(f)

Spec == Init /\ [][Next]_vars

\* Both tasks keep running and a body that was sent arrives.
FairSpec == Spec /\ WF_vars(Main) /\ WF_vars(Handler)

-----------------------------------------------------------------------------
(* Properties.                                                              *)

\* The variables stay in their types; no board reaches the abort of project.c:42,
\* at which it would restart for ever.
TypeOK ==
  /\ main \in {"boot", "waiting", "closing"} \cup Role
  /\ nvs = NoConfig \/ nvs.role \in Role
  /\ staged = NoConfig \/ staged.role \in Role
  /\ server \in {"idle", "reading", "commit", "answer", "signal"}
  /\ requests \in 0 .. MaxRequests /\ pieces \in 0 .. MaxPieces
  /\ faults \subseteq Faults
  /\ posted \in BOOLEAN /\ acked \in BOOLEAN

\* A key as README.md:185 asks for it, of up to KeyLength bytes between colons, and the
\* byte number i of the array that it stands for.
IsHexKey(s) ==
  /\ Len(s) % 3 = 2 /\ Len(s) < 3 * KeyLength
  /\ \A k \in 1 .. Len(s) : IF k % 3 = 0 THEN s[k] = ":" ELSE IsHex(s[k])

KeyByte(s, i) ==
  IF 3 * i <= Len(s) + 1 THEN 16 * HexValue(s[3 * i - 2]) + HexValue(s[3 * i - 1]) ELSE 0

\* The configuration c is what the user meant who filled in the form f.  Of a value of one
\* character, and of a key that is not hexadecimal, nothing is said: the first comes to
\* be empty (request.c:112), the second something else (webserver.c:136).
Meant(c, f) ==
  /\ f["nodeType"] = IF c.role = "node" THEN NodeWord ELSE GatewayWord
  /\ IsHexKey(f["meshKey"]) =>
       c.mesh_key = [i \in 1 .. KeyLength |-> KeyByte(f["meshKey"], i)]
  /\ Len(f["nodeName"]) # 1 => c.name = f["nodeName"]
  /\ c.role = "gateway" =>
       \A t \in ForGateway : Len(f[t]) # 1 => c.gateway_config[t] = f[t]

\* What comes to be in flash is what the user meant whose request is handled
\* (README.md:180-186), whatever is interrupted and however the body arrives, and the
\* form fulfilled the requirements.
SavedAsSubmitted == [][nvs' # nvs => Accepts(form) /\ Meant(nvs', form)]_vars

\* Once the page has said ok the board never forgets that it is provisioned, unless
\* a commit failed: that error is not looked at (persistence.c:51).
AcknowledgedIsKept == acked => nvs # NoConfig \/ "commit" \in faults

\* Once the page has said ok the board comes to run a role, unless the flash failed:
\* it takes an error of reading for no configuration (project.c:31).
AcknowledgedBoardRuns ==
  acked ~> main \in Role \/ faults \cap {"commit", "read"} # {}

\* A form that fulfils the requirements is not turned away (README.md:183-189): a
\* request ends without saving only for one that does not.
ValidFormIsSaved ==
  [][server = "reading" /\ server' = "idle" => ~Accepts(form)]_vars
=============================================================================
