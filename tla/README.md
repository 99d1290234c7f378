# Verification of the environmental monitoring firmware

The repository is the firmware of a network of ESP32 boards: *nodes* sample sensors
with the ULP coprocessor while they sleep, wake up every minute and hand their batch
of readings to the *gateway*, which uploads it to ThingsBoard. The boards talk over
ESP-NOW through an encrypted mesh (`components/wmesh`), and the gateway also passes
new firmware on to the nodes. This directory holds TLA+ models of that program, the
TLC configurations that check them, and proofs checked by TLAPS.

`PROJECT.json` has the list of runs, hazards, findings and theorems, and the source
lines behind every definition. Source paths below are relative to `src/`.

## 1. Inventory

| Component | State it keeps | Operations | Talks to | Hard behaviours | What makes it correct | Model |
|---|---|---|---|---|---|---|
| Mesh (`components/wmesh/src/{wmesh,peer,encryption,storage}.c`) | own sequence number, peer list with a sequence number and a dirty flag each, global handle; copies of the numbers in NVS | `wmesh_init`, `wmesh_send`, `wmesh_stop`, `recv_cb` | radio (callbacks on the Wi-Fi task), NVS, services | `recv_cb` between any two steps of the main task; restart between writes; lost, late and duplicated frames; full list; counters that wrap | a datagram is dispatched at most once, in order; counters in flash never go back; receivers never ahead of senders | `WMesh`, `MeshDelivery` |
| Service registry (`wmesh.c:260-352`) | linked list of handlers | register, unregister, find | main task writes, Wi-Fi task reads | a half-linked cell seen by `recv_cb` | a registered service is always found; only a registration under way can lead a frame astray | `ServiceRegistry`, `Board` |
| Duty cycle (`main/nodes/{gateway,node}.c`) | `gateway_status`, `node_status`, radio channel, reset reason | main loop of either role, `gateway_cb`, `telemetry_cb` | mesh services, Wi-Fi, ThingsBoard, ULP, deep sleep | frames sent once, states changed by callbacks and by the main task, timeouts, restarts, a moving access point | batches uploaded at most once; a node always sleeps again; firmware spreads and never goes back | `WakeCycle`, `Deployment`, `Board` |
| Update over the mesh (`gateway.c:318-441`, `node.c:229-341`, `main/ota/ota.c`, `main/services/ota.c`) | `next_chunk` (written by two tasks), retry flag and pace; expected chunk, OTA handle | the send loop, `ota_cb` of either role | mesh, flash, boot partition | retries of several nodes interleave with the loop; losses; flash errors | what is flashed is a prefix of the image; only a whole image is booted; retries are honoured; both ends finish | `OtaTransfer`, `ImageTransfer` |
| ULP sampling (`main/sensors/ulp.{S,c}`, the batch loops of `node.c` and `gateway.c`) | counters and value arrays in RTC memory | sample, start, stop, count, read | coprocessor and main core share memory | a batch counted and read while a sample is under way; nothing sampled yet; arrays without bounds checks | every reading is of one completed run and is dated like it, for as many runs as the arrays last | `UlpBuffer`, `Sampling`, `Board` |
| Station connection (`main/wifi/sta_connect.c`) | event group, remaining attempts | connect, event handler | driver, event loop task | events against a waiting task without a timeout, errors half-way through the set-up, unlimited retries | the wait ends, with the right verdict; the handler has its event group | `StaConnect`, `Board` |
| Clock (`main/time`, `gateway.c:144-167`) | the system time, `boots_since_ntp_sync` | ask the time server, be set by the gateway | SNTP, mesh | time that survives deep sleep, set late or never | readings have real dates | `Board` (set or not) |
| Provisioning (`main/config`, `main/webserver`, `project.c`) | the configuration in NVS, the web server | boot decision, form parsing, save and restart | HTTP server task, NVS | body in pieces, restart after saving | what is saved is what the user meant | `Provisioning`, `FormParser` |
| ThingsBoard client (`components/thingsboard`) | MQTT connection, HTTP response buffer | connect, send telemetry, ask for firmware | network | ownership of buffers on error | no result without an answer | results only |
| Rest: firmware download, sensor set-up, telemetry encoding and JSON, scan, build scripts, web page | none to speak of | | | | | |

## 2. The models

### WMesh, MeshDelivery (mesh)

`WMesh` has one action per step of the main task between `wmesh_init` and
`wmesh_stop` and one per outcome of `recv_cb`.

- The main task and the Wi-Fi task are pinned to the same core
  (`sdkconfig:1103`, `1178`) and the Wi-Fi task has the higher priority. So
  `recv_cb` is atomic to the main task, and can fall between any two of the main
  task's steps. `wmesh_init` is therefore `InitEspNow` (callback registered, line
  53 ff.) and `InitHandle` (global handle set, line 103); `wmesh_stop` is
  `StopBegin` (handle cleared, line 109), `StorePeer` for each dirty peer,
  `StoreSelf`, and `Close`.
- `ctr[d]` holds the counters in d's RAM, `nvs[d]` those in its flash, `staged[d]`
  the keys set and not committed. A restart (power loss, or a panic) flushes any
  subset of what is staged, as NVS may.
- `air` is the set of all datagrams ever sent. Any of them may be received at any
  time by anyone, any number of times or never: loss, duplication, delay and
  reordering.
- Frames of senders with another key (`Stranger`) do not authenticate, but occupy a
  peer slot before that is known; `ReceiveForeign` models it.
- `ReceivePanics` is the dereference of a NULL handle or peer.
- A sequence number has `CtrMod` values, so wrapping is modelled.

`fresh` and `saved` are history variables: what was dispatched since the start, and
what was dispatched and is covered by the number in flash. `MeshDelivery` says in
terms of them what a service may rely on: *a datagram still remembered is never
handed over again*, and a restart forgets at most what was not saved.

### OtaTransfer, ImageTransfer (update)

`OtaTransfer` has the send loop as the program counter `pc` of the gateway's main
task, with `ReadChunk` (line 413), `SendChunk`, and the increment of line 390 split
in `LoadNext` and `StoreNext`, because `ota_cb` may set `next_chunk` in between.
Each radio link is a queue, since `WMesh` proves that frames of one sender are
dispatched in order and at most once. A frame is lost when the queue is full, and
`MaxLosses` more are lost at any time. A node's `ota_cb` has one action per branch.
`flash[n]` is the sequence of chunks written.

`Settled` says that the delays of the loop (15 ms and more before a chunk, 200 ms
before the last, 2 s before the end) are longer than the handling of the frames
sent before them. It is an assumption about timing, and the runs and theorems that
need it name it.

`ImageTransfer` is the promise to a node: its partition holds a growing prefix of
the image and it boots the new firmware only after all of it.

### WakeCycle, Deployment (duty cycle of the network)

`WakeCycle` has both main loops (`gpc`, `npc`), both state machines, the radio
channels and deep sleep. A frame is handled as soon as it is sent, by those boards
that are awake on the sender's channel and hear it (`Listening`, `Reach`). Since
callbacks preempt the main task, that lets a frame fall between any two steps of a
node: in particular between the poll of line 96 and the assignment of line 101, or
between the sending of telemetry and line 137. Faults are of the thirteen kinds of
`FaultType`, those in `Faults` happen, and at most `MaxFaults` in a run; a frame may
be lost for each receiver separately. One kind is a node that is `late`: the gateway
collects telemetry until none has come for 20 seconds (line 236) and goes on with its
session whether or not every node has sent its batch, so that BEGIN, END and SLEEP meet
nodes anywhere in lines 96-139.

Of an update's data the model keeps what a node has of it. `image[n]` is the release in
the open OTA handle and `written[n]` how much of it was written as `ota_next_chunk` counts
it: nothing, a part, the whole, or `spoilt` when the handle is not the one that the
counter is about (`ota_next_chunk` is never set back, `node.c:43`, `305`). A node that
missed the END of an update stays in it with what it has: it ignores BEGIN (242) and every
chunk below its counter (276), and at the END of a later session it commits the old release
if that is whole (`Complete`, `OtaEnd`). A node that had no chunk yet takes those of the
later release (`ChunksArrive`). BEGIN erases the partition that is not running, also when
an earlier update has just made it the one to boot (`OtaBegin`).

Three history variables name what has gone wrong. `interrupted`: the gateway restarted, or
went on without a late node, so that some node may act on an advertisement of a session
that is over. `parted`: a node that was in its update missed the end of it or a restart of
the gateway, or one that was awake on its channel a move of the access point. `faults`
counts all.

`Deployment` is the promise to whoever deployed the network, without channels, frames or
sessions: an awake node hands the batch of its last sleep over once at most, and comes to
run only a release that it received whole since it woke, that its gateway had at the time,
and that is newer than what it runs. It is deliberately not "its gateway's release": a node
left in an old update installs the old one.

### UlpBuffer, Sampling, ServiceRegistry, StaConnect, Board (one board)

These follow the program store by store where two processors or two tasks share
memory.

- `UlpBuffer`: the coprocessor stores a word (`StoreWord`) and counts it
  (`IncCounter`) in two steps, six times a run, in the order of `ulp.S`. The main task
  stops the timer (not the run under way), counts the readings, loads value by value
  and sends messages of `ChunkSize` readings. The main core is not the one that runs
  the coprocessor, so their steps interleave freely. A word is the pair (run, place in
  the run), which is all that tells whether a reading is mixed. Nothing in the program
  compares a counter with the size of an array, and nothing here keeps a run from
  overflowing them: `spilt` remembers that a word was stored outside. What such a word
  destroys (the counter behind the array, then other RTC memory) is not followed; from
  then on a node may find any count (`MayCount`) and the properties of readings say
  nothing until the program is loaded anew.
- `Sampling` is the promise about a batch, as if the board sampled and read in single
  steps: readings of the first runs since the start, all of them over when the batch was
  taken, in order and none twice, in full messages except the last. It lasts for
  `Capacity` runs, which the mapping sets to half the words of a buffer. The mapping gives
  each reading the *set* of the runs that its values are of, which has to have one member.
- `ServiceRegistry`: a cell is linked first and its four fields are set one by one
  (`wmesh.c:271-288`); what malloc returns is `Garbage`. `FindService` is the walk and
  the call of the Wi-Fi task, which preempts the main task and so sees one state.
- `StaConnect`: the calling task, `sta_connect_handler` on the task of the event loop
  with its queue of events, and the driver, which answers a request and may lose a
  connection at any time. Every step of the set-up may fail, and the function then
  undoes the steps before it. `failures` and `leased` are history variables.
- `Board` composes them: the main task (`mpc`) of either role, from boot over
  connection, clock, batch, registration and session to deep sleep, with the
  coprocessor, the Wi-Fi task and the event loop stepping in between. `Reset` is a panic
  or a loss of power at any point; `FrameGoesAstray` is the panic of a frame that comes
  while the list leads nowhere. What boards say to each other is one step here
  (`HearGateway`, the session) and the subject of `WakeCycle`.

### FormParser, Provisioning (configuration and web server)

`FormParser` has the parser of the form by what it finds, not by how it walks, so that it
can be proved about: `NamedLines` are the places at which `webserver_read_post` takes a
line for a field, `Content` is the value it makes of the rest of the line, and `ReadPost`
all that it returns. `KeyParses` and `Accepts` are the checks of
`webserver_update_handler`, `Config` the configuration it makes. `KeyArray` makes the bytes
of a key as `parse_key` does: each token is two characters, and `strtoul` (`ByteOf`) is not
asked whether they were digits, so that `zz` is a byte of zero and `-1` one of 255.
A symbol of a body
is a character that the code looks for, a whole field name, or one character of a
value. `Body` is what a browser sends for the page's `text/plain` form.

`Provisioning` has the main task (`app_main`, the wait for the form, the restart)
and the task of the web server, which handles one request at a time.
`ReceivePiece` is one `httpd_req_recv`; it writes to the start of the buffer, as
line 33 of `request.c` does. What malloc leaves in the buffer is any symbol of
`Garbage`. `staged` is a configuration that is set and not committed: it may or may
not survive a loss of power. Setting, committing and reading the configuration and
receiving a piece may fail.

### How the modules fit

`WMesh` gives the delivery guarantee that `OtaTransfer` assumes of its links, and
`OtaTransfer` gives the meaning of the two frames that stand for an update in
`WakeCycle`. `Provisioning` ends where the main loop of a role starts. From there,
`Board` is one board in detail and `WakeCycle` all boards in outline. `Board` EXTENDS
its three components and uses their actions; `BoardUsesBuffers`, `BoardUsesRegistry` and
`BoardConnects` prove that its behaviours are behaviours of each, so that their theorems
hold on the board. The other compositions are by these interfaces and not by one product
state space, which would be far beyond TLC. `MCWMesh` and `MCOtaTransfer` only add
symmetry; `MCProvisioning` has the forms.

## 3. What the runs check

| Run | Instance | States | Shows |
|---|---|---|---|
| `mesh_one_way` | two boards, one sends 3 datagrams, one stranger, a peer list of one entry, every fault | 940,444 | `TypeOK`; `PeerBehindSender`: what a healthy sender sends next is new to all; `UniqueSequence`; `CleanPeersAreStored`; `Consistent`, the inductive invariant of the proofs; `InOrder`; `StoredCountersGrow`; `DeliverySpec`, the refinement of `MeshDelivery` |
| `mesh_stop_panic_ids` | no power loss, no storage error | | *violated*, see the findings |
| `ota_any_timing` | two nodes, 3 chunks, one loss besides those of full queues, flash errors | 598,054 | `TypeOK` (the chunk read exists), `FlashIsPrefix`, `ImageSpec` |
| `ota_settled` | two nodes, 4 chunks, two losses, three repetitions of the last chunk | 1,190 | `UpdateSucceeds`, `RestartHonoured`, `EveryNodeCompletes`, `GatewayFinishes` |
| `ota_restart` | as `ota_any_timing` without errors | | *violated*, see the findings |
| `cycle_faults` | two nodes, two channels, one advertisement, firmware 0 and two releases, any two faults of all thirteen kinds | 986,423 | `TypeOK`, `NobodyLeftBehind`, `NoneStranded`, `DeploymentSpec` (the refinement of `Deployment`, which says among others that a batch is uploaded at most once), `NoDowngrade`, `TelemetryIsHeard`, `SleepsUpToDate`, `SleepsUnlessStranded`, `FirmwareSpreads` |
| `cycle_end_lost` | one lost END | | *violated*, see the findings |
| `board` | a board of either role, buffers of 6 words, 3 or 4 runs a sleep (the fourth overflows), messages of 2 readings, 2 retries, errors of the driver, a reset | 436,491 | `TypeOK`; `CapacityIsHalf`, `OneRunPerReading`, `BatchIsWhole`; `SamplingSpec`, the refinement of `Sampling`; `RegisteredIsServed`, `AstrayOnlyWhileAdding`; `HandlersHaveGroup`, `VerdictRight`, `AnswerIsComing`; `GatewaySleeps` |
| `board_clock` | a gateway, no error, no reset | | *violated*, see the findings |
| `ulp_second_word` | a node, no error, no reset | | *violated*, see the findings |
| `provisioning_forms` | two requests of ten good and bad forms, bodies in one or two pieces, any two kinds of fault | 34,376 | `TypeOK` (no board aborts at boot), `SavedAsSubmitted`, `AcknowledgedIsKept`, `AcknowledgedBoardRuns` |
| `provisioning_pieces` | one complete form, no fault | | *violated*, see the findings |

**The two ways of being stranded.** `SleepsUnlessStranded` and `FirmwareSpreads` hold
under every kind of fault for nodes that are not `Stranded` for ever. A node is
stranded (a) in the update, when it missed END or its gateway restarted in the middle,
and (b) awake on a channel its gateway has left, when the access point moved after the
node followed the channel frame. `cycle_end_lost` exhibits (a) with a single lost
frame. The runs show that these two are the only ones, which no test would.
`NoneStranded` says it as safety, of what gets a node there rather than of what follows:
between updates no node is stranded unless one of those events (`parted`) has happened.
`NoneStrandedCorrect` proves it for every number of nodes, channels and faults.
Neither state is final: a node left in its update that hears the END of a later one leaves
it, and an access point may move back. So the liveness properties except only nodes that
are stranded from some point on for ever.

**Late nodes.** `TelemetryIsHeard`, `NoneStranded`, `DeploymentSpec`, `NoDowngrade` and the
two liveness properties cover a gateway that does not wait long enough for a node.
`NobodyLeftBehind` and `SleepsUpToDate` speak of sessions in which nothing goes wrong, and a
late node counts as something that does: a node that is still to send its batch ignores SLEEP
and BEGIN and stays awake until a later session.

**How long the buffers last.** `CapacityIsHalf` states what the code does: the first word
that finds no place is stored in the run after half as many as a buffer has words, since
the gas and the environment sensor store two words a run. With the defaults (350 words, a run
every 10 s) that is after 175 runs, 29 minutes.

**Bounds.** Two boards are enough for a receiver and a sender that fail separately;
the second node in the update and in the cycle is the one whose retries, losses and
restarts disturb the first. A peer list of one entry fills up with one stranger.
Three datagrams cover one before, during and after a session; the counter has more
values than that, and wrapping is left to the proof of `DeliveryImplemented`, which
covers every `CtrMod`. Three chunks have a first, a middle and a last one.
`MaxFlight = 1` makes full queues, and with them losses, frequent. Two faults of any
kinds allow one on each board or one and a loss: with two releases that is enough for a
node to miss an END and be found by the END of the next release. One advertisement is enough since a
second is handled like the first by nodes that missed it.
In `board`, a sleep of `MinRuns = 3` to `MaxRuns = 4` runs wakes the board before, in and
after a run; a batch of two or three readings makes a full message and a rest. Two words
of three runs just fill the `BufferWords = 6`, and a fourth run overflows two buffers.
`Retries = 2` has a first, a middle and a last attempt; a gateway registers one or two
services and a node two. One reset can fall at every point, the boots count past
`NtpBoots = 1` to the cap of 3, and the state space is finite over any number of sleeps.
The forms of `provisioning_forms` have keys of no, one, two (the right
number) and three bytes, a malformed one and one of no hexadecimal digits, both roles and an unknown one, empty values,
a value of one character, values with a `=`, and missing fields; two requests let a second
one fall between the answer to the first and the restart.

**Deadlock.** `WMesh`, `OtaTransfer` and `Provisioning` may stop: every datagram has
been sent, the update is over, a board runs its role (or waits and no user submits
anything). `WakeCycle` and `Board` never stop, and deadlock is checked there.

**Fairness.** In `OtaTransfer`, weak fairness of the gateway's main task (it only
waits in `vTaskDelay`) and of the handling of frames in flight on each node and the
gateway (the Wi-Fi task has the higher priority). Losses are bounded by
`MaxLosses`, below the number of repetitions of the last chunk: without that bound
no transfer over a lossy link completes. In `WakeCycle`, weak fairness of
the main tasks; nothing is assumed of faults except that they are finitely many. Deep sleep ends by a timer, so waking is part of the main task's steps.
In `Board`, the main task runs, the coprocessor steps and its timer elapses, the event
loop takes its events, and the driver answers a request for a connection (with success
or failure); it is under no obligation to lose a connection.
In `Provisioning`, weak fairness of the main task and of the server's (both only block
on an event or on a request), a body that was sent arrives, and users are under no
obligation to submit forms.

**Assumptions.** `Settled`: the delays of the send loop outlast the handling of the frames
before them. `2 <= MinRuns`: a board sleeps through two runs at least, so that the
`count - 1` of `ulp.c:116` never wraps at zero; a run is every 10 s and a sleep a minute or
more, but nothing in the code asserts it. No assumption is made on the size of the buffers.
`GatewayReadings
< MinRuns`: a gateway reads no sooner than that many runs have begun, since it wakes no earlier
than `wake_time` (`gateway.c:246`), a wake interval of at least a minute after a moment close
before `spv_ulp_start` (254), with a run every 10 s. A run
under way at wake-up, of milliseconds, ends before `spv_ulp_start` seconds later. An access
point that lets a board join hands out an address. `FormAssumption`: a form has a field at
least, and its values have no line breaks, since the page's inputs hold one line; a body
that is empty is outside the model (`webserver_read_post` reads through a NULL pointer
then, `request.c:17-21`, `72-78`). `NameOnlyInFront`: the name `meshKey` is in no value and
not in memory that malloc returns. Of the theorems only those about bodies in pieces need
it: what an earlier form left in freed network buffers could otherwise complete the rest
of a later one.

## 4. What is proved

All for any number of boards, nodes, chunks, datagrams, versions, faults, buffer sizes,
services and retries.

**WMeshProofs.** `TypeCorrect` and `StoredCorrect` need no assumption beyond
`WMeshAssumption`. `DeliveryImplemented` proves the refinement of `MeshDelivery`
with every fault and also for counters that wrap: the argument needs only
`SessionShape` and `RememberedIsBehind` (everything dispatched and remembered has a
number not above the one compared with), together called `Base` with the types.
The properties of healthy senders (`PeerBehindSenderCorrect`, `UniqueSequenceCorrect`,
`InOrderCorrect`, `StoredCountersGrowCorrect`) assume `NoWrap`, that a board sends
fewer than `CtrMod` datagrams in its life. They follow from the inductive
invariant `Consistent`. `PeerBehindSender` alone is not inductive: one has to know
that a healthy sender's number is the count of what it has sent wherever it is kept
(RAM, flash, staged), that receivers never exceed it, in RAM or in flash, and that
a peer which is not dirty has the same number in both.

**OtaProofs.** `TypeCorrect`: the chunk read always exists, whenever retries come.
The strengthening is `LoopOpen`, that the last chunk has been sent fewer than
`LastRepeats` times while the loop runs. `FlashIsPrefixCorrect` follows from
`FlashInv`: the flash is the prefix counted by `ota_next_chunk`, and a node that is
still updating boots the old firmware. `ImageImplemented` proves the refinement of
`ImageTransfer`. `RestartHonouredWhenSettled` proves, under `Settled`, what
`ota_restart` refutes without it: while frames are handled only in the delays, the
index cannot move between its reading and its increment.
`UpdateSucceedsWhenSettled` is the safety part of `EveryNodeCompletes`: with fewer losses
than repetitions of the last chunk no node that is in the update meets the end of it with
a chunk missing. Its invariant `SuccessInv` counts losses against repetitions (`Served`):
a node either has what comes before the chunk that is about to be sent, or has already
cost one loss for every repetition of the last chunk and one more. Around that, `PhaseInv`
places the loop, and `LinkInv` says that a link carries at most the one frame that belongs
to that place.

**CycleProofs.** `TypeCorrect`; `BatchUploadedOnceCorrect`, by the invariant that a
node about to send has not uploaded since it slept, and that only a node that
woke from deep sleep gets there; `NoDowngradeCorrect`, by `VersionInv`: what a
node runs, what it boots next and its gateway's release are in that order, and any release
that it still has an image of, an old one included, is newer than what it runs (`ImageInv`).
`TelemetryIsHeardCorrect`, by `DueInv`: unless the gateway restarted or gave a node up, no
session goes on past the collecting of telemetry with a node that is due to send, which is
on the gateway's channel while that serves telemetry.
`NobodyLeftBehindCorrect` and `SleepsUpToDateCorrect` say what a session without any
fault achieves, for any number of nodes, channels and advertisements. Both follow from
`AttendInv`, which gives for each node and each place of the gateway the states the node
may be in (`Expected`), the channel it is on, and that it has asked for the update and been
heard, or runs its gateway's firmware.
`NoneStrandedCorrect` needs no assumption on faults or timing. Its invariant `HomeInv` says
where an awake node is as long as nothing has parted it from its gateway: in an update only
while the gateway is in one and on the gateway's channel, so that the end of the update
reaches it or is counted as missed; and once it has been found, on the channel the gateway
called it to. A sleeping node is in the state `sleep`, which no frame changes, and a node
past its polling loop has been found: without these two the step to
`AfterTelemetry` could put a node that is still on channel 1 among those that were found.
`DeploymentImplemented` proves the refinement of `Deployment` from the invariants of
`BatchUploadedOnce` and `NoDowngrade`: the step `SendTelemetry` is an upload of a batch not
handed over before; `OtaBegin` is a `Prepare` of the nodes it starts; `OtaEnd` an `Update`,
in which some nodes receive the release, some end their update and those of them that have a
whole release, this one or an older, install it; `CheckUpdate` is a `Release`; sleeping,
waking and restarting make a node run what it has installed.

**UlpProofs.** The invariant is `MemoryInv` and `ReaderInv`. `MemoryInv` gives each counter
and each word by the place of the coprocessor in its run: `PlacesDiffer` and `NextPlace`
say that the six words of a run go to places of their own. What the buffers hold is nowhere
assumed: `SpillsRight` says when `spilt` is set, `CapacityIsHalfCorrect` follows, and
`KeptRuns` gives the other invariants the places of all words while it is not.
`ReaderInv` says that what the reader may load belongs to
runs that have ended, since `spv_ulp_get_reading_count` returns one less than was counted;
`OneRunPerReadingCorrect` (until a word misses its buffer) and `BatchIsWholeCorrect` (always)
follow, however the two cores interleave.
`SamplingImplemented` proves the refinement of `Sampling` from these and `FullInv`: every
message but the last is full, so that message k begins at reading `ChunkSize * (k - 1)`.
A run counts as completed when its last word has been counted; that a batch has none
other is `CountIsBehind`, the `- 1` of `ulp.c:116` together with `MinRuns`. A run that
overflows a buffer is the step `Overflow`, after which `Sampling` promises nothing until the
program is started anew.

**RegistryProofs.** `RegistryInv`: all cells but the last are complete and linked, and the
last is complete up to `filled`. The walk is the least cell at which it cannot go on, and
that there is one is shown from the well-foundedness of the naturals (`LeastElement`).
`RegisteredIsServedCorrect` and `AstrayOnlyWhileAddingCorrect` follow.

**StaProofs.** `StaInv` has the registered handlers by the place of the caller, that all is
quiet before the request, the shape of the queue by the state of the driver, and that
failures seen and attempts left add up to `Retries`. `HandlersHaveGroupCorrect`,
`VerdictRightCorrect` and `AnswerIsComingCorrect` follow: the wait without a timeout is
always for something that comes.

**BoardProofs.** `BoardUsesBuffers`, `BoardUsesRegistry` and `BoardConnects`: every step of
the board is a step of each component or leaves it alone. The first needs the invariant of
the board, that a gateway which takes its fixed number of readings finds them written.
`BoardSamples` composes the first with `SamplingImplemented`: the messages of a whole board,
of either role, are those of `Sampling`.
`BoardTypeCorrect` follows from the components' invariants.

**ProvisioningProofs.** `TypeCorrect`: only accepted forms reach the flash, so no
board aborts at boot. `AcknowledgedIsKeptCorrect`,
by the invariant `WrittenBeforeAnswer`: past the writing, something is staged, and past
the commit, something is in flash or the commit has failed. That `staged` is empty
outside `commit` is not needed, since the flash is never emptied.

`ParserReadsForm`: for every form the parser gives back what the page sent, up to `Kept`,
also when values hold `=` or names of fields. It goes from the last line of the body to
the first: `Reads` says that a text holds the fields of a set and no other, `LineInFront`
what a line in front adds to the lines found, and `AddLine` that `Reads` gains that line's
field. What the accepted fields come to mean is `KeptIsMeant`: role, name and gateway fields
are the user's, and a hexadecimal key is parsed to its bytes (`HexKeyParsed`), since its
tokens start at every third character (`TokensOfHexKey`) and number i is at `3 * i - 2`
(`NthPlace`, from the count of the tokens before it). `SavedAsSubmittedCorrect` says that
this, and nothing else, gets to flash. It needs in addition the invariant `SavedInv`: while the body
is read, `BufferInv` describes the buffer piece by piece, and what is staged is the form
under way. The first piece is where it belongs; a second one overwrites the name of the
first field, so a form in pieces is refused and not saved in part
(`NeverSavedInPiecesCorrect`). `ValidFormIsSavedInOnePiece` shows that finding 6 has no other
cause: with whole bodies and no faults the property that `provisioning_pieces` refutes holds.

**Only model-checked.** Liveness (`EveryNodeCompletes`, `GatewayFinishes`,
`SleepsUnlessStranded`, `FirmwareSpreads`, `GatewaySleeps`, `AcknowledgedBoardRuns`), which is
beyond this prover. Every invariant and every other action property of the runs is the
subject of a theorem.

## 5. Findings

1. **A datagram during `wmesh_stop` loses the session's counters**
   (`wmesh.c:109`; `mesh_stop_panic_ids`). The global
   handle is cleared before the peers are stored and with `recv_cb` still
   registered. A datagram in that window makes the board panic with nothing stored;
   after the restart it numbers new packets like old ones, against `wmesh.h:110`.
2. **A retry can be overtaken by the increment** (`gateway.c:390`; `ota_restart`).
   The chunk a node asked for is then skipped until it asks again.
3. **A lost END keeps a node awake** (`node.c:213`; `cycle_end_lost`). END is
   broadcast once, a node in `NODE_STATE_OTA` ignores every other command, and
   nothing times out.
4. **A gateway's clock may never be set before it dates readings** (`gateway.c:150`;
   `board_clock`). The time server is asked only after a reset that is not the end of deep
   sleep, or after several wake-ups without. A gateway that first started without a network
   uploads readings with the dates of an unset clock (`README.md:238`).
5. **The second word of a sensor is never read** (`ulp.c:122`; `ulp_second_word`). The
   offset is added to the word and not to its address: VOC is the CO2 word plus one,
   temperature the humidity word plus one (`ulp.h:48`).
6. **A form received in two pieces is refused** (`request.c:33`;
   `provisioning_pieces`). Every piece goes to the start of the buffer, so the second
   overwrites the first, and the handler does not find `meshKey` (`README.md:183-186`).

Seen while modelling, without a run of their own:

- A value of one character is saved as an empty one (`request.c:112`): the branch for
  empty contents compares positions with `>=`. The parser is modelled with it
  (`Content`, `ParserReadsForm`), and `SavedAsSubmitted` says nothing of such a value: it
  neither finds nor excuses it.
- The key is checked for the lengths of its tokens only. `strtoul` is not asked whether it
  found digits (`webserver.c:136`): `zz` becomes 00 and `-1` FF, without an error.
  `README.md:185` asks for 32 bytes in hexadecimal; any one to 32 tokens of two characters
  between colons are taken, and what is missing is zero. `SavedAsSubmitted` speaks of
  hexadecimal keys.
- The buffers hold half the readings that are claimed. `README.md:34` and `294` count 350
  readings and 58 minutes, and `Kconfig:66-70` asks for one word a run; the CO2/VOC and the
  humidity/temperature sensor store two, so 175 runs (29 minutes) fill them, and the next
  overwrites the counter behind the array (`CapacityIsHalf`, `CapacityIsHalfCorrect`).
- A node that missed the END of an update commits that update at the END of a later one,
  if it had it whole (`node.c:242`, `276`, `322-334`): it boots the older release and needs
  another session for the new one. `Deployment`, `NoDowngrade` and `FirmwareSpreads` are
  stated and hold with this.
- A BEGIN erases the partition that an update of the same wake-up made the one to boot, and
  `ota_next_chunk` still counts that update's chunks (`node.c:43`, `257`): the node refuses
  the mixture and runs its old firmware.
- A gateway takes a fixed number of readings of its own sensors (`gateway.c:178`), however
  many there are.
- `spv_ulp_get_reading_count` returns one less than is stored (`ulp.c:116`), where
  `ulp.h:35-39` says "how many readings have been stored in RTC memory". The difference is
  what keeps the sample under way out of a batch (`OneRunPerReading`), and costs the last
  complete one when none is under way. With nothing sampled it returns the largest
  `size_t`; `MinRuns` assumes that away.
- The event group of a connection that failed to set up is not deleted
  (`sta_connect.c`, `DeleteGroup`); results of `spv_ulp_start` are ignored.
- `boots_since_ntp_sync` is not set back after a synchronisation, so that from then on the
  time server is asked at every wake-up with a network.
- `wmesh_unregister_service` leaves the freed cell as the head of the list when it is the
  first one, but nothing calls it.
- At the slowest pace a retry stays noted and slows the sender once more later, when it may
  be long answered (`gateway.c:394`). Both tasks also write `chunks_since_retry` (345, 433).

## 6. What is not modelled

- Bytes: encryption, message layouts, JSON, web pages. `WMesh` uses what the encryption
  promises: a frame decrypts under its key, header included.
- Lengths of time, apart from the order of events and the named assumptions. The pace of
  the update (`wait_ms`, `gateway.c:393-411`) only changes delays. The
  sleep of `node.c:148-153` is a length that may wrap and is capped at 151; a node sleeps
  and wakes here.
- ThingsBoard client, firmware download and scan: calls into MQTT, HTTP and Wi-Fi libraries
  by one task, without state that outlives a call or is shared. Their outcomes are choices
  in `WakeCycle` (`Connect`, `CheckUpdate`) and `Board` (`Scan`, `Platform`). What could be
  wrong in them is the ownership of buffers on error paths, which is not a matter of
  interleavings.
- Sensors: writes of pins and I2C commands at start. In `UlpBuffer`, the bit-banged buses,
  the conversion to units, and errors of loading and starting the program.
- `wmesh_unregister_service` and a malloc that fails in a registration.
- In `Provisioning`, values longer than the arrays of the configuration, memory that
  runs out, and the page's script.
- In `WakeCycle`, the chunks of a mixture of two releases (`spoilt`): that it is refused
  rests on the verification in `esp_ota_end`. An image that is whole is followed, of
  whichever release it is.
- In `UlpBuffer`, what a word that misses its buffer destroys besides the counts.
- Calls into the SDK (ESP-NOW, NVS, OTA partition, event loop, deep sleep) are modelled from
  how the code uses them and are marked external in `PROJECT.json`.

## 7. What could follow

A composition of `Board` and `WakeCycle`, in which each node's main task is that of `Board`,
would need a coarser view of the coprocessor first, for which `Sampling` is the candidate.
Proofs of the liveness properties wait
for a prover that handles fairness and ENABLED.
