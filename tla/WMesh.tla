-------------------------------- MODULE WMesh --------------------------------
(***************************************************************************)
(* The wmesh component: sequence numbers of a board and of its peers, in    *)
(* RAM while the mesh is up and in flash (NVS) between two sessions, with   *)
(* the Wi-Fi task's recv_cb running whenever a datagram arrives, also while *)
(* the main task is inside wmesh_init or wmesh_stop.                        *)
(*                                                                          *)
(* The air is the set of all datagrams ever sent: any of them may reach any *)
(* other board at any time, never, or more than once.                       *)
(***************************************************************************)
EXTENDS Naturals, FiniteSets

CONSTANTS Device,         \* boards of this mesh
          Stranger,       \* other ESP-NOW senders in range, with another key
          Service,        \* service identifiers
          CtrMod,         \* 2^(8 * WMESH_ENCRYPTION_NONCE_LENGTH)
          PeerListSize,   \* WMESH_PEER_LIST_SIZE
          Sender,         \* bound: the boards that send
          MaxSends,       \* bound: datagrams a board sends in its life
          PowerLoss,      \* whether a board may lose power while it runs
          StorageErrors   \* whether NVS operations may fail

Address == Device \cup Stranger
Ctr == 0 .. CtrMod - 1
Datagram == [src: Device, seq: Ctr, n: 1 .. MaxSends, svc: Service]
Phase == {"off", "opening", "up", "storing", "closing"}

ASSUME WMeshAssumption ==
  /\ Device \cap Stranger = {}
  /\ Sender \subseteq Device
  /\ IsFiniteSet(Address)
  /\ CtrMod \in Nat \ {0}
  /\ PeerListSize \in Nat
  /\ MaxSends \in Nat
  /\ {PowerLoss, StorageErrors} \subseteq BOOLEAN

VARIABLES
  phase,    \* where the main task is between wmesh_init and wmesh_stop
  ctr,      \* ctr[d][d]: sequence_number; ctr[d][p]: peers[..].sequence
  known,    \* known[d]: the addresses in d's peer list
  dirty,    \* dirty[d]: the peers whose dirty flag is set
  todo,     \* todo[d]: the dirty peers wmesh_peer_list_store has yet to visit
  nvs,      \* nvs[d][a]: counter in d's flash; an absent key is read as 0
  staged,   \* staged[d]: keys set by wmesh_stop and not yet committed
  services, \* services[d]: the identifiers with a registered handler
  air,      \* every datagram sent so far
  sends,    \* history: how many datagrams a board has sent in its life
  fresh,    \* history: dispatched on d since it started
  saved,    \* history: dispatched on d and covered by its flash
  clean     \* history: d has never lost its own counter to a fault

ram == <<phase, ctr, known, dirty, todo, staged, services>>
history == <<fresh, saved, clean>>
vars == <<phase, ctr, known, dirty, todo, nvs, staged, services, air, sends,
          fresh, saved, clean>>

Init ==
  /\ phase = [d \in Device |-> "off"]
  /\ ctr = [d \in Device |-> [a \in Address |-> 0]]
  /\ nvs = [d \in Device |-> [a \in Address |-> 0]]
  /\ known = [d \in Device |-> {}]
  /\ dirty = [d \in Device |-> {}]
  /\ todo = [d \in Device |-> {}]
  /\ staged = [d \in Device |-> {}]
  /\ services = [d \in Device |-> {}]
  /\ air = {}
  /\ sends = [d \in Device |-> 0]
  /\ fresh = [d \in Device |-> {}]
  /\ saved = [d \in Device |-> {}]
  /\ clean = [d \in Device |-> TRUE]

-----------------------------------------------------------------------------
(* The main task.                                                           *)

\* wmesh_init up to the registration of recv_cb: from here on the Wi-Fi task
\* calls recv_cb, while wmesh_global_handle is still NULL.
InitEspNow(d) ==
  /\ phase[d] = "off"
  /\ phase' = [phase EXCEPT ![d] = "opening"]
  /\ UNCHANGED <<ctr, known, dirty, todo, nvs, staged, services, air, sends, history>>

\* The rest of wmesh_init: an empty peer list, the own sequence number from
\* flash (0 when the read does not succeed), and the global handle.
InitHandle(d) ==
  /\ phase[d] = "opening"
  /\ \E readOk \in {TRUE, ~StorageErrors} :
       /\ ctr' = [ctr EXCEPT ![d][d] = IF readOk THEN nvs[d][d] ELSE 0]
       /\ clean' = [clean EXCEPT ![d] = @ /\ readOk]
  /\ phase' = [phase EXCEPT ![d] = "up"]
  /\ UNCHANGED <<known, dirty, todo, nvs, staged, services, air, sends, fresh, saved>>

RegisterService(d, svc) ==
  /\ phase[d] = "up"
  /\ services' = [services EXCEPT ![d] = @ \cup {svc}]
  /\ UNCHANGED <<phase, ctr, known, dirty, todo, nvs, staged, air, sends, history>>

\* mutant of NextSeq: the counter is not advanced
NextSeqStuck(d) == ctr[d][d]

\* wmesh_send: the counter is consumed whether or not the frame arrives.
NextSeq(d) == (ctr[d][d] + 1) % CtrMod

Send(d, svc) ==
  /\ phase[d] = "up"
  /\ d \in Sender /\ sends[d] < MaxSends
  /\ sends' = [sends EXCEPT ![d] = @ + 1]
  /\ ctr' = [ctr EXCEPT ![d][d] = NextSeq(d)]
  /\ air' = air \cup {[src |-> d, seq |-> NextSeq(d), n |-> sends[d] + 1, svc |-> svc]}
  /\ UNCHANGED <<phase, known, dirty, todo, nvs, staged, services, history>>

\* wmesh_stop clears the global handle first, with recv_cb still registered.
StopBegin(d) ==
  /\ phase[d] = "up"
  /\ phase' = [phase EXCEPT ![d] = "storing"]
  /\ todo' = [todo EXCEPT ![d] = dirty[d]]
  /\ UNCHANGED <<ctr, known, dirty, nvs, staged, services, air, sends, history>>

\* mutant of StorePeer: the dirty flag is cleared even when the write failed
StorePeerForgetful(d, p) ==
  /\ phase[d] = "storing"
  /\ p \in todo[d]
  /\ todo' = [todo EXCEPT ![d] = @ \ {p}]
  /\ dirty' = [dirty EXCEPT ![d] = @ \ {p}]
  /\ \/ staged' = [staged EXCEPT ![d] = @ \cup {p}]
     \/ StorageErrors /\ UNCHANGED staged
  /\ UNCHANGED <<phase, ctr, known, nvs, services, air, sends, history>>

\* One turn of wmesh_peer_list_store; a failed write leaves the peer dirty.
StorePeer(d, p) ==
  /\ phase[d] = "storing"
  /\ p \in todo[d]
  /\ todo' = [todo EXCEPT ![d] = @ \ {p}]
  /\ \/ /\ staged' = [staged EXCEPT ![d] = @ \cup {p}]
        /\ dirty' = [dirty EXCEPT ![d] = @ \ {p}]
     \/ /\ StorageErrors
        /\ UNCHANGED <<staged, dirty>>
  /\ UNCHANGED <<phase, ctr, known, nvs, services, air, sends, history>>

\* mutant of StoreSelf: the own counter is not written
StoreSelfSkipped(d) ==
  /\ phase[d] = "storing"
  /\ todo[d] = {}
  /\ phase' = [phase EXCEPT ![d] = "closing"]
  /\ UNCHANGED <<ctr, known, dirty, todo, nvs, staged, services, air, sends, history>>

\* The own counter is written last.
StoreSelf(d) ==
  /\ phase[d] = "storing"
  /\ todo[d] = {}
  /\ phase' = [phase EXCEPT ![d] = "closing"]
  /\ \/ /\ staged' = [staged EXCEPT ![d] = @ \cup {d}]
        /\ UNCHANGED clean
     \/ /\ StorageErrors
        /\ clean' = [clean EXCEPT ![d] = FALSE]
        /\ UNCHANGED staged
  /\ UNCHANGED <<ctr, known, dirty, todo, nvs, services, air, sends, fresh, saved>>

\* The keys in F reach the flash and the rest of d's RAM is gone.
EndSession(d, F) ==
  LET kept == {m \in fresh[d] : m.src \in F}
  IN /\ nvs' = [nvs EXCEPT ![d] = [a \in Address |-> IF a \in F THEN ctr[d][a] ELSE @[a]]]
     /\ saved' = [saved EXCEPT ![d] = @ \cup kept]
     /\ fresh' = [fresh EXCEPT ![d] = {}]
     /\ ctr' = [ctr EXCEPT ![d] = [a \in Address |-> 0]]
     /\ phase' = [phase EXCEPT ![d] = "off"]
     /\ known' = [known EXCEPT ![d] = {}]
     /\ dirty' = [dirty EXCEPT ![d] = {}]
     /\ todo' = [todo EXCEPT ![d] = {}]
     /\ staged' = [staged EXCEPT ![d] = {}]
     /\ services' = [services EXCEPT ![d] = {}]
     /\ UNCHANGED <<air, sends>>

\* Both storages are committed and closed, then esp_now_deinit.
Close(d) ==
  /\ phase[d] = "closing"
  /\ EndSession(d, staged[d])
  /\ UNCHANGED clean

\* A restart at any other point: NVS may or may not have flushed what was set.
Restart(d) ==
  /\ \E F \in SUBSET staged[d] : EndSession(d, F)
  /\ clean' = [clean EXCEPT ![d] = @ /\ phase[d] = "opening"]

\* wmesh_init gives up and the caller aborts (node.c:83, gateway.c:81).
InitFails(d) ==
  /\ StorageErrors
  /\ phase[d] = "opening"
  /\ Restart(d)

LosePower(d) ==
  /\ PowerLoss
  /\ phase[d] # "off"
  /\ Restart(d)

-----------------------------------------------------------------------------
(* The Wi-Fi task: recv_cb for a datagram of this mesh, or of another one.  *)

\* mutant of HasPeer: the list is not checked to be full
HasPeerUnbounded(d, a) == TRUE

\* wmesh_peer_list_get finds the address or wmesh_peer_list_add has room for it.
HasPeer(d, a) == a \in known[d] \/ Cardinality(known[d]) < PeerListSize

\* mutant of PeerCtr: an unlisted peer starts from 0, its record is not loaded
PeerCtrNotLoaded(d, a) == IF a \in known[d] THEN ctr[d][a] ELSE 0

\* wmesh_peer_list_get_or_create: the counter found in the list or in flash.
PeerCtr(d, a) == IF a \in known[d] THEN ctr[d][a] ELSE nvs[d][a]

\* mutants of IsNew: a repeated number is new; only a repeated number is stale;
\* half of the numbers, counted from the last one, are new
IsNewOrSame(c, m) == c <= m.seq
IsNewIfDifferent(c, m) == c # m.seq
IsNewSerial(c, m) == c # m.seq /\ (m.seq + CtrMod - c) % CtrMod <= CtrMod \div 2

\* wmesh_decrypt: only a greater number than the last one taken is new.
IsNew(c, m) == c < m.seq

Receive(d, m) ==
  LET c == PeerCtr(d, m.src)
  IN /\ phase[d] = "up"
     /\ m.src # d
     /\ HasPeer(d, m.src)
     /\ known' = [known EXCEPT ![d] = @ \cup {m.src}]
     /\ \/ /\ IsNew(c, m)
           /\ ctr' = [ctr EXCEPT ![d][m.src] = m.seq]
           /\ dirty' = [dirty EXCEPT ![d] = @ \cup {m.src}]
           /\ fresh' = [fresh EXCEPT ![d] =
                          IF m.svc \in services[d] THEN @ \cup {m} ELSE @]
        \/ /\ ~IsNew(c, m)
           /\ ctr' = [ctr EXCEPT ![d][m.src] = c]
           /\ UNCHANGED <<dirty, fresh>>
     /\ UNCHANGED <<phase, todo, nvs, staged, services, air, sends, saved, clean>>

\* A frame that does not authenticate leaves the counter alone, but its sender
\* has been added to the peer list by then.
ReceiveForeign(d, a) ==
  /\ phase[d] = "up"
  /\ a # d
  /\ HasPeer(d, a)
  /\ known' = [known EXCEPT ![d] = @ \cup {a}]
  /\ ctr' = [ctr EXCEPT ![d][a] = PeerCtr(d, a)]
  /\ UNCHANGED <<phase, dirty, todo, nvs, staged, services, air, sends, history>>

\* recv_cb dereferences NULL and the board panics and reboots: the global handle
\* before line 103 of wmesh_init and after line 109 of wmesh_stop, the peer when
\* the list is full or the peer's record cannot be read.
ReceivePanics(d, a) ==
  /\ a # d
  /\ a \in Stranger \/ \E m \in air : m.src = a
  /\ \/ phase[d] \in {"opening", "storing", "closing"}
     \/ phase[d] = "up" /\ ~HasPeer(d, a)
     \/ phase[d] = "up" /\ StorageErrors /\ a \notin known[d]
  /\ Restart(d)

Main(d) ==
  \/ InitEspNow(d)
  \/ InitHandle(d)
  \/ InitFails(d)
  \/ \E svc \in Service : RegisterService(d, svc)
  \/ \E svc \in Service : Send(d, svc)
  \/ StopBegin(d)
  \/ \E p \in Address : StorePeer(d, p)
  \/ StoreSelf(d)
  \/ Close(d)

WiFi(d) ==
  \/ \E m \in air : Receive(d, m)
  \/ \E a \in Address : ReceiveForeign(d, a)
  \/ \E a \in Address : ReceivePanics(d, a)

Next == \E d \in Device : Main(d) \/ WiFi(d) \/ LosePower(d)

Spec == Init /\ [][Next]_vars

-----------------------------------------------------------------------------
(* Properties.                                                              *)

\* The variables stay in their types: counters fit the nonce field, and the
\* peer list stays within WMESH_PEER_LIST_SIZE (peer.c:153).
TypeOK ==
  /\ phase \in [Device -> Phase]
  /\ ctr \in [Device -> [Address -> Ctr]]
  /\ nvs \in [Device -> [Address -> Ctr]]
  /\ known \in [Device -> SUBSET Address]
  /\ \A d \in Device : Cardinality(known[d]) <= PeerListSize
  /\ dirty \in [Device -> SUBSET Address]
  /\ todo \in [Device -> SUBSET Address]
  /\ staged \in [Device -> SUBSET Address]
  /\ services \in [Device -> SUBSET Service]
  /\ air \subseteq Datagram
  /\ sends \in [Device -> 0 .. MaxSends]
  /\ fresh \in [Device -> SUBSET Datagram]
  /\ saved \in [Device -> SUBSET Datagram]
  /\ clean \in [Device -> BOOLEAN]

\* The counter d will compare with, or count from, the next time it uses a's.
Level(d, a) ==
  IF a \in known[d] \/ (a = d /\ phase[d] \in {"up", "storing", "closing"})
  THEN ctr[d][a] ELSE nvs[d][a]

\* No receiver is ahead of a sender that kept its counter: whatever such a
\* sender sends next is new to every board that hears it, across the restarts
\* of either side (wmesh_stop's store and get_or_create's load agree).
PeerBehindSender ==
  \A d, s \in Device : clean[s] => Level(d, s) <= Level(s, s)

\* A sequence number identifies a packet, as wmesh.h:110 says, of a sender that
\* has kept its counter through every session.
UniqueSequence ==
  \A m1, m2 \in air :
    clean[m1.src] /\ m1.src = m2.src /\ m1.seq = m2.seq => m1 = m2

\* A peer that is not dirty need not be written: flash already has its counter
\* (wmesh_peer_store skips it, and a session's end then loses nothing of it).
CleanPeersAreStored ==
  \A d \in Device : \A p \in known[d] \ (dirty[d] \cup staged[d]) : ctr[d][p] = nvs[d][p]

\* What a session's variables look like in each phase.
SessionShape ==
  \A d \in Device :
    /\ d \notin known[d]
    /\ dirty[d] \subseteq known[d]
    /\ todo[d] \subseteq dirty[d]
    /\ staged[d] \subseteq known[d] \cup {d}
    /\ staged[d] \cap dirty[d] = {}
    /\ phase[d] \in {"off", "opening"} => known[d] = {}
    /\ phase[d] \in {"off", "opening", "up"} => staged[d] = {}
    /\ d \in staged[d] => phase[d] = "closing"

\* A receiver's counters are past everything it remembers having dispatched.
RememberedIsBehind ==
  \A d \in Device :
    /\ \A p \in known[d] : nvs[d][p] <= ctr[d][p]
    /\ \A m \in fresh[d] : m.src \in known[d] /\ m.seq <= ctr[d][m.src]
    /\ \A m \in saved[d] : m.src # d /\ m.seq <= nvs[d][m.src]

\* A clean sender numbers its datagrams 1, 2, 3, ... over all its sessions.
CleanSendersCount ==
  /\ \A m \in air : m.n <= sends[m.src] /\ (clean[m.src] => m.seq = m.n)
  /\ \A m1, m2 \in air : m1.src = m2.src /\ m1.n = m2.n => m1 = m2
  /\ \A d \in Device : fresh[d] \cup saved[d] \subseteq air
  /\ \A s \in Device : clean[s] =>
       /\ Level(s, s) = sends[s]
       /\ nvs[s][s] <= sends[s]
       /\ phase[s] = "closing" => s \in staged[s]
       /\ \A d \in Device \ {s} :
            /\ nvs[d][s] <= sends[s]
            /\ s \in known[d] => ctr[d][s] <= sends[s]

\* The inductive invariant from which the properties above and below follow:
\* what is in flash, what is in RAM and what is on the air agree at each step.
Consistent ==
  /\ SessionShape
  /\ CleanPeersAreStored
  /\ RememberedIsBehind
  /\ CleanSendersCount

\* Datagrams of a sender that kept its counter are dispatched in the order they
\* were sent, across restarts of the receiver too, as far as it remembers any.
InOrder ==
  [][\A d \in Device : \A m \in fresh'[d] \ fresh[d] :
       clean[m.src] => \A k \in fresh[d] \cup saved[d] : k.src = m.src => k.n < m.n]_vars

\* A counter in flash never goes back, whatever fails: neither a peer's, nor the
\* own counter of a board that never lost it.
StoredCountersGrow ==
  [][\A d \in Device, a \in Address :
       a # d \/ clean'[d] => nvs[d][a] <= nvs'[d][a]]_vars

\* The mesh implements at-most-once dispatch of remembered datagrams, with
\* power loss, panics, storage errors, and duplicated and late datagrams.
Delivery == INSTANCE MeshDelivery
DeliverySpec == Delivery!Spec

\* wmesh.h:110 without the proviso: a sequence number identifies a packet.
SequenceIdentifiesPacket ==
  \A m1, m2 \in air : m1.src = m2.src /\ m1.seq = m2.seq => m1 = m2
=============================================================================
