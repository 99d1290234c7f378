----------------------------- MODULE WMeshProofs -----------------------------
(***************************************************************************)
(* Proofs about WMesh for every set of boards, strangers and services,      *)
(* every counter width, peer list size and bound, with or without faults.   *)
(***************************************************************************)
EXTENDS WMesh, FiniteSetTheorems, TLAPS

\* The bound under which no counter wraps: a board sends fewer datagrams in its
\* life than there are sequence numbers.
NoWrap == MaxSends < CtrMod

-----------------------------------------------------------------------------
(* Type correctness.                                                        *)

\* Everything in TypeOK but the length of the peer list.
Typed ==
  /\ phase \in [Device -> Phase]
  /\ ctr \in [Device -> [Address -> Ctr]]
  /\ nvs \in [Device -> [Address -> Ctr]]
  /\ known \in [Device -> SUBSET Address]
  /\ dirty \in [Device -> SUBSET Address]
  /\ todo \in [Device -> SUBSET Address]
  /\ staged \in [Device -> SUBSET Address]
  /\ services \in [Device -> SUBSET Service]
  /\ air \subseteq Datagram
  /\ sends \in [Device -> 0 .. MaxSends]
  /\ fresh \in [Device -> SUBSET Datagram]
  /\ saved \in [Device -> SUBSET Datagram]
  /\ clean \in [Device -> BOOLEAN]

ListFits == \A d \in Device : Cardinality(known[d]) <= PeerListSize

\* A session's end keeps every variable in its type.
LEMMA EndSessionTyped ==
  ASSUME Typed, NEW d \in Device, NEW F \in SUBSET Address, EndSession(d, F),
         clean' \in [Device -> BOOLEAN]
  PROVE  Typed'
<1> USE WMeshAssumption DEF Typed
<1>1. 0 \in Ctr
  BY DEF Ctr
<1>2. ctr' \in [Device -> [Address -> Ctr]] /\ nvs' \in [Device -> [Address -> Ctr]]
  BY <1>1 DEF EndSession
<1>3. fresh' \in [Device -> SUBSET Datagram] /\ saved' \in [Device -> SUBSET Datagram]
  BY DEF EndSession
<1>4. phase' \in [Device -> Phase]
  BY DEF EndSession, Phase
<1>5. QED
  BY <1>2, <1>3, <1>4 DEF EndSession

LEMMA NextTyped ==
  ASSUME Typed, [Next]_vars
  PROVE  Typed'
<1> USE WMeshAssumption DEF Typed, history
<1>1. ASSUME NEW d \in Device, InitEspNow(d) PROVE Typed'
  BY <1>1 DEF InitEspNow, Phase
<1>2. ASSUME NEW d \in Device, InitHandle(d) PROVE Typed'
  <2>1. PICK readOk \in {TRUE, ~StorageErrors} :
          /\ ctr' = [ctr EXCEPT ![d][d] = IF readOk THEN nvs[d][d] ELSE 0]
          /\ clean' = [clean EXCEPT ![d] = @ /\ readOk]
    BY <1>2 DEF InitHandle
  <2>2. ctr' \in [Device -> [Address -> Ctr]]
    <3>1. d \in Address /\ 0 \in Ctr
      BY DEF Address, Ctr
    <3>2. (IF readOk THEN nvs[d][d] ELSE 0) \in Ctr
      BY <3>1
    <3>3. QED
      BY <2>1, <3>1, <3>2
  <2>3. clean' \in [Device -> BOOLEAN]
    BY <2>1
  <2>4. QED
    BY <1>2, <2>2, <2>3 DEF InitHandle, Phase
<1>3. ASSUME NEW d \in Device, NEW svc \in Service, RegisterService(d, svc) PROVE Typed'
  BY <1>3 DEF RegisterService
<1>4. ASSUME NEW d \in Device, NEW svc \in Service, Send(d, svc) PROVE Typed'
  <2>1. NextSeq(d) \in Ctr /\ d \in Address
    BY DEF NextSeq, Ctr, Address
  <2>2. sends[d] + 1 \in 1 .. MaxSends
    BY <1>4 DEF Send
  <2>3. [src |-> d, seq |-> NextSeq(d), n |-> sends[d] + 1, svc |-> svc] \in Datagram
    BY <2>1, <2>2 DEF Datagram
  <2>4. sends' \in [Device -> 0 .. MaxSends]
    BY <1>4, <2>2 DEF Send
  <2>5. QED
    BY <1>4, <2>1, <2>3, <2>4 DEF Send
<1>5. ASSUME NEW d \in Device, StopBegin(d) PROVE Typed'
  BY <1>5 DEF StopBegin, Phase
<1>6. ASSUME NEW d \in Device, NEW p \in Address, StorePeer(d, p) PROVE Typed'
  <2>1. /\ staged' \in [Device -> SUBSET Address]
        /\ dirty' \in [Device -> SUBSET Address]
    <3>1. CASE /\ staged' = [staged EXCEPT ![d] = @ \cup {p}]
               /\ dirty' = [dirty EXCEPT ![d] = @ \ {p}]
      BY <3>1
    <3>2. CASE UNCHANGED <<staged, dirty>>
      BY <3>2
    <3>3. QED
      BY <1>6, <3>1, <3>2 DEF StorePeer
  <2>2. todo' \in [Device -> SUBSET Address]
    BY <1>6 DEF StorePeer
  <2>3. QED
    BY <1>6, <2>1, <2>2 DEF StorePeer
<1>7. ASSUME NEW d \in Device, StoreSelf(d) PROVE Typed'
  <2>1. d \in Address
    BY DEF Address
  <2>2. staged' \in [Device -> SUBSET Address]
    <3>1. staged' = [staged EXCEPT ![d] = @ \cup {d}] \/ staged' = staged
      BY <1>7 DEF StoreSelf
    <3>2. staged[d] \cup {d} \in SUBSET Address
      BY <2>1
    <3>3. QED
      BY <3>1, <3>2
  <2>3. clean' \in [Device -> BOOLEAN]
    BY <1>7 DEF StoreSelf
  <2>4. phase' \in [Device -> Phase]
    BY <1>7 DEF StoreSelf, Phase
  <2>5. QED
    BY <1>7, <2>2, <2>3, <2>4 DEF StoreSelf
<1>8. ASSUME NEW d \in Device, Close(d) PROVE Typed'
  BY <1>8, EndSessionTyped DEF Close
<1>9. ASSUME NEW d \in Device, Restart(d) PROVE Typed'
  <2>1. PICK F \in SUBSET staged[d] : EndSession(d, F)
    BY <1>9 DEF Restart
  <2>2. clean' \in [Device -> BOOLEAN]
    BY <1>9 DEF Restart
  <2>3. QED
    BY <2>1, <2>2, EndSessionTyped
<1>10. ASSUME NEW d \in Device, NEW m \in air, Receive(d, m) PROVE Typed'
  <2>1. m.src \in Address /\ m.seq \in Ctr /\ m \in Datagram
    BY DEF Datagram, Address
  <2>2. PeerCtr(d, m.src) \in Ctr
    BY <2>1 DEF PeerCtr
  <2>3. known' \in [Device -> SUBSET Address]
    BY <1>10, <2>1 DEF Receive
  <2>4. CASE /\ ctr' = [ctr EXCEPT ![d][m.src] = m.seq]
             /\ dirty' = [dirty EXCEPT ![d] = @ \cup {m.src}]
             /\ fresh' = [fresh EXCEPT ![d] =
                            IF m.svc \in services[d] THEN @ \cup {m} ELSE @]
    <3>1. fresh' \in [Device -> SUBSET Datagram]
      BY <2>1, <2>4
    <3>2. ctr' \in [Device -> [Address -> Ctr]] /\ dirty' \in [Device -> SUBSET Address]
      BY <2>1, <2>4
    <3>3. QED
      BY <1>10, <2>3, <3>1, <3>2 DEF Receive
  <2>5. CASE /\ ctr' = [ctr EXCEPT ![d][m.src] = PeerCtr(d, m.src)]
             /\ UNCHANGED <<dirty, fresh>>
    <3>1. ctr' \in [Device -> [Address -> Ctr]]
      BY <2>1, <2>2, <2>5
    <3>2. QED
      BY <1>10, <2>3, <2>5, <3>1 DEF Receive
  <2>6. QED
    BY <1>10, <2>4, <2>5 DEF Receive
<1>11. ASSUME NEW d \in Device, NEW a \in Address, ReceiveForeign(d, a) PROVE Typed'
  <2>1. PeerCtr(d, a) \in Ctr
    BY DEF PeerCtr
  <2>2. QED
    BY <1>11, <2>1 DEF ReceiveForeign
<1>12. CASE UNCHANGED vars
  BY <1>12 DEF vars
<1>13. QED
  BY <1>1, <1>2, <1>3, <1>4, <1>5, <1>6, <1>7, <1>8, <1>9, <1>10, <1>11, <1>12
     DEF Next, Main, WiFi, LosePower, InitFails, ReceivePanics

\* An entry is added only when there is room (wmesh_peer_list_add).
LEMMA NextListFits ==
  ASSUME Typed, ListFits, [Next]_vars
  PROVE  ListFits'
<1> USE WMeshAssumption DEF ListFits
<1>1. ASSUME NEW d \in Device, NEW a \in Address, HasPeer(d, a),
             known' = [known EXCEPT ![d] = @ \cup {a}]
      PROVE  ListFits'
  <2>1. IsFiniteSet(known[d])
    BY FS_Subset DEF Typed
  <2>2. Cardinality(known[d]) \in Nat
    BY <2>1, FS_CardinalityType
  <2>3. Cardinality(known[d] \cup {a}) =
          IF a \in known[d] THEN Cardinality(known[d]) ELSE Cardinality(known[d]) + 1
    BY <2>1, FS_AddElement
  <2>4. Cardinality(known[d] \cup {a}) <= PeerListSize
    BY <1>1, <2>2, <2>3 DEF HasPeer
  <2>5. QED
    BY <1>1, <2>4 DEF Typed
<1>2. ASSUME NEW d \in Device, NEW F, EndSession(d, F) PROVE ListFits'
  <2>1. known' = [known EXCEPT ![d] = {}]
    BY <1>2 DEF EndSession
  <2>2. QED
    BY <2>1, FS_EmptySet DEF Typed
<1>3. CASE UNCHANGED known
  BY <1>3
<1>4. ASSUME NEW d \in Device, NEW m \in air, Receive(d, m) PROVE ListFits'
  <2>1. m.src \in Address
    BY DEF Typed, Datagram, Address
  <2>2. QED
    BY <1>1, <1>4, <2>1 DEF Receive
<1>5. ASSUME NEW d \in Device, NEW a \in Address, ReceiveForeign(d, a) PROVE ListFits'
  BY <1>1, <1>5 DEF ReceiveForeign
<1>6. ASSUME NEW d \in Device, Close(d) \/ Restart(d) PROVE ListFits'
  BY <1>2, <1>6 DEF Close, Restart
<1>7. QED
  BY <1>3, <1>4, <1>5, <1>6
     DEF Next, Main, WiFi, LosePower, InitFails, ReceivePanics, InitEspNow, InitHandle,
         RegisterService, Send, StopBegin, StorePeer, StoreSelf, vars

\* Counters fit the nonce field and the peer list its array, whatever arrives.
THEOREM TypeCorrect == Spec => []TypeOK
<1>1. Init => Typed /\ ListFits
  <2> USE WMeshAssumption
  <2>1. 0 \in Ctr /\ 0 \in 0 .. MaxSends
    BY DEF Ctr
  <2>2. QED
    BY <2>1, FS_EmptySet DEF Init, Typed, ListFits, Phase
<1>2. Typed /\ ListFits /\ [Next]_vars => Typed' /\ ListFits'
  BY NextTyped, NextListFits
<1>3. Typed /\ ListFits => TypeOK
  BY DEF Typed, ListFits, TypeOK
<1>4. QED
  BY <1>1, <1>2, <1>3, PTL DEF Spec

-----------------------------------------------------------------------------
(* The inductive invariant.                                                 *)

LEMMA ShapePreserved ==
  ASSUME Typed, SessionShape, [Next]_vars
  PROVE  SessionShape'
<1> USE DEF Typed, SessionShape, history
<1>1. ASSUME NEW d \in Device, InitEspNow(d) PROVE SessionShape'
  BY <1>1 DEF InitEspNow
<1>2. ASSUME NEW d \in Device, InitHandle(d) PROVE SessionShape'
  BY <1>2 DEF InitHandle
<1>3. ASSUME NEW d \in Device, NEW svc \in Service, RegisterService(d, svc)
      PROVE  SessionShape'
  BY <1>3 DEF RegisterService
<1>4. ASSUME NEW d \in Device, NEW svc \in Service, Send(d, svc) PROVE SessionShape'
  BY <1>4 DEF Send
<1>5. ASSUME NEW d \in Device, StopBegin(d) PROVE SessionShape'
  BY <1>5 DEF StopBegin
<1>6. ASSUME NEW d \in Device, NEW p \in Address, StorePeer(d, p) PROVE SessionShape'
  <2>1. CASE /\ staged' = [staged EXCEPT ![d] = @ \cup {p}]
             /\ dirty' = [dirty EXCEPT ![d] = @ \ {p}]
    BY <1>6, <2>1 DEF StorePeer
  <2>2. CASE UNCHANGED <<staged, dirty>>
    BY <1>6, <2>2 DEF StorePeer
  <2>3. QED
    BY <1>6, <2>1, <2>2 DEF StorePeer
<1>7. ASSUME NEW d \in Device, StoreSelf(d) PROVE SessionShape'
  <2>1. CASE staged' = [staged EXCEPT ![d] = @ \cup {d}]
    BY <1>7, <2>1 DEF StoreSelf
  <2>2. CASE UNCHANGED staged
    BY <1>7, <2>2 DEF StoreSelf
  <2>3. QED
    BY <1>7, <2>1, <2>2 DEF StoreSelf
<1>8. ASSUME NEW d \in Device, NEW F, EndSession(d, F) PROVE SessionShape'
  BY <1>8 DEF EndSession
<1>9. ASSUME NEW d \in Device, NEW m \in air, Receive(d, m) PROVE SessionShape'
  <2>1. CASE dirty' = [dirty EXCEPT ![d] = @ \cup {m.src}]
    BY <1>9, <2>1 DEF Receive
  <2>2. CASE UNCHANGED dirty
    BY <1>9, <2>2 DEF Receive
  <2>3. QED
    BY <1>9, <2>1, <2>2 DEF Receive
<1>10. ASSUME NEW d \in Device, NEW a \in Address, ReceiveForeign(d, a)
       PROVE  SessionShape'
  BY <1>10 DEF ReceiveForeign
<1>11. CASE UNCHANGED vars
  BY <1>11 DEF vars
<1>12. QED
  BY <1>1, <1>2, <1>3, <1>4, <1>5, <1>6, <1>7, <1>8, <1>9, <1>10, <1>11
     DEF Next, Main, WiFi, LosePower, InitFails, ReceivePanics, Close, Restart

LEMMA StoredPreserved ==
  ASSUME Typed, SessionShape, CleanPeersAreStored, [Next]_vars
  PROVE  CleanPeersAreStored'
<1> USE DEF Typed, SessionShape, CleanPeersAreStored, history
<1>1. ASSUME NEW d \in Device, InitEspNow(d) PROVE CleanPeersAreStored'
  BY <1>1 DEF InitEspNow
<1>2. ASSUME NEW d \in Device, InitHandle(d) PROVE CleanPeersAreStored'
  BY <1>2 DEF InitHandle
<1>3. ASSUME NEW d \in Device, NEW svc \in Service, RegisterService(d, svc)
      PROVE  CleanPeersAreStored'
  BY <1>3 DEF RegisterService
<1>4. ASSUME NEW d \in Device, NEW svc \in Service, Send(d, svc)
      PROVE  CleanPeersAreStored'
  BY <1>4 DEF Send
<1>5. ASSUME NEW d \in Device, StopBegin(d) PROVE CleanPeersAreStored'
  BY <1>5 DEF StopBegin
<1>6. ASSUME NEW d \in Device, NEW p \in Address, StorePeer(d, p)
      PROVE  CleanPeersAreStored'
  <2>1. CASE /\ staged' = [staged EXCEPT ![d] = @ \cup {p}]
             /\ dirty' = [dirty EXCEPT ![d] = @ \ {p}]
    BY <1>6, <2>1 DEF StorePeer
  <2>2. CASE UNCHANGED <<staged, dirty>>
    BY <1>6, <2>2 DEF StorePeer
  <2>3. QED
    BY <1>6, <2>1, <2>2 DEF StorePeer
<1>7. ASSUME NEW d \in Device, StoreSelf(d) PROVE CleanPeersAreStored'
  <2>1. CASE staged' = [staged EXCEPT ![d] = @ \cup {d}]
    BY <1>7, <2>1 DEF StoreSelf
  <2>2. CASE UNCHANGED staged
    BY <1>7, <2>2 DEF StoreSelf
  <2>3. QED
    BY <1>7, <2>1, <2>2 DEF StoreSelf
<1>8. ASSUME NEW d \in Device, NEW F, EndSession(d, F) PROVE CleanPeersAreStored'
  BY <1>8 DEF EndSession
<1>9. ASSUME NEW d \in Device, NEW m \in air, Receive(d, m)
      PROVE  CleanPeersAreStored'
  <2>1. m.src \in Address
    BY DEF Datagram, Address
  <2>2. CASE /\ ctr' = [ctr EXCEPT ![d][m.src] = m.seq]
             /\ dirty' = [dirty EXCEPT ![d] = @ \cup {m.src}]
    BY <1>9, <2>1, <2>2 DEF Receive
  <2>3. CASE /\ ctr' = [ctr EXCEPT ![d][m.src] = PeerCtr(d, m.src)]
             /\ UNCHANGED dirty
    BY <1>9, <2>1, <2>3 DEF Receive, PeerCtr
  <2>4. QED
    BY <1>9, <2>2, <2>3 DEF Receive
<1>10. ASSUME NEW d \in Device, NEW a \in Address, ReceiveForeign(d, a)
       PROVE  CleanPeersAreStored'
  BY <1>10 DEF ReceiveForeign, PeerCtr
<1>11. CASE UNCHANGED vars
  BY <1>11 DEF vars
<1>12. QED
  BY <1>1, <1>2, <1>3, <1>4, <1>5, <1>6, <1>7, <1>8, <1>9, <1>10, <1>11
     DEF Next, Main, WiFi, LosePower, InitFails, ReceivePanics, Close, Restart

\* The steps that leave what a receiver remembers and its peers' counters alone.
LEMMA RememberedUntouched ==
  ASSUME Typed, SessionShape, RememberedIsBehind, UNCHANGED <<known, nvs, fresh, saved>>,
         \A d \in Device : \A p \in known[d] : ctr'[d][p] = ctr[d][p]
  PROVE  RememberedIsBehind'
BY DEF RememberedIsBehind

LEMMA RememberedPreserved ==
  ASSUME Typed, SessionShape, CleanPeersAreStored, RememberedIsBehind, [Next]_vars
  PROVE  RememberedIsBehind'
<1> USE DEF Typed, SessionShape, history
<1>1. ASSUME NEW d \in Device, InitHandle(d) PROVE RememberedIsBehind'
  BY <1>1, RememberedUntouched DEF InitHandle
<1>2. ASSUME NEW d \in Device, NEW svc \in Service, Send(d, svc)
      PROVE  RememberedIsBehind'
  BY <1>2, RememberedUntouched DEF Send
<1>3. ASSUME NEW d \in Device, NEW F \in SUBSET staged[d], EndSession(d, F)
      PROVE  RememberedIsBehind'
  <2> DEFINE kept == {m \in fresh[d] : m.src \in F}
  <2>1. saved' = [saved EXCEPT ![d] = @ \cup kept] /\ fresh' = [fresh EXCEPT ![d] = {}]
        /\ known' = [known EXCEPT ![d] = {}]
    BY <1>3 DEF EndSession
  <2>2. \A a \in Address : nvs'[d][a] = IF a \in F THEN ctr[d][a] ELSE nvs[d][a]
    BY <1>3 DEF EndSession
  <2>3. \A e \in Device \ {d} : ctr'[e] = ctr[e] /\ nvs'[e] = nvs[e]
    BY <1>3 DEF EndSession
  <2>4. ASSUME NEW m \in saved'[d] PROVE m.src # d /\ m.seq <= nvs'[d][m.src]
    <3>1. m \in Datagram /\ m.src \in Address /\ m.seq \in Nat
      BY <2>1 DEF Datagram, Address, Ctr
    <3>2. CASE m \in kept
      BY <2>2, <3>1, <3>2 DEF RememberedIsBehind
    <3>3. CASE m \in saved[d]
      <4>1. m.src # d /\ m.seq <= nvs[d][m.src]
        BY <3>3 DEF RememberedIsBehind
      <4>2. m.src \in F => nvs[d][m.src] <= ctr[d][m.src]
        BY <4>1 DEF RememberedIsBehind
      <4>3. nvs[d][m.src] \in Nat /\ ctr[d][m.src] \in Nat
        BY <3>1 DEF Ctr
      <4>4. QED
        BY <2>2, <3>1, <4>1, <4>2, <4>3
    <3>4. QED
      BY <2>1, <3>2, <3>3
  <2>5. QED
    BY <2>1, <2>3, <2>4 DEF RememberedIsBehind
<1>4. ASSUME NEW d \in Device, NEW m \in air, Receive(d, m)
      PROVE  RememberedIsBehind'
  <2> DEFINE c == PeerCtr(d, m.src)
  <2>1. m \in Datagram /\ m.src \in Address /\ m.seq \in Nat
    BY DEF Datagram, Address, Ctr
  <2>2. c \in Nat /\ nvs[d][m.src] \in Nat /\ nvs[d][m.src] <= c
    BY <2>1 DEF PeerCtr, RememberedIsBehind, Ctr
  <2>3. m.src # d /\ UNCHANGED <<nvs, saved>> /\ known' = [known EXCEPT ![d] = @ \cup {m.src}]
    BY <1>4 DEF Receive
  <2>4. CASE /\ c < m.seq
             /\ ctr' = [ctr EXCEPT ![d][m.src] = m.seq]
             /\ fresh' = [fresh EXCEPT ![d] =
                            IF m.svc \in services[d] THEN @ \cup {m} ELSE @]
    <3>1. ASSUME NEW k \in fresh'[d] PROVE k.src \in known'[d] /\ k.seq <= ctr'[d][k.src]
      <4>1. CASE k = m
        BY <2>1, <2>3, <2>4, <4>1
      <4>2. CASE k \in fresh[d]
        <5>1. k.src \in known[d] /\ k.seq <= ctr[d][k.src] /\ k.seq \in Nat
          BY <4>2 DEF RememberedIsBehind, Datagram, Ctr
        <5>2. k.src = m.src => ctr[d][k.src] = c
          BY <5>1 DEF PeerCtr
        <5>3. QED
          BY <2>1, <2>2, <2>3, <2>4, <5>1, <5>2
      <4>3. QED
        BY <2>4, <4>1, <4>2
    <3>2. ASSUME NEW p \in known'[d] PROVE nvs'[d][p] <= ctr'[d][p]
      BY <2>1, <2>2, <2>3, <2>4 DEF RememberedIsBehind
    <3>3. \A e \in Device \ {d} : fresh'[e] = fresh[e] /\ ctr'[e] = ctr[e] /\ known'[e] = known[e]
      BY <2>3, <2>4
    <3>4. QED
      BY <2>3, <3>1, <3>2, <3>3 DEF RememberedIsBehind
  <2>5. CASE /\ ctr' = [ctr EXCEPT ![d][m.src] = c]
             /\ UNCHANGED fresh
    <3>1. \A p \in known[d] : ctr'[d][p] = ctr[d][p]
      BY <2>5 DEF PeerCtr
    <3>2. ctr'[d][m.src] = c /\ \A e \in Device \ {d} : ctr'[e] = ctr[e]
      BY <2>1, <2>5
    <3>3. QED
      BY <2>2, <2>3, <2>5, <3>1, <3>2 DEF RememberedIsBehind
  <2>6. QED
    BY <1>4, <2>4, <2>5 DEF Receive, IsNew
<1>5. ASSUME NEW d \in Device, NEW a \in Address, ReceiveForeign(d, a)
      PROVE  RememberedIsBehind'
  <2>1. \A p \in known[d] : ctr'[d][p] = ctr[d][p]
    BY <1>5 DEF ReceiveForeign, PeerCtr
  <2>2. \A e \in Device \ {d} : ctr'[e] = ctr[e] /\ known'[e] = known[e]
    BY <1>5 DEF ReceiveForeign
  <2>3. nvs[d][a] \in Nat /\ nvs[d][a] <= ctr'[d][a]
    BY <1>5 DEF ReceiveForeign, PeerCtr, RememberedIsBehind, Ctr
  <2>4. QED
    BY <1>5, <2>1, <2>2, <2>3 DEF ReceiveForeign, RememberedIsBehind
<1>6. CASE UNCHANGED <<known, nvs, fresh, saved, ctr>>
  BY <1>6, RememberedUntouched
<1>7. QED
  BY <1>1, <1>2, <1>3, <1>4, <1>5, <1>6
     DEF Next, Main, WiFi, LosePower, InitFails, ReceivePanics, Close, Restart, InitEspNow,
         RegisterService, StopBegin, StorePeer, StoreSelf, vars

\* The own counter of a clean board: what Level says of it, phase by phase.
OwnCounter(d) ==
  IF phase[d] \in {"up", "storing", "closing"} THEN ctr[d][d] ELSE nvs[d][d]

\* The part of CleanSendersCount about the air, and the part about one sender.
AirNumbered ==
  /\ \A m \in air : m.n <= sends[m.src] /\ (clean[m.src] => m.seq = m.n)
  /\ \A m1, m2 \in air : m1.src = m2.src /\ m1.n = m2.n => m1 = m2
  /\ \A d \in Device : fresh[d] \cup saved[d] \subseteq air

SenderCounts(s) ==
  clean[s] =>
    /\ OwnCounter(s) = sends[s]
    /\ nvs[s][s] <= sends[s]
    /\ phase[s] = "closing" => s \in staged[s]
    /\ \A d \in Device \ {s} :
         /\ nvs[d][s] <= sends[s]
         /\ s \in known[d] => ctr[d][s] <= sends[s]

LEMMA ModSmall ==
  ASSUME NEW a \in Nat, NEW b \in Nat, a < b
  PROVE  a % b = a
OBVIOUS

LEMMA CountsSplit ==
  SessionShape => (CleanSendersCount <=> AirNumbered /\ \A s \in Device : SenderCounts(s))
BY DEF SessionShape, CleanSendersCount, AirNumbered, SenderCounts, OwnCounter, Level

LEMMA AirPreserved ==
  ASSUME Typed, SessionShape, NoWrap, AirNumbered, \A s \in Device : SenderCounts(s),
         [Next]_vars
  PROVE  AirNumbered'
<1> USE WMeshAssumption DEF Typed, history
<1>1. ASSUME NEW d \in Device, NEW svc \in Service, Send(d, svc) PROVE AirNumbered'
  <2> DEFINE new == [src |-> d, seq |-> NextSeq(d), n |-> sends[d] + 1, svc |-> svc]
  <2>1. /\ air' = air \cup {new} /\ sends' = [sends EXCEPT ![d] = @ + 1]
        /\ UNCHANGED <<fresh, saved, clean>> /\ phase[d] = "up" /\ sends[d] < MaxSends
    BY <1>1 DEF Send
  <2>2. \A m \in air : m.n <= sends[m.src] /\ m.n \in Nat /\ m.src \in Device
    BY DEF AirNumbered, Datagram
  <2>3. clean[d] => new.seq = new.n
    <3>1. SUFFICES ASSUME clean[d] PROVE NextSeq(d) = sends[d] + 1
      OBVIOUS
    <3>2. ctr[d][d] = sends[d]
      BY <2>1, <3>1 DEF SenderCounts, OwnCounter
    <3>3. sends[d] + 1 \in Nat /\ CtrMod \in Nat /\ sends[d] + 1 < CtrMod
      BY <2>1 DEF NoWrap
    <3>4. (sends[d] + 1) % CtrMod = sends[d] + 1
      BY <3>3, ModSmall
    <3>5. QED
      BY <3>2, <3>4 DEF NextSeq
  <2>4. \A m \in air' : m.n <= sends'[m.src] /\ (clean'[m.src] => m.seq = m.n)
    BY <2>1, <2>2, <2>3 DEF AirNumbered
  <2>5. \A m1, m2 \in air' : m1.src = m2.src /\ m1.n = m2.n => m1 = m2
    <3>1. \A m \in air : m.src = d => m.n # new.n
      BY <2>2
    <3>2. QED
      BY <2>1, <3>1 DEF AirNumbered
  <2>6. QED
    BY <2>1, <2>4, <2>5 DEF AirNumbered
<1>2. ASSUME NEW d \in Device, NEW m \in air, Receive(d, m) PROVE AirNumbered'
  <2>1. UNCHANGED <<air, sends, saved, clean>>
    BY <1>2 DEF Receive
  <2>2. \A e \in Device : fresh'[e] \subseteq fresh[e] \cup {m}
    <3>1. CASE fresh' = [fresh EXCEPT ![d] = IF m.svc \in services[d] THEN @ \cup {m} ELSE @]
      BY <3>1
    <3>2. CASE UNCHANGED fresh
      BY <3>2
    <3>3. QED
      BY <1>2, <3>1, <3>2 DEF Receive
  <2>3. QED
    BY <2>1, <2>2 DEF AirNumbered
<1>3. ASSUME NEW d \in Device, NEW F, EndSession(d, F),
             \A s \in Device : clean'[s] => clean[s]
      PROVE  AirNumbered'
  <2>1. UNCHANGED <<air, sends>>
    BY <1>3 DEF EndSession
  <2>2. \A e \in Device : fresh'[e] \cup saved'[e] \subseteq fresh[e] \cup saved[e]
    BY <1>3 DEF EndSession
  <2>3. \A m \in air : m.src \in Device
    BY DEF Datagram
  <2>4. QED
    BY <1>3, <2>1, <2>2, <2>3 DEF AirNumbered
<1>4. ASSUME UNCHANGED <<air, sends, fresh, saved>>,
             \A s \in Device : clean'[s] => clean[s]
      PROVE  AirNumbered'
  <2>1. \A m \in air : m.src \in Device
    BY DEF Datagram
  <2>2. QED
    BY <1>4, <2>1 DEF AirNumbered
<1>5. ASSUME NEW d \in Device, InitHandle(d) \/ StoreSelf(d) \/ Close(d) \/ Restart(d)
      PROVE  \A s \in Device : clean'[s] => clean[s]
  BY <1>5 DEF InitHandle, StoreSelf, Close, Restart
<1>6. ASSUME NEW d \in Device, Close(d) \/ Restart(d) PROVE AirNumbered'
  BY <1>3, <1>5, <1>6 DEF Close, Restart
<1>7. ASSUME NEW d \in Device, InitHandle(d) \/ StoreSelf(d) PROVE AirNumbered'
  BY <1>4, <1>5, <1>7 DEF InitHandle, StoreSelf
<1>8. CASE UNCHANGED <<air, sends, fresh, saved, clean>>
  BY <1>4, <1>8
<1>9. QED
  BY <1>1, <1>2, <1>6, <1>7, <1>8
     DEF Next, Main, WiFi, LosePower, InitFails, ReceivePanics, InitEspNow, RegisterService,
         StopBegin, StorePeer, ReceiveForeign, vars

LEMMA SenderPreserved ==
  ASSUME Typed, SessionShape, NoWrap, AirNumbered, \A s \in Device : SenderCounts(s),
         [Next]_vars, NEW s \in Device
  PROVE  SenderCounts(s)'
<1> USE WMeshAssumption DEF Typed, history
<1>0. s \in Address /\ \A d \in Device : ctr[d][s] \in Nat /\ nvs[d][s] \in Nat /\ sends[d] \in Nat
  BY DEF Address, Ctr
<1>1. ASSUME NEW d \in Device, InitEspNow(d) PROVE SenderCounts(s)'
  BY <1>1 DEF InitEspNow, SenderCounts, OwnCounter
<1>2. ASSUME NEW d \in Device, InitHandle(d) PROVE SenderCounts(s)'
  <2>1. CASE d = s /\ clean'[s]
    <3>1. clean[s] /\ ctr'[s][s] = nvs[s][s]
      <4>1. PICK readOk \in {TRUE, ~StorageErrors} :
              /\ ctr' = [ctr EXCEPT ![d][d] = IF readOk THEN nvs[d][d] ELSE 0]
              /\ clean' = [clean EXCEPT ![d] = @ /\ readOk]
        BY <1>2 DEF InitHandle
      <4>2. clean'[d] = (clean[d] /\ readOk)
        BY <4>1
      <4>3. clean[d] /\ readOk
        BY <2>1, <4>2
      <4>4. ctr' = [ctr EXCEPT ![d][d] = nvs[d][d]]
        BY <4>1, <4>3
      <4>5. QED
        BY <1>0, <2>1, <4>3, <4>4
    <3>2. OwnCounter(s) = nvs[s][s]
      BY <1>2, <2>1 DEF InitHandle, OwnCounter
    <3>3. \A e \in Device \ {s} : ctr'[e] = ctr[e]
      BY <1>2, <2>1 DEF InitHandle
    <3>4. phase'[s] = "up"
      BY <1>2, <2>1 DEF InitHandle
    <3>5. UNCHANGED <<nvs, sends, known, staged>>
      BY <1>2 DEF InitHandle
    <3>6. QED
      BY <3>1, <3>2, <3>3, <3>4, <3>5 DEF SenderCounts, OwnCounter
  <2>2. CASE d # s
    <3>1. ctr'[d][s] = ctr[d][s] /\ \A e \in Device \ {d} : ctr'[e] = ctr[e]
      BY <1>2, <2>2 DEF InitHandle
    <3>2. UNCHANGED <<nvs, sends, known, staged>> /\ phase'[s] = phase[s] /\ clean'[s] = clean[s]
      BY <1>2, <2>2 DEF InitHandle
    <3>3. QED
      BY <2>2, <3>1, <3>2 DEF SenderCounts, OwnCounter
  <2>3. QED
    BY <2>1, <2>2 DEF SenderCounts
<1>3. ASSUME NEW d \in Device, NEW svc \in Service, Send(d, svc) PROVE SenderCounts(s)'
  <2>1. UNCHANGED <<phase, known, nvs, staged, clean>> /\ phase[d] = "up" /\ sends[d] < MaxSends
    BY <1>3 DEF Send
  <2>2. CASE d = s /\ clean[s]
    <3>1. ctr[s][s] = sends[s]
      BY <2>1, <2>2 DEF SenderCounts, OwnCounter
    <3>2. sends[s] + 1 \in Nat /\ CtrMod \in Nat /\ sends[s] + 1 < CtrMod
      BY <1>0, <2>1, <2>2 DEF NoWrap
    <3>3. (sends[s] + 1) % CtrMod = sends[s] + 1
      BY <3>2, ModSmall
    <3>4. ctr'[s][s] = sends[s] + 1 /\ sends'[s] = sends[s] + 1
      BY <1>0, <1>3, <2>2, <3>1, <3>3 DEF Send, NextSeq
    <3>5. \A e \in Device \ {s} : ctr'[e] = ctr[e]
      BY <1>3, <2>2 DEF Send
    <3>6. QED
      BY <1>0, <2>1, <2>2, <3>4, <3>5 DEF SenderCounts, OwnCounter
  <2>3. CASE d # s
    <3>1. ctr'[d][s] = ctr[d][s] /\ sends'[s] = sends[s] /\ \A e \in Device \ {d} : ctr'[e] = ctr[e]
      BY <1>3, <2>3 DEF Send
    <3>2. QED
      BY <2>1, <2>3, <3>1 DEF SenderCounts, OwnCounter
  <2>4. QED
    BY <2>1, <2>2, <2>3 DEF SenderCounts
<1>4. ASSUME NEW d \in Device, StopBegin(d) PROVE SenderCounts(s)'
  BY <1>4 DEF StopBegin, SenderCounts, OwnCounter
<1>5. ASSUME NEW d \in Device, NEW p \in Address, StorePeer(d, p) PROVE SenderCounts(s)'
  <2>1. s \in staged[s] => s \in staged'[s]
    BY <1>5 DEF StorePeer
  <2>2. QED
    BY <1>5, <2>1 DEF StorePeer, SenderCounts, OwnCounter
<1>6. ASSUME NEW d \in Device, StoreSelf(d) PROVE SenderCounts(s)'
  <2>1. UNCHANGED <<ctr, known, nvs, sends>>
    BY <1>6 DEF StoreSelf
  <2>2. clean'[s] => clean[s]
    BY <1>6 DEF StoreSelf
  <2>3. clean'[s] /\ phase'[s] = "closing" => s \in staged'[s]
    <3>1. CASE staged' = [staged EXCEPT ![d] = @ \cup {d}] /\ UNCHANGED clean
      BY <1>6, <3>1 DEF StoreSelf, SenderCounts
    <3>2. CASE clean' = [clean EXCEPT ![d] = FALSE] /\ UNCHANGED staged
      BY <1>6, <3>2 DEF StoreSelf, SenderCounts
    <3>3. QED
      BY <1>6, <3>1, <3>2 DEF StoreSelf
  <2>4. OwnCounter(s)' = OwnCounter(s)
    BY <1>6, <2>1 DEF StoreSelf, OwnCounter
  <2>5. QED
    BY <2>1, <2>2, <2>3, <2>4 DEF SenderCounts
<1>7. ASSUME NEW d \in Device, NEW F \in SUBSET staged[d], EndSession(d, F),
             clean'[s] => clean[s],
             clean'[d] => s \in F \/ d # s \/ phase[d] \in {"off", "opening"}
      PROVE  SenderCounts(s)'
  <2>1. /\ UNCHANGED sends
        /\ known'[d] = {} /\ phase'[d] = "off"
        /\ \A e \in Device \ {d} : /\ known'[e] = known[e] /\ ctr'[e] = ctr[e]
                                   /\ nvs'[e] = nvs[e] /\ phase'[e] = phase[e]
                                   /\ staged'[e] = staged[e]
        /\ nvs'[d][s] = IF s \in F THEN ctr[d][s] ELSE nvs[d][s]
    BY <1>0, <1>7 DEF EndSession
  <2>2. SUFFICES ASSUME clean'[s] PROVE SenderCounts(s)'
    BY DEF SenderCounts
  <2>3. clean[s] /\ SenderCounts(s)
    BY <1>7, <2>2
  <2>4. CASE d = s
    <3>1. nvs'[s][s] = sends[s]
      <4>1. CASE s \in F
        <5>1. phase[s] = "closing"
          BY <2>4, <4>1 DEF SessionShape
        <5>2. QED
          BY <2>1, <2>3, <2>4, <4>1, <5>1 DEF SenderCounts, OwnCounter
      <4>2. CASE s \notin F /\ phase[s] \in {"off", "opening"}
        BY <2>1, <2>3, <2>4, <4>2 DEF SenderCounts, OwnCounter
      <4>3. QED
        BY <1>7, <2>2, <2>4, <4>1, <4>2
    <3>2. QED
      BY <1>0, <2>1, <2>3, <2>4, <3>1 DEF SenderCounts, OwnCounter
  <2>5. CASE d # s
    <3>1. s \in F => s \in known[d]
      BY <2>5 DEF SessionShape
    <3>2. nvs'[d][s] <= sends[s]
      BY <2>1, <2>3, <2>5, <3>1 DEF SenderCounts
    <3>3. QED
      BY <2>1, <2>3, <2>5, <3>2 DEF SenderCounts, OwnCounter
  <2>6. QED
    BY <2>4, <2>5
<1>8. ASSUME NEW d \in Device, Close(d) PROVE SenderCounts(s)'
  <2>1. clean'[s] => clean[s]
    BY <1>8 DEF Close
  <2>2. clean'[d] => s \in staged[d] \/ d # s
    BY <1>8 DEF Close, SenderCounts
  <2>3. QED
    BY <1>7, <1>8, <2>1, <2>2 DEF Close
<1>9. ASSUME NEW d \in Device, Restart(d) PROVE SenderCounts(s)'
  <2>1. clean'[s] => clean[s]
    BY <1>9 DEF Restart
  <2>2. clean'[d] => phase[d] = "opening"
    BY <1>9 DEF Restart
  <2>3. PICK F \in SUBSET staged[d] : EndSession(d, F)
    BY <1>9 DEF Restart
  <2>4. QED
    BY <1>7, <2>1, <2>2, <2>3
<1>10. ASSUME NEW d \in Device, NEW m \in air, Receive(d, m) PROVE SenderCounts(s)'
  <2>1. /\ UNCHANGED <<phase, nvs, staged, sends, clean>> /\ m.src # d
        /\ known' = [known EXCEPT ![d] = @ \cup {m.src}]
    BY <1>10 DEF Receive
  <2>2. m.src \in Device /\ m.seq \in Nat /\ m.n \in Nat /\ m.src \in Address
    BY DEF Datagram, Ctr, Address
  <2>3. ctr' = [ctr EXCEPT ![d][m.src] = m.seq] \/ ctr' = [ctr EXCEPT ![d][m.src] = PeerCtr(d, m.src)]
    BY <1>10 DEF Receive
  <2>4. \A e \in Device \ {d} : ctr'[e] = ctr[e] /\ known'[e] = known[e]
    BY <2>1, <2>3
  <2>5. ctr'[d][d] = ctr[d][d]
    <3>1. d \in Address /\ m.src # d
      BY <2>1 DEF Address
    <3>2. QED
      BY <2>2, <2>3, <3>1
  <2>6. OwnCounter(s)' = OwnCounter(s)
    BY <2>1, <2>4, <2>5 DEF OwnCounter
  <2>7. ASSUME clean[s], d # s, s \in known'[d] PROVE ctr'[d][s] <= sends[s]
    <3>1. CASE m.src = s
      <4>1. m.seq <= sends[s]
        BY <2>7, <3>1 DEF AirNumbered
      <4>2. PeerCtr(d, s) <= sends[s]
        BY <2>7 DEF PeerCtr, SenderCounts
      <4>3. QED
        BY <1>0, <2>3, <3>1, <4>1, <4>2
    <3>2. CASE m.src # s
      BY <1>0, <2>1, <2>3, <2>7, <3>2 DEF SenderCounts
    <3>3. QED
      BY <3>1, <3>2
  <2>8. QED
    BY <2>1, <2>4, <2>6, <2>7 DEF SenderCounts
<1>11. ASSUME NEW d \in Device, NEW a \in Address, ReceiveForeign(d, a)
       PROVE  SenderCounts(s)'
  <2>1. /\ UNCHANGED <<phase, nvs, staged, sends, clean>> /\ a # d
        /\ known' = [known EXCEPT ![d] = @ \cup {a}]
        /\ ctr' = [ctr EXCEPT ![d][a] = PeerCtr(d, a)]
    BY <1>11 DEF ReceiveForeign
  <2>2. \A e \in Device \ {d} : ctr'[e] = ctr[e] /\ known'[e] = known[e]
    BY <2>1
  <2>3. OwnCounter(s)' = OwnCounter(s)
    BY <2>1, <2>2 DEF OwnCounter
  <2>4. ASSUME clean[s], d # s, s \in known'[d] PROVE ctr'[d][s] <= sends[s]
    <3>1. PeerCtr(d, s) <= sends[s]
      BY <2>4 DEF PeerCtr, SenderCounts
    <3>2. QED
      BY <1>0, <2>1, <2>4, <3>1 DEF SenderCounts
  <2>5. QED
    BY <2>1, <2>2, <2>3, <2>4 DEF SenderCounts
<1>12. CASE UNCHANGED <<phase, ctr, known, nvs, staged, sends, clean>>
  BY <1>12 DEF SenderCounts, OwnCounter
<1>13. QED
  BY <1>1, <1>2, <1>3, <1>4, <1>5, <1>6, <1>8, <1>9, <1>10, <1>11, <1>12
     DEF Next, Main, WiFi, LosePower, InitFails, ReceivePanics, RegisterService, vars

-----------------------------------------------------------------------------
(* What follows from the invariant.                                         *)

\* The part of the invariant that holds even when counters wrap.
Base == Typed /\ SessionShape /\ CleanPeersAreStored /\ RememberedIsBehind

LEMMA BaseInit == Init => Base
<1> USE WMeshAssumption
<1>1. 0 \in Ctr /\ 0 \in 0 .. MaxSends
  BY DEF Ctr
<1>2. QED
  BY <1>1 DEF Init, Base, Typed, Phase, SessionShape, CleanPeersAreStored, RememberedIsBehind

LEMMA BaseInvariant == Spec => []Base
<1>1. Base /\ [Next]_vars => Base'
  BY NextTyped, ShapePreserved, StoredPreserved, RememberedPreserved DEF Base
<1>2. QED
  BY BaseInit, <1>1, PTL DEF Spec

\* A peer that is not marked dirty has its counter in flash: wmesh_peer_store
\* may skip it.
THEOREM StoredCorrect == Spec => []CleanPeersAreStored
<1>1. Base => CleanPeersAreStored
  BY DEF Base
<1>2. QED
  BY BaseInvariant, <1>1, PTL

\* While no counter wraps, RAM, flash and air agree after every step: the
\* invariant the other theorems rest on.
THEOREM ConsistentCorrect ==
  ASSUME NoWrap
  PROVE  Spec => []Consistent
<1> DEFINE Inv == Base /\ AirNumbered /\ \A s \in Device : SenderCounts(s)
<1>1. Init => Inv
  BY BaseInit, WMeshAssumption
     DEF Init, AirNumbered, SenderCounts, OwnCounter, Address
<1>2. Inv /\ [Next]_vars => Inv'
  <2> SUFFICES ASSUME Inv, [Next]_vars PROVE Inv'
    OBVIOUS
  <2>1. Base'
    BY NextTyped, ShapePreserved, StoredPreserved, RememberedPreserved DEF Base
  <2>2. AirNumbered'
    BY AirPreserved DEF Base
  <2>3. \A s \in Device : SenderCounts(s)'
    BY SenderPreserved DEF Base
  <2>4. QED
    BY <2>1, <2>2, <2>3
<1>3. Inv => Consistent
  BY CountsSplit DEF Base, Consistent
<1>4. QED
  BY <1>1, <1>2, <1>3, PTL DEF Spec

LEMMA TypedAndConsistent ==
  ASSUME NoWrap
  PROVE  Spec => [](Typed /\ Consistent)
<1>1. Base => Typed
  BY DEF Base
<1>2. QED
  BY BaseInvariant, ConsistentCorrect, <1>1, PTL

\* The next datagram of a sender that kept its counter is new to every board,
\* whichever of them restarted, and however.
THEOREM PeerBehindSenderCorrect ==
  ASSUME NoWrap
  PROVE  Spec => []PeerBehindSender
<1>1. Typed /\ Consistent => PeerBehindSender
  <2> SUFFICES ASSUME Typed, Consistent, NEW d \in Device, NEW s \in Device, clean[s]
               PROVE  Level(d, s) <= Level(s, s)
    BY DEF PeerBehindSender
  <2>1. Level(s, s) = sends[s] /\ sends[s] \in Nat
    BY WMeshAssumption DEF Consistent, CleanSendersCount, Typed
  <2>2. CASE d = s
    BY <2>1, <2>2
  <2>3. CASE d # s
    BY <2>1, <2>3 DEF Consistent, CleanSendersCount, Level
  <2>4. QED
    BY <2>2, <2>3
<1>2. QED
  BY TypedAndConsistent, <1>1, PTL

\* A sequence number identifies a packet of a sender that kept its counter.
THEOREM UniqueSequenceCorrect ==
  ASSUME NoWrap
  PROVE  Spec => []UniqueSequence
<1>1. Consistent => UniqueSequence
  BY DEF Consistent, CleanSendersCount, UniqueSequence
<1>2. QED
  BY ConsistentCorrect, <1>1, PTL

-----------------------------------------------------------------------------
(* Dispatch.                                                                *)

\* A datagram newly dispatched is past everything remembered of its sender.
LEMMA DispatchIsNew ==
  ASSUME Typed, RememberedIsBehind, [Next]_vars,
         NEW d \in Device, NEW m \in fresh'[d] \ fresh[d]
  PROVE  /\ \E e \in Device : Receive(e, m) /\ e = d
         /\ m \in air
         /\ \A k \in fresh[d] \cup saved[d] : k.src = m.src => k.seq < m.seq
<1> USE DEF Typed, history
<1>1. PICK e \in Device, r \in air : Receive(e, r)
  <2>1. ASSUME NEW e \in Device, NEW F, EndSession(e, F) PROVE fresh'[d] \subseteq fresh[d]
    BY <2>1 DEF EndSession
  <2>2. fresh' # fresh
    OBVIOUS
  <2>3. QED
    BY <2>1, <2>2 DEF Next, Main, WiFi, LosePower, InitFails, ReceivePanics, Close, Restart, InitEspNow,
       InitHandle, RegisterService, Send, StopBegin, StorePeer, StoreSelf, ReceiveForeign, vars
<1>2. /\ PeerCtr(e, r.src) < r.seq
      /\ fresh' = [fresh EXCEPT ![e] = IF r.svc \in services[e] THEN @ \cup {r} ELSE @]
  BY <1>1 DEF Receive, IsNew
<1>3. e = d /\ m = r
  BY <1>2
<1>4. ASSUME NEW k \in fresh[d] \cup saved[d], k.src = m.src PROVE k.seq < m.seq
  <2>1. k.seq \in Nat /\ m.seq \in Nat /\ m.src \in Address
    BY <1>3 DEF Datagram, Ctr, Address
  <2>2. nvs[d][m.src] \in Nat /\ ctr[d][m.src] \in Nat
    BY <2>1 DEF Ctr
  <2>3. k.seq <= PeerCtr(d, m.src)
    BY <1>4, <2>1, <2>2 DEF RememberedIsBehind, PeerCtr
  <2>4. PeerCtr(d, m.src) \in Nat
    BY <2>2 DEF PeerCtr
  <2>5. QED
    BY <1>2, <1>3, <2>1, <2>3, <2>4
<1>5. QED
  BY <1>1, <1>3, <1>4

\* Datagrams of a sender that kept its counter are dispatched in the order sent.
THEOREM InOrderCorrect ==
  ASSUME NoWrap
  PROVE  Spec => InOrder
<1>1. ASSUME Typed, Consistent, [Next]_vars, NEW d \in Device, NEW m \in fresh'[d] \ fresh[d],
             clean[m.src], NEW k \in fresh[d] \cup saved[d], k.src = m.src
      PROVE  k.n < m.n
  <2>1. m \in air /\ k.seq < m.seq
    BY <1>1, DispatchIsNew DEF Consistent
  <2>2. k \in air
    BY <1>1 DEF Consistent, CleanSendersCount
  <2>3. k.seq = k.n /\ m.seq = m.n
    BY <1>1, <2>1, <2>2 DEF Consistent, CleanSendersCount
  <2>4. QED
    BY <2>1, <2>3
<1>2. Typed /\ Consistent /\ [Next]_vars =>
        [\A d \in Device : \A m \in fresh'[d] \ fresh[d] :
           clean[m.src] => \A k \in fresh[d] \cup saved[d] : k.src = m.src => k.n < m.n]_vars
  BY <1>1
<1>3. QED
  BY TypedAndConsistent, <1>2, PTL DEF Spec, InOrder

\* Flash never goes back, except for the own counter of a board that lost it.
THEOREM StoredCountersGrowCorrect ==
  ASSUME NoWrap
  PROVE  Spec => StoredCountersGrow
<1> DEFINE Grow == \A d \in Device, a \in Address : a # d \/ clean'[d] => nvs[d][a] <= nvs'[d][a]
<1>1. ASSUME Typed, Consistent, [Next]_vars PROVE Grow
  <2> USE <1>1 DEF Typed, history
  <2>1. \A d \in Device, a \in Address : nvs[d][a] \in Nat /\ ctr[d][a] \in Nat /\ sends[d] \in Nat
    BY DEF Ctr
  <2>2. CASE UNCHANGED nvs
    BY <2>1, <2>2
  <2>3. ASSUME NEW d \in Device, NEW F \in SUBSET staged[d], EndSession(d, F),
               d \in F => phase[d] = "closing" /\ (clean'[d] => clean[d])
        PROVE  Grow
    <3>1. \A e \in Device \ {d} : nvs'[e] = nvs[e]
      BY <2>3 DEF EndSession
    <3>2. \A a \in Address : nvs'[d][a] = IF a \in F THEN ctr[d][a] ELSE nvs[d][a]
      BY <2>3 DEF EndSession
    <3>3. ASSUME NEW a \in F, a # d PROVE nvs[d][a] <= ctr[d][a]
      BY <2>3, <3>3 DEF Consistent, SessionShape, RememberedIsBehind
    <3>4. ASSUME d \in F, clean'[d] PROVE nvs[d][d] <= ctr[d][d]
      BY <2>3, <3>4 DEF Consistent, CleanSendersCount, Level
    <3>5. QED
      BY <2>1, <3>1, <3>2, <3>3, <3>4
  <2>4. ASSUME NEW d \in Device, Close(d) PROVE Grow
    BY <2>3, <2>4 DEF Close
  <2>5. ASSUME NEW d \in Device, Restart(d) PROVE Grow
    <3>1. PICK F \in SUBSET staged[d] : EndSession(d, F)
      BY <2>5 DEF Restart
    <3>2. (d \in F => phase[d] = "closing") /\ (clean'[d] => clean[d])
      BY <2>5, <3>1 DEF Restart, Consistent, SessionShape
    <3>3. QED
      BY <2>3, <3>1, <3>2
  <2>6. QED
    BY <2>2, <2>4, <2>5
       DEF Next, Main, WiFi, LosePower, InitFails, ReceivePanics, InitEspNow, InitHandle, RegisterService,
           Send, StopBegin, StorePeer, StoreSelf, Receive, ReceiveForeign, vars
<1>2. Typed /\ Consistent /\ [Next]_vars => [Grow]_vars
  BY <1>1
<1>3. QED
  BY TypedAndConsistent, <1>2, PTL DEF Spec, StoredCountersGrow

\* The mesh implements at-most-once dispatch of remembered datagrams, with every
\* fault, for every width of the counter: a step of the mesh is a step of
\* MeshDelivery or leaves its variables alone.
THEOREM DeliveryImplemented == Spec => DeliverySpec
<1>1. Init => Delivery!Init
  BY DEF Init, Delivery!Init
<1>2. ASSUME Base, [Next]_vars PROVE [Delivery!Next]_(Delivery!dvars)
  <2> USE <1>2 DEF Base, history
  <2>1. CASE UNCHANGED <<air, fresh, saved>>
    BY <2>1 DEF Delivery!dvars
  <2>2. ASSUME NEW d \in Device, NEW svc \in Service, Send(d, svc) PROVE Delivery!Send
    <3> DEFINE m == [src |-> d, seq |-> NextSeq(d), n |-> sends[d] + 1, svc |-> svc]
    <3>1. m \in Datagram
      <4>1. air' \subseteq Datagram
        BY NextTyped DEF Typed
      <4>2. QED
        BY <2>2, <4>1 DEF Send
    <3>2. QED
      BY <2>2, <3>1 DEF Send, Delivery!Send
  <2>3. ASSUME NEW d \in Device, NEW F, EndSession(d, F) PROVE Delivery!EndSession(d)
    <3> DEFINE kept == {m \in fresh[d] : m.src \in F}
    <3>1. saved' = [saved EXCEPT ![d] = @ \cup kept] /\ kept \in SUBSET fresh[d]
      BY <2>3 DEF EndSession
    <3>2. fresh' = [fresh EXCEPT ![d] = {}] /\ UNCHANGED air
      BY <2>3 DEF EndSession
    <3>3. QED
      BY <3>1, <3>2 DEF Delivery!EndSession
  <2>4. ASSUME NEW d \in Device, NEW m \in air, Receive(d, m)
        PROVE  Delivery!Dispatch(d, m) \/ UNCHANGED <<air, fresh, saved>>
    <3>1. UNCHANGED <<air, saved>>
      BY <2>4 DEF Receive
    <3>2. CASE /\ m.svc \in services[d]
               /\ fresh' = [fresh EXCEPT ![d] = @ \cup {m}]
               /\ PeerCtr(d, m.src) < m.seq
      <4>1. m \notin fresh[d] \cup saved[d]
        <5>1. SUFFICES ASSUME m \in fresh[d] \cup saved[d] PROVE FALSE
          OBVIOUS
        <5>2. m.seq \in Nat /\ m.src \in Address
          BY DEF Typed, Datagram, Ctr, Address
        <5>3. nvs[d][m.src] \in Nat /\ ctr[d][m.src] \in Nat
          BY <5>2 DEF Typed, Ctr
        <5>4. m.seq <= PeerCtr(d, m.src)
          BY <5>1, <5>2, <5>3 DEF RememberedIsBehind, PeerCtr
        <5>5. PeerCtr(d, m.src) \in Nat
          BY <5>3 DEF PeerCtr
        <5>6. QED
          BY <3>2, <5>2, <5>4, <5>5
      <4>2. QED
        BY <3>1, <3>2, <4>1 DEF Delivery!Dispatch
    <3>3. CASE UNCHANGED fresh
      BY <3>1, <3>3
    <3>4. QED
      <4>1. \/ /\ PeerCtr(d, m.src) < m.seq
               /\ fresh' = [fresh EXCEPT ![d] = IF m.svc \in services[d] THEN @ \cup {m} ELSE @]
            \/ UNCHANGED fresh
        BY <2>4 DEF Receive, IsNew
      <4>2. m.svc \notin services[d] /\
            fresh' = [fresh EXCEPT ![d] = IF m.svc \in services[d] THEN @ \cup {m} ELSE @]
            => UNCHANGED fresh
        BY DEF Typed
      <4>3. QED
        BY <3>2, <3>3, <4>1, <4>2
  <2>5. QED
    BY <2>1, <2>2, <2>3, <2>4
       DEF Next, Main, WiFi, LosePower, InitFails, ReceivePanics, InitEspNow, InitHandle, RegisterService,
           StopBegin, StorePeer, StoreSelf, Close, Restart, ReceiveForeign, vars,
           Delivery!Next, Delivery!dvars
<1>3. QED
  BY <1>1, <1>2, BaseInvariant, PTL DEF Spec, DeliverySpec, Delivery!Spec
=============================================================================
