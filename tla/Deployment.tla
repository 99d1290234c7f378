----------------------------- MODULE Deployment -----------------------------
(***************************************************************************)
(* What the network promises whoever deployed it.  A node sleeps and wakes; *)
(* sleeping it samples a new batch, and awake it hands the batch of its last *)
(* sleep over at most once.  Releases only get newer.  A node that is awake *)
(* may receive the release that the gateway has, install, whole, what it     *)
(* received since it woke, if that is newer than what it runs, and runs it   *)
(* from its next sleep or restart on.                                        *)
(***************************************************************************)
EXTENDS Naturals

CONSTANT Node

VARIABLES release,   \* the firmware of the gateway
          version,   \* version[n]: the firmware that n runs
          installed, \* installed[n]: the firmware that n runs next
          received,  \* received[n]: the whole release that n may install, or 0
          asleep,    \* the nodes that sleep
          uploaded   \* uploaded[n]: times the batch of n's last sleep was handed over

firmware == <<version, installed, received>>
dvars == <<release, firmware, asleep, uploaded>>

Init ==
  /\ release = 0 /\ version = [n \in Node |-> 0] /\ installed = version
  /\ received = [n \in Node |-> 0]
  /\ asleep = {} /\ uploaded = [n \in Node |-> 0]

Release == release' > release /\ UNCHANGED <<firmware, asleep, uploaded>>

\* The nodes in S make room for a release.
Prepare(S) ==
  /\ installed' = [n \in Node |-> IF n \in S THEN version[n] ELSE installed[n]]
  /\ received' = [n \in Node |-> IF n \in S THEN 0 ELSE received[n]]
  /\ UNCHANGED <<release, version, asleep, uploaded>>

\* The nodes in R receive the release, the update of those in E ends; the nodes in S, of
\* these, install what they have received.
Update(R, E, S) ==
  LET Has(n) == IF n \in R THEN release ELSE received[n]
  IN /\ S \subseteq E /\ \A n \in R \cup S : version[n] < Has(n)
     /\ installed' = [n \in Node |-> IF n \in S THEN Has(n) ELSE installed[n]]
     /\ received' = [n \in Node |-> IF n \in E THEN 0 ELSE Has(n)]
     /\ UNCHANGED <<release, version, asleep, uploaded>>

Reset(n) ==
  /\ version' = [version EXCEPT ![n] = installed[n]]
  /\ received' = [received EXCEPT ![n] = 0]
  /\ UNCHANGED <<release, installed>>

Restart(n) == Reset(n) /\ UNCHANGED <<asleep, uploaded>>

FallAsleep(n) ==
  /\ n \notin asleep /\ Reset(n)
  /\ asleep' = asleep \cup {n}
  /\ uploaded' = [uploaded EXCEPT ![n] = 0]

Wake(n) ==
  /\ n \in asleep /\ Reset(n)
  /\ asleep' = asleep \ {n}
  /\ UNCHANGED uploaded

Upload(n) ==
  /\ n \notin asleep /\ uploaded[n] = 0
  /\ uploaded' = [uploaded EXCEPT ![n] = 1]
  /\ UNCHANGED <<release, firmware, asleep>>

Next ==
  \/ Release
  \/ \E S \in SUBSET (Node \ asleep) : Prepare(S)
  \/ \E R, E, S \in SUBSET (Node \ asleep) : Update(R, E, S)
  \/ \E n \in Node : Restart(n) \/ FallAsleep(n) \/ Wake(n) \/ Upload(n)

Spec == Init /\ [][Next]_dvars
=============================================================================
