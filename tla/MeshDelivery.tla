---------------------------- MODULE MeshDelivery ----------------------------
(***************************************************************************)
(* What the mesh promises a service about the datagrams handed to it: a     *)
(* datagram that the receiver still remembers is never handed over again.   *)
(* A receiver remembers what it dispatched since it started (fresh), and    *)
(* what it had dispatched when it last managed to write the sender's        *)
(* sequence number to flash (saved).  A restart may forget fresh datagrams, *)
(* never a saved one.                                                       *)
(***************************************************************************)
CONSTANTS Device,     \* the boards
          Datagram    \* what can be put on the air

VARIABLES air,        \* the datagrams sent so far
          fresh,      \* fresh[d]: dispatched on d since it started
          saved       \* saved[d]: dispatched on d and covered by its flash

dvars == <<air, fresh, saved>>

Init == /\ air = {}
        /\ fresh = [d \in Device |-> {}]
        /\ saved = [d \in Device |-> {}]

Send == /\ \E m \in Datagram : air' = air \cup {m}
        /\ UNCHANGED <<fresh, saved>>

Dispatch(d, m) ==
  /\ m \in air
  /\ m \notin fresh[d] \cup saved[d]
  /\ fresh' = [fresh EXCEPT ![d] = @ \cup {m}]
  /\ UNCHANGED <<air, saved>>

\* The receiver ends its session: what is saved stays so, some or all of the
\* fresh datagrams become saved, the others are forgotten.
EndSession(d) ==
  /\ \E S \in SUBSET fresh[d] : saved' = [saved EXCEPT ![d] = @ \cup S]
  /\ fresh' = [fresh EXCEPT ![d] = {}]
  /\ UNCHANGED air

Next == \/ Send
        \/ \E d \in Device : EndSession(d)
        \/ \E d \in Device, m \in air : Dispatch(d, m)

Spec == Init /\ [][Next]_dvars
=============================================================================
