---------------------------- MODULE ImageTransfer ----------------------------
(***************************************************************************)
(* What an update promises a node: its spare partition holds a prefix of    *)
(* the gateway's image that grows chunk by chunk, and the node boots the    *)
(* new firmware only after it has received all of it.                       *)
(***************************************************************************)
EXTENDS Naturals

CONSTANTS Node, ChunkCount

VARIABLES written,   \* written[n]: chunks of the image in n's partition
          booting    \* booting[n]: "old" or "new", what n boots next

ivars == <<written, booting>>

Init == /\ written = [n \in Node |-> 0]
        /\ booting = [n \in Node |-> "old"]

Write(n) == /\ booting[n] = "old"
            /\ written[n] < ChunkCount
            /\ written' = [written EXCEPT ![n] = @ + 1]
            /\ UNCHANGED booting

Commit(n) == /\ written[n] = ChunkCount
             /\ booting' = [booting EXCEPT ![n] = "new"]
             /\ UNCHANGED written

Next == \E n \in Node : Write(n) \/ Commit(n)

Spec == Init /\ [][Next]_ivars
=============================================================================
