------------------------------ MODULE Sampling ------------------------------
(***************************************************************************)
(* What a board promises of its measurements.  A batch is made of readings  *)
(* of the first runs of the sampling program since it was started, only of   *)
(* runs that had ended when the batch was taken, each reading of one run; it *)
(* is sent in messages of ChunkSize readings, in order, each reading once,   *)
(* and only the last message may be shorter.  The promise lasts for Capacity *)
(* runs.  The one after breaks it, and it holds again once the program has   *)
(* been started anew.                                                       *)
(***************************************************************************)
EXTENDS Naturals, Sequences

CONSTANTS ChunkSize,
          Capacity    \* runs that are kept

VARIABLES completed,  \* runs of the sampling program that have ended
          broken,     \* whether a run was not kept
          batch,      \* readings in the batch
          sent        \* its messages: which reading is the first, and for each reading
                      \* the runs that its values are of

svars == <<completed, broken, batch, sent>>

Init == completed = 0 /\ ~broken /\ batch = 0 /\ sent = <<>>

Sample ==
  /\ completed < Capacity \/ broken
  /\ completed' = completed + 1
  /\ UNCHANGED <<broken, batch, sent>>

\* Run number Capacity + 1 is under way.
Overflow ==
  /\ completed >= Capacity
  /\ broken' = TRUE
  /\ UNCHANGED <<completed, batch, sent>>

Take ==
  /\ batch = 0 /\ sent = <<>>
  /\ batch' \in 0 .. completed
  /\ UNCHANGED <<completed, broken, sent>>

\* Reading number i is of run i + 1.
Message(first, size) == [first |-> first, runs |-> [j \in 1 .. size |-> {first + j}]]

Send ==
  /\ \E size \in 1 .. ChunkSize :
       /\ ChunkSize * Len(sent) + size <= batch
       /\ size = ChunkSize \/ ChunkSize * Len(sent) + size = batch
       /\ sent' = Append(sent, Message(ChunkSize * Len(sent), size))
  /\ UNCHANGED <<completed, broken, batch>>

\* Any batch, and any message of it.
Unpromised == broken /\ UNCHANGED <<completed, broken>>

\* A new period, or a reset, which may leave the sampling program running.
StartOver ==
  /\ batch' = 0 /\ sent' = <<>>
  /\ \/ completed' = 0 /\ broken' = FALSE
     \/ UNCHANGED <<completed, broken>>

Next == Sample \/ Overflow \/ Take \/ Send \/ Unpromised \/ StartOver

Spec == Init /\ [][Next]_svars
=============================================================================
