---------------------------- MODULE MCOtaTransfer ----------------------------
(* OtaTransfer for TLC: nodes are interchangeable. *)
EXTENDS OtaTransfer, TLC

NodeSymmetry == Permutations(Node)
=============================================================================
