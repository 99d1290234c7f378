------------------------------- MODULE MCWMesh -------------------------------
(* WMesh for TLC: boards are interchangeable, strangers too. *)
EXTENDS WMesh, TLC

BoardSymmetry == Permutations(Device)
=============================================================================
