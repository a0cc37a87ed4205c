----------------------------- MODULE MCGateFlow -----------------------------
(* GateFlow for a project with its first release and two changes after it. *)
EXTENDS GateFlow, TLC

OpenerSymmetry == Permutations(Opener)
=============================================================================
