-------------------------- MODULE MCEngineeringRun --------------------------
(* An engineering run on small instances. *)
EXTENDS EngineeringRun
=============================================================================
