---------------------------- MODULE MCFormalRun ----------------------------
(***************************************************************************)
(* Bounds for TLC: two operations, the second with the bitstream; the      *)
(* input may be given up for a second one; two troubles of two kinds.      *)
(***************************************************************************)
EXTENDS FormalRun
=============================================================================
