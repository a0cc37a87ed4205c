---------------------------- MODULE MCStreamHub ----------------------------
(* StreamHub with a window of two events and two clients.                   *)
EXTENDS StreamHub
============================================================================
