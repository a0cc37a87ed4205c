------------------------- MODULE MCConnectorWorker -------------------------
(* ConnectorWorker on two jobs and one slot, with a failing disk and a crash. *)
EXTENDS ConnectorWorker
============================================================================
