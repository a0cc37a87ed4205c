--------------------------- MODULE MCJobPipeline ---------------------------
(* JobPipeline on one job, two requests for it and a poller.                *)
EXTENDS JobPipeline
============================================================================
