------------------------------- MODULE ToolRun -------------------------------
(***************************************************************************)
(* The states of one tool run (a Vivado job), as core/src/domain/          *)
(* state-machines.ts names them.  Every other job module speaks in these   *)
(* states: the worker that executes a job, and the Core row that mirrors   *)
(* what the worker reported.                                               *)
(***************************************************************************)

ToolRunState ==
    {"submitted", "rejected", "queued", "preparing", "running", "succeeded",
     "failed", "cancelling", "cancelled", "timeout", "lost", "unknown_effect"}

\* TOOL_RUN_TERMINAL_STATES: the states the handlers treat as final.
Terminal == {"succeeded", "failed", "cancelled", "timeout", "lost",
             "unknown_effect", "rejected"}

\* What the worker may settle a finished execution as (run() in worker.ts).
Outcome == {"succeeded", "failed", "timeout", "lost", "unknown_effect"}
=============================================================================
