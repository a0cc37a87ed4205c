---------------------------- MODULE WorkerContract ----------------------------
(***************************************************************************)
(* What the Connector worker promises whoever submits jobs to it: the      *)
(* states and evidence /jobs/status and /jobs/evidence may show over time, *)
(* whatever happens inside.  ConnectorWorker implements this; JobPipeline  *)
(* puts it behind Core.                                                    *)
(***************************************************************************)
EXTENDS ToolRun

CONSTANT Job
VARIABLES
    up,  \* does the worker answer?
    st,  \* the state of each job, "absent" when the worker does not know it
    ev   \* is the evidence manifest of the job there?

WorkerFinal == Terminal \ {"rejected"}
WorkerState == {"absent", "submitted", "running", "cancelling"} \union WorkerFinal

\* A job that has not ended.
Live == {"submitted", "running", "cancelling"}

ContractInit ==
    /\ up = TRUE
    /\ st = [j \in Job |-> "absent"]
    /\ ev = [j \in Job |-> FALSE]

\* A new job is accepted.
Accept(j) ==
    /\ up /\ st[j] = "absent"
    /\ st' = [st EXCEPT ![j] = "submitted"]
    /\ UNCHANGED <<up, ev>>

\* The job starts, also when a cancel came just before.
Start(j) ==
    /\ up /\ st[j] \in {"submitted", "cancelling"}
    /\ st' = [st EXCEPT ![j] = "running"]
    /\ UNCHANGED <<up, ev>>

\* The client asks for the job to stop.
Cancel(j) ==
    /\ up /\ st[j] \in Live
    /\ st' = [st EXCEPT ![j] = "cancelling"]
    /\ UNCHANGED <<up, ev>>

\* The job is cancelled, before it started or once the executor confirmed.
Cancelled(j) ==
    /\ up /\ st[j] \in {"submitted", "cancelling"}
    /\ st' = [st EXCEPT ![j] = "cancelled"]
    /\ UNCHANGED <<up, ev>>

\* The execution ends; evidence comes with the outcome or after it.
End(j, o, e) ==
    /\ up /\ st[j] = "running"
    /\ st' = [st EXCEPT ![j] = o]
    /\ ev' = [ev EXCEPT ![j] = e]
    /\ UNCHANGED up

\* The workspace could not be prepared.
FailToStart(j) ==
    /\ up /\ st[j] = "submitted"
    /\ st' = [st EXCEPT ![j] = "failed"]
    /\ UNCHANGED <<up, ev>>

\* The evidence of an ended job appears.
Publish(j) ==
    /\ up /\ st[j] \in Outcome
    /\ ev' = [ev EXCEPT ![j] = TRUE]
    /\ UNCHANGED <<up, st>>

\* The output of an ended job cannot be stored: its outcome is taken back.
TakeBack(j) ==
    /\ up /\ st[j] \in Outcome /\ ~ev[j]
    /\ st' = [st EXCEPT ![j] = "failed"]
    /\ UNCHANGED <<up, ev>>

Stop ==
    /\ up /\ up' = FALSE
    /\ UNCHANGED <<st, ev>>

\* What a restarted worker may say of a job it last showed in state s, with or
\* without evidence e.  An outcome taken back may return, as it was on disk
\* when it was shown; evidence never appears that was not there before.
MayRemember(s, e, s1, e1) ==
    \/ s1 = "absent" /\ ~e1
    \/ s # "absent" /\ s1 = "lost" /\ (e1 => e /\ s = "lost")
    \/ s1 = s /\ s \in WorkerFinal /\ (e1 => e)
    \/ s = "failed" /\ s1 \in Outcome /\ ~e1

Resume ==
    /\ ~up /\ up' = TRUE
    /\ st' \in [Job -> WorkerState]
    /\ ev' \in [Job -> BOOLEAN]
    /\ \A j \in Job : MayRemember(st[j], ev[j], st'[j], ev'[j])

ContractNext ==
    \/ \E j \in Job : \/ Accept(j) \/ Start(j) \/ Cancel(j) \/ Cancelled(j)
                      \/ FailToStart(j) \/ Publish(j) \/ TakeBack(j)
                      \/ \E o \in Outcome, e \in BOOLEAN : End(j, o, e)
    \/ Stop
    \/ Resume

Contract == ContractInit /\ [][ContractNext]_<<up, st, ev>>
===============================================================================
