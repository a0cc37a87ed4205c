--------------------------- MODULE EngineeringRun ---------------------------
(***************************************************************************)
(* An engineering run: the loop of the runtime that works through the      *)
(* gates of a project (runtime/loop.ts, the evaluated gates of             *)
(* formal-flow.ts), the registry entry, monitor and recovery around it     *)
(* (runtime/server.ts), the agent-state file, the task row of Core that    *)
(* the run reports to, and the submissions that Core keeps and people      *)
(* decide on.                                                              *)
(*                                                                         *)
(* The stages that lead to a gate are one step of work; what the model and *)
(* the tools do in it is whether it succeeds.  Gate Last stands for G4,    *)
(* the others are evaluated by Core as G1 to G3 are.  GateFlow has what    *)
(* Core requires of a submission; here it is the gate the project is at.   *)
(***************************************************************************)
EXTENDS Naturals, Sequences

CONSTANTS
    Last,       \* the number of gates
    Kinds,      \* subset of {"owned", "loose"}: with a row of Core, or without
    MaxFaults,  \* failures of the work, of Core as the run sees it, of the way there
    MaxCrashes, \* of the runtime
    MaxAborts,
    MaxResumes  \* of a person

ASSUME RunAssumption ==
    /\ Last \in Nat \ {0} /\ Kinds \subseteq {"owned", "loose"}
    /\ {MaxFaults, MaxCrashes, MaxAborts, MaxResumes} \subseteq Nat

VARIABLES
    kind,   \* fixed
    core,   \* Core: the process's gate and the task's row
    subs,   \* gate_submission
    state,  \* the agent-state file, and its copy in the registry
    handle, \* the registry entry
    at,     \* where executeAgent is
    loop,   \* the variables of the executor
    signal, \* the controller is aborted
    poll,   \* the monitor's question about the awaited submission
    late,   \* a request of an execution that is no more, still on its way
    abort,  \* the abort request of Core
    budget

vars == <<kind, core, subs, state, handle, at, loop, signal, poll, late, abort, budget>>

\* The gates of the process plan, each behind the stages that lead to it.
Gate == 1 .. Last
Open == {"running", "awaiting_user"}
Terminal == {"succeeded", "failed", "fail_closed"}
Decided == {"approved", "rejected", "withdrawn"}
Owned == kind = "owned"
NoFlow == [sub |-> 0, evaluated |-> FALSE, submitted |-> FALSE]
NoRequest == [op |-> "none", gate |-> 1, sub |-> 0]
NoLoop == [gate |-> 1, sub |-> 0, resume |-> FALSE, result |-> "none", cause |-> "none"]

Init ==
    /\ kind \in Kinds
    /\ core = [gate |-> 1, row |-> IF Owned THEN "running" ELSE "none", locked |-> FALSE]
    /\ subs = <<>>
    /\ state = [status |-> "running", gate |-> 1, awaiting |-> 0, cause |-> "none",
                sub |-> [g \in Gate |-> 0], flow |-> [g \in Gate |-> NoFlow]]
    /\ handle = [up |-> TRUE, begun |-> FALSE, busy |-> FALSE, status |-> "running",
                 awaiting |-> 0, cause |-> "none"]
    /\ at = "idle" /\ loop = NoLoop /\ signal = FALSE
    /\ poll = "none" /\ late = NoRequest /\ abort = "none"
    /\ budget = [faults |-> MaxFaults, crashes |-> MaxCrashes, aborts |-> MaxAborts,
                 resumes |-> MaxResumes]

Spend(what) ==
    budget[what] > 0 /\ budget' = [budget EXCEPT ![what] = @ - 1]
-----------------------------------------------------------------------------
(* Status events to Core *)

RowOf(status) == IF status = "awaiting" THEN "awaiting_user" ELSE status

\* A row that has ended takes no other status.
Takes(row) == core.row \in Open \/ core.row = row

WithStatus(status) == [core EXCEPT !.row = RowOf(status)]

\* appendCoreTaskEvent: without a row there is nobody to tell.
Heard(status) ==
    /\ UNCHANGED budget
    /\ \/ ~Owned /\ UNCHANGED core
       \/ Owned /\ ~core.locked /\ Takes(RowOf(status)) /\ core' = WithStatus(status)

\* The event is refused, or is lost, or its answer is.
Unheard(status) ==
    /\ Owned /\ ~core.locked
    /\ \/ ~Takes(RowOf(status)) /\ UNCHANGED <<core, budget>>
       \/ Spend("faults") /\ core' = core
       \/ Spend("faults") /\ Takes(RowOf(status)) /\ core' = WithStatus(status)

Ends(result, cause) ==
    at' = "settle" /\ loop' = [loop EXCEPT !.result = result, !.cause = cause]

\* onStateChange: the file first, then Core; a failure ends the run.
Persist(s, pc, l) ==
    /\ ~signal
    /\ state' = s
    /\ handle' = [handle EXCEPT !.awaiting = IF s.awaiting > 0 THEN s.awaiting ELSE @]
    /\ \/ Heard(s.status) /\ at' = pc /\ loop' = l
       \/ Unheard(s.status) /\ Ends("failed", "execution_error")
    /\ UNCHANGED <<kind, subs, signal, poll, late, abort>>

\* What executeAgent's catch and the monitor write when they give a task up.
Closed(cause) ==
    /\ state' = [state EXCEPT !.status = "fail_closed", !.cause = cause, !.awaiting = 0]
    /\ Heard("fail_closed") \/ Unheard("fail_closed")
-----------------------------------------------------------------------------
(* Core's side of a submission *)

Creatable(gate) ==
    core.gate = gate /\ \A s \in DOMAIN subs : subs[s].state \in Decided

Created(gate) == Append(subs, [gate |-> gate, state |-> "preparing", passed |-> "none"])

\* The one evaluation: failed, it rejects the submission.
Evaluated(s, passed) ==
    [subs EXCEPT ![s].state = IF passed THEN "checking" ELSE "rejected",
                 ![s].passed = IF passed THEN "yes" ELSE "no"]

Submitted(s) == [subs EXCEPT ![s].state = "in_review"]

\* A request without an answer did its work, or did not.
Lands(r) ==
    \/ UNCHANGED subs
    \/ r.op = "create" /\ Creatable(r.gate) /\ subs' = Created(r.gate)
    \/ /\ r.op = "evaluate" /\ subs[r.sub].state = "preparing"
       /\ \E passed \in BOOLEAN : subs' = Evaluated(r.sub, passed)
    \/ r.op = "submit" /\ subs[r.sub].state = "checking" /\ subs' = Submitted(r.sub)

Request ==
    IF at \in {"create", "evaluate", "submit"}
    THEN [op |-> at, gate |-> loop.gate, sub |-> loop.sub] ELSE NoRequest

\* governance-client's request failed, twice.
RequestFails ==
    /\ ~signal /\ at \in {"poll", "work", "create", "evaluate", "submit"}
    /\ Spend("faults") /\ Lands(Request)
    /\ \E result \in {"failed", "fail_closed"} :
         /\ result = "fail_closed" => at = "work"
         /\ Ends(result, "execution_error")
    /\ UNCHANGED <<kind, core, state, handle, signal, poll, late, abort>>

LateLands ==
    /\ late # NoRequest /\ Lands(late) /\ late' = NoRequest
    /\ UNCHANGED <<kind, core, state, handle, at, loop, signal, poll, abort, budget>>
-----------------------------------------------------------------------------
(* The executor *)

Execute(resume) ==
    /\ handle.up /\ ~handle.busy
    /\ handle' = [handle EXCEPT !.begun = TRUE, !.busy = TRUE, !.status = "running",
                                !.awaiting = 0, !.cause = "none"]
    /\ at' = "announce" /\ signal' = FALSE
    /\ loop' = [NoLoop EXCEPT !.resume = resume]

\* The task's start.
Start ==
    /\ ~handle.begun /\ Execute(FALSE)
    /\ UNCHANGED <<kind, core, subs, state, poll, late, abort, budget>>

Announce ==
    /\ at = "announce"
    /\ \/ Heard("running") /\ at' = "context"
       \/ Unheard("running") /\ at' = IF signal THEN "context" ELSE "close"
    /\ UNCHANGED <<kind, subs, state, handle, loop, signal, poll, late, abort>>

Completed == core.gate > Last

\* The process's context: completed, the run succeeds.
Context ==
    /\ at = "context" /\ ~signal
    /\ \/ Spend("faults") /\ Ends("fail_closed", "execution_error")
       \/ /\ UNCHANGED budget /\ Completed
          /\ Ends("succeeded", "none")
       \/ /\ UNCHANGED budget /\ ~Completed /\ state.awaiting = 0
          /\ at' = "stage"
          /\ loop' = [loop EXCEPT !.gate = IF loop.resume THEN state.gate ELSE core.gate]
       \/ /\ UNCHANGED budget /\ ~Completed /\ state.awaiting # 0
          /\ LET f == state.flow[state.awaiting] IN
               /\ at' = IF f.submitted THEN "poll"
                        ELSE IF f.evaluated THEN "submit" ELSE "evaluate"
               /\ loop' = [loop EXCEPT !.gate = state.awaiting, !.sub = f.sub]
    /\ UNCHANGED <<kind, core, subs, state, handle, signal, poll, late, abort>>

Awaited == subs[state.sub[loop.gate]].state

\* Bug: a submission under review is no obstacle.
AskOnce ==
    /\ at = "poll" /\ Awaited \in {"in_review", "approved"}
    /\ Persist([state EXCEPT !.status = "running", !.awaiting = 0], "stage",
               [loop EXCEPT !.gate = @ + 1])

\* resumeFromGate: approved, the next gate's stages are begun.
AskApproved ==
    /\ at = "poll" /\ Awaited = "approved"
    /\ Persist([state EXCEPT !.status = "running", !.awaiting = 0], "stage",
               [loop EXCEPT !.gate = @ + 1])

AskRest ==
    /\ at = "poll" /\ ~signal /\ Awaited # "approved"
    /\ IF Awaited \in Decided THEN Ends("fail_closed", "governance_rejected")
       ELSE Ends("awaiting", "none")
    /\ UNCHANGED <<kind, core, subs, state, handle, signal, poll, late, abort, budget>>

\* Bug: the work begins without Core's having been told.
StageUntold ==
    /\ at = "stage" /\ ~signal
    /\ state' = [state EXCEPT !.status = "running", !.gate = loop.gate]
    /\ at' = "work"
    /\ UNCHANGED <<kind, core, subs, handle, loop, signal, poll, late, abort, budget>>

Stage ==
    /\ at = "stage"
    /\ Persist([state EXCEPT !.status = "running", !.gate = loop.gate], "work", loop)

\* The stages, their tools, repairs and the conformity check.
Work ==
    /\ at = "work" /\ ~signal /\ at' = "create"
    /\ UNCHANGED <<kind, core, subs, state, handle, loop, signal, poll, late, abort, budget>>

\* The snapshot and the submission.
Create ==
    /\ at = "create" /\ ~signal
    /\ IF Creatable(loop.gate)
       THEN subs' = Created(loop.gate) /\ at' = "note"
            /\ loop' = [loop EXCEPT !.sub = Len(subs) + 1]
       ELSE UNCHANGED subs /\ Ends("failed", "execution_error")
    /\ UNCHANGED <<kind, core, state, handle, signal, poll, late, abort, budget>>

Note ==
    /\ at = "note"
    /\ Persist([state EXCEPT !.sub[loop.gate] = loop.sub],
               IF loop.gate = Last THEN "formal" ELSE "bind", loop)

\* Core previews formal input only for a task whose role is project.
HasFormalInput(role) == role = "project"

\* The formal flow requires a task of Core, and of Core its preview: with the role of a
\* run it is refused.
Formal ==
    /\ at = "formal" /\ ~signal /\ ~HasFormalInput("run")
    /\ Ends(IF Owned THEN "failed" ELSE "fail_closed", "execution_error")
    /\ UNCHANGED <<kind, core, subs, state, handle, signal, poll, late, abort, budget>>

\* A gate with a binding to an older submission is not bound again.
BindingDiverges ==
    /\ at = "bind" /\ ~signal /\ state.flow[loop.gate] # NoFlow
    /\ Ends("fail_closed", "execution_error")
    /\ UNCHANGED <<kind, core, subs, state, handle, signal, poll, late, abort, budget>>

\* onProgress, with the gate the run waits at.
Keep(flow, pc, l) ==
    Persist([state EXCEPT !.status = "awaiting", !.awaiting = loop.gate,
                          !.flow[loop.gate] = flow], pc, l)

Bind ==
    /\ at = "bind" /\ state.flow[loop.gate] = NoFlow
    /\ Keep([NoFlow EXCEPT !.sub = loop.sub], "evaluate", loop)

\* The evaluation, or the replay of its answer.
Evaluate ==
    /\ at = "evaluate" /\ ~signal
    /\ \/ /\ subs[loop.sub].state = "preparing"
          /\ \E passed \in BOOLEAN : subs' = Evaluated(loop.sub, passed)
       \/ subs[loop.sub].state # "preparing" /\ UNCHANGED subs
    /\ CASE subs'[loop.sub].passed = "yes" -> at' = "keep evaluation" /\ UNCHANGED loop
         [] subs'[loop.sub].passed = "no" -> Ends("fail_closed", "execution_error")
         [] OTHER -> Ends("failed", "execution_error")
    /\ UNCHANGED <<kind, core, state, handle, signal, poll, late, abort, budget>>

\* Bug: the submission is noted before it is made.
KeepBoth ==
    /\ at = "keep evaluation"
    /\ Keep([state.flow[loop.gate] EXCEPT !.evaluated = TRUE, !.submitted = TRUE],
            "submit", loop)

KeepEvaluation ==
    /\ at = "keep evaluation"
    /\ Keep([state.flow[loop.gate] EXCEPT !.evaluated = TRUE], "submit", loop)

Submit ==
    /\ at = "submit" /\ ~signal /\ at' = "keep submission"
    /\ subs' = IF subs[loop.sub].state = "checking" THEN Submitted(loop.sub) ELSE subs
    /\ UNCHANGED <<kind, core, state, handle, loop, signal, poll, late, abort, budget>>

KeepSubmission ==
    /\ at = "keep submission"
    /\ Keep([state.flow[loop.gate] EXCEPT !.submitted = TRUE], "settle",
            [loop EXCEPT !.result = "awaiting"])
-----------------------------------------------------------------------------
(* What becomes of an execution *)

\* applyResult of a pause.
Pause ==
    /\ at = "settle" /\ ~signal /\ loop.result = "awaiting"
    /\ handle' = [handle EXCEPT !.status = "awaiting", !.awaiting = loop.gate,
                                !.busy = FALSE]
    /\ at' = "idle"
    /\ UNCHANGED <<kind, core, subs, state, loop, signal, poll, late, abort, budget>>

\* applyResult of an end: from here on it cannot be aborted.
Settle ==
    /\ at = "settle" /\ ~signal /\ loop.result \in Terminal
    /\ handle' = [handle EXCEPT !.status = loop.result, !.cause = loop.cause,
                                !.awaiting = 0]
    /\ state' = [state EXCEPT !.status = loop.result, !.awaiting = 0,
                              !.cause = IF loop.cause = "none" THEN @ ELSE loop.cause]
    /\ at' = "report"
    /\ UNCHANGED <<kind, core, subs, loop, signal, poll, late, abort, budget>>

Report ==
    /\ at = "report"
    /\ \/ /\ Heard(state.status) /\ at' = "idle"
          /\ handle' = [handle EXCEPT !.busy = FALSE]
       \/ Unheard(state.status) /\ at' = "close" /\ UNCHANGED handle
    /\ UNCHANGED <<kind, subs, state, loop, signal, poll, late, abort>>

\* The catch of executeAgent: failClosedCoreTask.
Close ==
    /\ at = "close" /\ Closed("execution_error") /\ at' = "idle"
    /\ handle' = [handle EXCEPT !.busy = FALSE, !.status = "fail_closed",
                                !.cause = "execution_error"]
    /\ UNCHANGED <<kind, subs, loop, signal, poll, late, abort>>

Guarded ==
    {"context", "poll", "stage", "work", "create", "note", "formal", "bind", "evaluate",
     "keep evaluation", "submit", "keep submission", "settle"}

\* The abort reaches the executor; its request in flight is left to itself.
Break ==
    /\ signal /\ at \in Guarded
    /\ handle' = [handle EXCEPT !.status = "failed", !.awaiting = 0, !.busy = FALSE]
    /\ state' = [state EXCEPT !.status = "failed", !.awaiting = 0]
    /\ at' = "idle" /\ late' \in {NoRequest, Request}
    /\ UNCHANGED <<kind, core, subs, loop, signal, poll, abort, budget>>
-----------------------------------------------------------------------------
(* The monitor, people, and the abort of Core *)

\* pollGate: a gate not yet submitted is gone on with, another is asked about.
PollAsk ==
    /\ handle.up /\ ~handle.busy /\ handle.status = "awaiting" /\ poll = "none"
    /\ IF state.flow[handle.awaiting].submitted
       THEN poll' = "asked" /\ UNCHANGED <<handle, at, loop, signal>>
       ELSE Execute(TRUE) /\ UNCHANGED poll
    /\ UNCHANGED <<kind, core, subs, state, late, abort, budget>>

\* Bug: only refusals are noticed.
PollReadRefusal ==
    /\ poll = "asked" /\ handle.awaiting # 0 /\ UNCHANGED budget
    /\ LET found == subs[state.sub[handle.awaiting]].state IN
         poll' = IF found \in {"rejected", "withdrawn"} THEN found ELSE "none"
    /\ UNCHANGED <<kind, core, subs, state, handle, at, loop, signal, late, abort>>

\* The answer, on its way back.
PollRead ==
    /\ poll = "asked"
    /\ \/ handle.awaiting = 0 /\ poll' = "none" /\ UNCHANGED budget
       \/ Spend("faults") /\ poll' = "none"
       \/ /\ handle.awaiting # 0 /\ UNCHANGED budget
          /\ LET found == subs[state.sub[handle.awaiting]].state IN
               poll' = IF found \in Decided THEN found ELSE "none"
    /\ UNCHANGED <<kind, core, subs, state, handle, at, loop, signal, late, abort>>

PollApproved ==
    /\ poll = "approved" /\ poll' = "none"
    /\ IF handle.busy THEN UNCHANGED <<handle, at, loop, signal>> ELSE Execute(TRUE)
    /\ UNCHANGED <<kind, core, subs, state, late, abort, budget>>

PollRefused ==
    /\ poll \in {"rejected", "withdrawn"} /\ poll' = "none"
    /\ Closed("governance_rejected")
    /\ handle' = [handle EXCEPT !.status = "fail_closed", !.awaiting = 0,
                                !.cause = "governance_rejected"]
    /\ UNCHANGED <<kind, subs, at, loop, signal, late, abort>>

\* handleResume.
Resume ==
    /\ handle.status \in {"awaiting", "interrupted", "failed", "fail_closed"}
    /\ handle.cause # "governance_rejected"
    /\ Spend("resumes") /\ Execute(TRUE)
    /\ UNCHANGED <<kind, core, subs, state, poll, late, abort>>

Approve(s) ==
    /\ subs[s].state = "in_review" /\ subs[s].gate = core.gate
    /\ subs' = [subs EXCEPT ![s].state = "approved"]
    /\ core' = [core EXCEPT !.gate = @ + 1]
    /\ UNCHANGED <<kind, state, handle, at, loop, signal, poll, late, abort, budget>>

Reject(s) ==
    /\ subs[s].state = "in_review" /\ subs' = [subs EXCEPT ![s].state = "rejected"]
    /\ UNCHANGED <<kind, core, state, handle, at, loop, signal, poll, late, abort, budget>>

Withdraw(s) ==
    /\ subs[s].state \in {"preparing", "in_review"}
    /\ subs' = [subs EXCEPT ![s].state = "withdrawn"]
    /\ UNCHANGED <<kind, core, state, handle, at, loop, signal, poll, late, abort, budget>>

\* The last gate is passed by the project's agent and a person.
Release ==
    /\ Creatable(Last) /\ core' = [core EXCEPT !.gate = @ + 1]
    /\ UNCHANGED <<kind, subs, state, handle, at, loop, signal, poll, late, abort, budget>>

\* Core locks the row and calls the runtime, which signals what can be aborted.
AbortCall ==
    /\ handle.up /\ handle.begun /\ abort = "none" /\ Spend("aborts")
    /\ Owned => core.row \in Open /\ ~core.locked
    /\ core' = [core EXCEPT !.locked = Owned]
    /\ IF at \in Guarded \cup {"announce"} THEN signal' = TRUE /\ abort' = "confirmed"
       ELSE /\ UNCHANGED signal
            /\ abort' = IF at \in {"report", "close"} THEN "refused" ELSE "confirmed"
    /\ UNCHANGED <<kind, subs, state, handle, at, loop, poll, late>>

AbortEnds ==
    /\ abort # "none" /\ abort' = "none"
    /\ core' = [core EXCEPT !.locked = FALSE,
                            !.row = IF Owned /\ abort = "confirmed" THEN "cancelled" ELSE @]
    /\ UNCHANGED <<kind, subs, state, handle, at, loop, signal, poll, late, budget>>
-----------------------------------------------------------------------------
(* Crash and recovery *)

Crash ==
    /\ handle.up /\ handle.begun /\ Spend("crashes")
    /\ handle' = [handle EXCEPT !.up = FALSE, !.busy = FALSE]
    /\ at' = "idle" /\ signal' = FALSE /\ poll' = "none"
    /\ late' \in {late, Request}
    /\ UNCHANGED <<kind, core, subs, state, loop, abort>>

WasRunning == ~handle.up /\ state.status = "running"

\* recover: an interrupted run of Core's is given up ...
RecoverOwned ==
    /\ WasRunning /\ Owned /\ Closed("execution_error")
    /\ handle' = [handle EXCEPT !.up = TRUE, !.status = "fail_closed",
                                !.cause = "execution_error", !.awaiting = 0]
    /\ UNCHANGED <<kind, subs, at, loop, signal, poll, late, abort>>

\* ... another may be resumed ...
RecoverLoose ==
    /\ WasRunning /\ ~Owned
    /\ handle' = [handle EXCEPT !.up = TRUE, !.status = "interrupted",
                                !.awaiting = 0, !.cause = state.cause]
    /\ state' = [state EXCEPT !.status = "failed", !.cause = "execution_error"]
    /\ UNCHANGED <<kind, core, subs, at, loop, signal, poll, late, abort, budget>>

\* ... and what waited or had ended is as it was.
RecoverRest ==
    /\ ~handle.up /\ state.status # "running"
    /\ handle' = [handle EXCEPT !.up = TRUE, !.status = state.status,
                                !.awaiting = state.awaiting, !.cause = state.cause]
    /\ UNCHANGED <<kind, core, subs, state, at, loop, signal, poll, late, abort, budget>>

Restart == RecoverOwned \/ RecoverLoose \/ RecoverRest
-----------------------------------------------------------------------------
Step ==
    \/ Start \/ Announce \/ Context \/ AskApproved \/ AskRest \/ Stage \/ Work
    \/ Create \/ Note \/ Formal \/ BindingDiverges \/ Bind \/ Evaluate
    \/ KeepEvaluation \/ Submit \/ KeepSubmission
    \/ Pause \/ Settle \/ Report \/ Close \/ Break

Monitor == PollAsk \/ PollRead \/ PollApproved \/ PollRefused

People ==
    \/ Resume \/ Release
    \/ \E s \in DOMAIN subs : Approve(s) \/ Reject(s) \/ Withdraw(s)

Next ==
    \/ Step \/ Monitor \/ People \/ RequestFails \/ LateLands
    \/ AbortCall \/ AbortEnds \/ Crash \/ Restart

Spec == Init /\ [][Next]_vars

FairSpec ==
    /\ Spec
    /\ WF_vars(Step) /\ WF_vars(Monitor) /\ WF_vars(AbortEnds) /\ WF_vars(Restart)
-----------------------------------------------------------------------------
Cause == {"none", "execution_error", "governance_rejected"}
FlowType == [sub : Nat, evaluated : BOOLEAN, submitted : BOOLEAN]
CoreType ==
    [gate : 1 .. Last + 1, locked : BOOLEAN,
     row : Open \cup Terminal \cup {"none", "cancelled"}]
SubType ==
    [gate : Gate, passed : {"none", "yes", "no"},
     state : Decided \cup {"preparing", "checking", "in_review"}]
FileType ==
    [status : Terminal \cup {"running", "awaiting"}, gate : Gate, awaiting : 0 .. Last,
     cause : Cause, sub : [Gate -> Nat], flow : [Gate -> FlowType]]
HandleType ==
    [up : BOOLEAN, begun : BOOLEAN, busy : BOOLEAN, awaiting : 0 .. Last, cause : Cause,
     status : Terminal \cup {"running", "awaiting", "interrupted"}]
LoopType ==
    [gate : Gate, sub : Nat, resume : BOOLEAN, cause : Cause,
     result : Terminal \cup {"none", "awaiting"}]

\* The types of the variables.
TypeOK ==
    /\ kind \in {"owned", "loose"} /\ core \in CoreType /\ subs \in Seq(SubType)
    /\ state \in FileType /\ handle \in HandleType /\ loop \in LoopType
    /\ at \in Guarded \cup {"idle", "announce", "report", "close"}
    /\ late \in [op : {"none", "create", "evaluate", "submit"}, gate : Gate, sub : Nat]

\* The stages of a gate are worked on only when people have approved every gate before
\* it, and the run succeeds only when they have approved them all, whatever the run's
\* file, its answers and the monitor had to say about them.
WorkFollowsApproval ==
    /\ at = "work" => loop.gate <= core.gate
    /\ handle.status = "succeeded" => core.gate > Last

\* The file is never ahead of Core: what it says was evaluated or submitted was, over
\* crashes, lost answers and requests that land late.
ProgressIsCores ==
    \A g \in Gate :
      LET f == state.flow[g] IN
      /\ f.evaluated => subs[f.sub].passed = "yes"
      /\ f.submitted => subs[f.sub].state \in Decided \cup {"in_review"}

\* Once Core's row has ended, by an abort, a crash or a refusal, the run begins no
\* work any more, though the monitor and people go on resuming it.
EndedNeverWorks ==
    [][Owned /\ core.row \notin Open /\ at # "work" => at' # "work"]_vars

\* When the gate a run waits at is approved, the run goes on to a later gate, or it
\* ends: it does not wait for ever.
Noticeable(g) ==
    /\ handle.up /\ handle.status = "awaiting" /\ handle.awaiting = g
    /\ state.flow[g].submitted /\ subs[state.sub[g]].state = "approved"

ApprovalIsNoticed ==
    \A g \in Gate :
      Noticeable(g) ~> (at = "work" /\ loop.gate > g) \/ state.status \in Terminal

\* A resumed run goes on where it waited: when it has read the process's context, it
\* does not set out again for a gate that people have approved.
ResumeContinues ==
    [][at = "context" /\ at' = "stage" => loop'.gate >= core.gate]_vars

\* What people approved is behind the process; what was evaluated says so.
SubsInv ==
    \A s \in DOMAIN subs :
      /\ subs[s].state = "approved" => subs[s].gate < core.gate
      /\ subs[s].passed = "yes" => subs[s].state # "preparing"
      /\ subs[s].state \in {"checking", "in_review"} => subs[s].passed = "yes"

InReviewOrPast(s) == subs[s].state \in Decided \cup {"in_review"}

\* The file names submissions of the gate it names them for, and is not ahead.
FileInv ==
    /\ state.gate <= core.gate
    /\ "succeeded" \in {state.status, handle.status, loop.result} => core.gate > Last
    /\ state.flow[Last] = NoFlow
    /\ state.awaiting # 0 => state.flow[state.awaiting].sub # 0
    /\ \A g \in Gate :
         /\ state.sub[g] # 0 => state.sub[g] \in DOMAIN subs /\ subs[state.sub[g]].gate = g
         /\ state.flow[g] # NoFlow => state.flow[g].sub # 0
         /\ state.flow[g].sub # 0 => state.flow[g].sub \in DOMAIN subs /\ state.sub[g] # 0
         /\ state.flow[g].evaluated => subs[state.flow[g].sub].passed = "yes"
         /\ state.flow[g].submitted => InReviewOrPast(state.flow[g].sub)

\* What the executor holds at each of its points.
Bound == {"evaluate", "keep evaluation", "submit", "keep submission"}

LoopInv ==
    /\ at \in {"stage", "work"} => loop.gate <= core.gate
    /\ at \in {"poll", "bind"} \cup Bound => loop.gate # Last
    /\ at = "poll" => state.sub[loop.gate] # 0
    /\ at \in {"note", "bind"} \cup Bound => loop.sub \in DOMAIN subs
    /\ at = "note" => subs[loop.sub].gate = loop.gate
    /\ at = "bind" => state.sub[loop.gate] # 0
    /\ at \in Bound => state.flow[loop.gate].sub = loop.sub
    /\ at \in Bound \ {"evaluate"} => subs[loop.sub].passed = "yes"
    /\ at = "keep submission" => InReviewOrPast(loop.sub)

LateInv == late.op \in {"evaluate", "submit"} => late.sub \in DOMAIN subs

\* The inductive invariant.
RunInv == TypeOK /\ SubsInv /\ FileInv /\ LoopInv /\ LateInv
=============================================================================
