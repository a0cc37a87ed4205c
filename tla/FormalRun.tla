------------------------------ MODULE FormalRun ------------------------------
(***************************************************************************)
(* The formal run of a work version at G4: the input that a person         *)
(* confirms, the tool jobs Core submits for it, the evidence Core freezes, *)
(* the evaluation that rests on them (core/src/api/p4-handlers.ts), and    *)
(* the orchestrator of the runtime that drives all that                    *)
(* (runtime/formal-flow.ts).                                               *)
(*                                                                         *)
(* Core calls the connector inside the transaction that inserts the run,   *)
(* and asks for a job's status before the transaction that stores it: both *)
(* are two steps here.  The other handlers lock the work version and are   *)
(* one.  One B1, one snapshot and one submission: GateFlow has the rest.   *)
(* An input is named by the readiness row it was assembled from, which     *)
(* the unique index on the input's hash allows.                            *)
(***************************************************************************)
EXTENDS Naturals

CONSTANTS
    Last,       \* the number of operations; the last one is implement
    MaxReady,   \* readiness rows
    MaxFaults,  \* calls whose answer is lost, writes of the connector that fail
    MaxCrashes, \* of the runtime
    MaxRestarts, \* of the connector
    MaxDrifts,  \* changes of the connector's toolchain
    MaxCalls,   \* of a person, who submits jobs, asks for them and freezes evidence
    MaxTroubles \* of all these together

ASSUME FormalAssumption ==
    /\ {Last, MaxReady} \subseteq Nat \ {0}
    /\ {MaxFaults, MaxCrashes, MaxRestarts, MaxDrifts, MaxCalls, MaxTroubles} \subseteq Nat

VARIABLES
    ready,     \* the last project_readiness row
    confirmed, \* formal_input_approval
    work,      \* project_work_version.state
    drift,     \* the connector no longer has the project's toolchain
    row,       \* tool_run.state
    job,       \* the connector's jobs: how the last execution ended, as its evidence
               \* says, whether that is there, and how often the job ran and was forgotten
    frozen,    \* tool_run_evidence_manifest, with the verdicts
    tx,        \* the transaction that submits a job
    read,      \* a status that was asked for and is not stored yet
    sub,       \* gate_submission, with the input its evaluation sealed
    progress,  \* FormalFlowProgressV1, as the agent-state file has it
    at,        \* where advance() is
    budget

inputs == <<ready, confirmed>>
core == <<inputs, work, row, frozen, sub>>
flow == <<progress, at>>
vars == <<core, drift, job, tx, read, flow, budget>>

Op == 1 .. Last
Input == 1 .. MaxReady
Caller == {"flow", "person"}
Ended == {"succeeded", "failed", "lost"}
Outcome == {"succeeded", "unmet", "failed"}
NoJob == [state |-> "none", last |-> "none", ev |-> "none", runs |-> 0, forgets |-> 0]
NoTx == [by |-> "none", input |-> 1, op |-> 1, accepted |-> FALSE]
NoRead == [input |-> 0, op |-> 1, state |-> "none"]
Idle == [pc |-> "idle", op |-> 1]

Init ==
    /\ ready = [seq |-> 1, state |-> "confirmed"] /\ confirmed = {}
    /\ work = "working" /\ drift = FALSE
    /\ row = [i \in Input |-> [o \in Op |-> "none"]]
    /\ job = [i \in Input |-> [o \in Op |-> NoJob]]
    /\ frozen = [i \in Input |-> [o \in Op |-> "none"]]
    /\ tx = NoTx /\ read = [c \in Caller |-> NoRead]
    /\ sub = [state |-> "preparing", sealed |-> 0]
    /\ progress = [input |-> 0, status |-> "none", approved |-> FALSE, evaluated |-> FALSE,
                   job |-> [o \in Op |-> FALSE], evidence |-> [o \in Op |-> FALSE]]
    /\ at = Idle
    /\ budget = [faults |-> MaxFaults, crashes |-> MaxCrashes, restarts |-> MaxRestarts,
                 drifts |-> MaxDrifts, calls |-> MaxCalls, all |-> MaxTroubles]

Spend(what) ==
    /\ budget[what] > 0 /\ budget.all > 0
    /\ budget' = [budget EXCEPT ![what] = @ - 1, !.all = @ - 1]

\* Nobody holds the work version's row.
Free == tx = NoTx
-----------------------------------------------------------------------------
(* The orchestrator's requests *)

Fails == progress' = [progress EXCEPT !.status = "failed"] /\ at' = Idle

Goes(p, pc, op) == progress' = p /\ at' = [pc |-> pc, op |-> op] /\ UNCHANGED budget

\* No answer came: the client asks again, and gives up after the second time.
Unanswered ==
    /\ Spend("faults")
    /\ Fails \/ UNCHANGED flow

After(op) == IF op = Last THEN "evaluate" ELSE "job"
Following(op) == IF op = Last THEN op ELSE op + 1

\* Bug: a job that was lost is taken for one that is still on its way.
LearnsNothing(op, state) ==
    LET p == [progress EXCEPT !.job[op] = TRUE] IN
    CASE state = "succeeded" -> Goes(p, "evidence", op)
      [] state = "failed" -> Goes([p EXCEPT !.status = "failed"], "idle", 1)
      [] OTHER -> Goes(p, "idle", 1)

\* The job and its state are persisted, then the state is looked at; it is asked for anew
\* the next time, so that a job is known is all that is kept.
Learns(op, state) ==
    LET p == [progress EXCEPT !.job[op] = TRUE] IN
    CASE state = "succeeded" -> Goes(p, "evidence", op)
      [] state \in Ended \ {"succeeded"} ->
           Goes([p EXCEPT !.status = "failed"], "idle", 1)
      [] OTHER -> Goes(p, "idle", 1)
-----------------------------------------------------------------------------
(* Readiness and formal input *)

\* A new row, blocked or to be confirmed, takes the place of the last one.
PrepareReadiness(state) ==
    /\ Free /\ work = "working" /\ ready.seq < MaxReady
    /\ state = "ready" => ~drift
    /\ ready' = [seq |-> ready.seq + 1, state |-> state]
    /\ UNCHANGED <<confirmed, work, drift, row, job, frozen, tx, read, sub, flow, budget>>

ConfirmReadiness ==
    /\ Free /\ ready.state = "ready" /\ ready' = [ready EXCEPT !.state = "confirmed"]
    /\ UNCHANGED <<confirmed, work, drift, row, job, frozen, tx, read, sub, flow, budget>>

\* assembleFormalInput
Assembled(i) == Free /\ work = "working" /\ i = ready.seq /\ ready.state = "confirmed"

\* The preview the person confirms is assembled anew.  The toolchain was discovered
\* before the lock was taken, and may have changed since.
ConfirmInput(i) ==
    /\ Assembled(i) /\ i \notin confirmed
    /\ confirmed' = confirmed \union {i}
    /\ UNCHANGED <<ready, work, drift, row, job, frozen, tx, read, sub, flow, budget>>

Live(i) ==
    /\ i \in confirmed /\ i = ready.seq /\ ready.state = "confirmed"
    /\ work \in {"working", "in_review"}
-----------------------------------------------------------------------------
(* Jobs *)

\* The run of an input and an operation is submitted once; whoever asks again gets it.
Attach(i, op) ==
    /\ Free /\ Live(i) /\ row[i][op] # "none"
    /\ Learns(op, row[i][op]) \/ Unanswered
    /\ UNCHANGED <<core, drift, job, tx, read>>

SubmitBegin(by, i, op) ==
    /\ Free /\ Live(i) /\ row[i][op] = "none" /\ ~drift
    /\ tx' = [by |-> by, input |-> i, op |-> op, accepted |-> FALSE]
    /\ IF by = "person" THEN Spend("calls") ELSE UNCHANGED budget
    /\ UNCHANGED <<core, drift, job, read, flow>>

\* The connector knows the job by the run's id, which is made of project, input and
\* operation.  One that it forgot, and that Core forgot with its transaction, it takes anew.
SubmitAccept ==
    /\ tx.by # "none" /\ ~tx.accepted
    /\ tx' = [tx EXCEPT !.accepted = TRUE]
    /\ job' = [job EXCEPT ![tx.input][tx.op].state = IF @ = "none" THEN "submitted" ELSE @]
    /\ UNCHANGED <<core, drift, read, flow, budget>>

FlowSubmits == tx.by = "flow" /\ at = [pc |-> "job", op |-> tx.op]

SubmitCommit ==
    /\ tx.accepted /\ tx' = NoTx
    /\ row' = [row EXCEPT ![tx.input][tx.op] = "submitted"]
    /\ IF FlowSubmits THEN Learns(tx.op, "submitted") \/ Unanswered
       ELSE UNCHANGED <<flow, budget>>
    /\ UNCHANGED <<inputs, work, frozen, sub, drift, job, read>>

\* The call fails, its answer is lost or Core dies: the row was never there.
SubmitAbort ==
    /\ tx.by # "none" /\ tx' = NoTx
    /\ IF FlowSubmits THEN Unanswered ELSE Spend("faults") /\ UNCHANGED flow
    /\ UNCHANGED <<core, drift, job, read>>

\* An execution ends so, and says so before its evidence is there.
Ends(j, state, last) == [j EXCEPT !.state = state, !.last = last, !.ev = "pending"]

\* The adapter refuses a toolchain that is not the job's, which is an outcome, too.
Execute(i, op) ==
    LET j == job[i][op] IN
    /\ j.state = "submitted"
    /\ job' = [job EXCEPT ![i][op] =
                 IF drift THEN Ends(j, "failed", "failed")
                 ELSE [j EXCEPT !.state = "running", !.runs = j.runs + 1]]
    /\ UNCHANGED <<core, drift, tx, read, flow, budget>>

\* A run that succeeds may still miss what is asked of it.
Finish(i, op, last) ==
    /\ job[i][op].state = "running"
    /\ job' = [job EXCEPT ![i][op] =
                 Ends(@, IF last = "unmet" THEN "succeeded" ELSE last, last)]
    /\ UNCHANGED <<core, drift, tx, read, flow, budget>>

\* The output is written, and the manifest with it.
Publish(i, op) ==
    /\ job[i][op].ev = "pending"
    /\ job' = [job EXCEPT ![i][op].ev = "there"]
    /\ UNCHANGED <<core, drift, tx, read, flow, budget>>

\* A write fails, before the execution or after it: the job fails, and what it had
\* shown is taken back.
Breaks(i, op) ==
    LET j == job[i][op] IN
    /\ j.state \in {"submitted", "running"} \/ j.ev = "pending"
    /\ Spend("faults")
    /\ job' = [job EXCEPT ![i][op] =
                 [j EXCEPT !.state = "failed", !.ev = "none",
                           !.last = IF j.ev = "pending" THEN @ ELSE "failed"]]
    /\ UNCHANGED <<core, drift, tx, read, flow>>

\* What a job may be after a restart.  The registry is written by calls that nobody
\* waits for, in place: it may be missing, or from when the job had not ended, had no
\* evidence yet or had not been taken back.
Restored(j) ==
    LET bare == [j EXCEPT !.ev = "none"] IN
    {[bare EXCEPT !.state = "none", !.forgets = @ + 1], [bare EXCEPT !.state = "lost"]}
      \union (IF j.state \in Ended THEN {bare} ELSE {})
      \union (IF j.ev = "there" THEN {j} ELSE {})
      \union (IF j.state = "failed" /\ j.last \in {"succeeded", "unmet"}
              THEN {[bare EXCEPT !.state = "succeeded"]} ELSE {})

Taken == {t \in Input \X Op : job[t[1]][t[2]].state # "none"}

Restart ==
    /\ Taken # {} /\ Spend("restarts")
    /\ \E now \in [Taken -> UNION {Restored(job[t[1]][t[2]]) : t \in Taken}] :
         /\ \A t \in Taken : now[t] \in Restored(job[t[1]][t[2]])
         /\ job' = [i \in Input |-> [op \in Op |->
                      IF <<i, op>> \in Taken THEN now[<<i, op>>] ELSE job[i][op]]]
    /\ UNCHANGED <<core, drift, tx, read, flow>>

Drift ==
    /\ Spend("drifts") /\ drift' = ~drift
    /\ UNCHANGED <<core, job, tx, read, flow>>

\* getP4FormalJobHandler asks the connector, which may know nothing of the job ...
Asked(by, i, op) ==
    /\ read[by] = NoRead /\ row[i][op] # "none" /\ job[i][op].state # "none"
    /\ read' = [read EXCEPT ![by] = [input |-> i, op |-> op, state |-> job[i][op].state]]

Fetch(i, op) ==
    /\ Asked("person", i, op) /\ Spend("calls")
    /\ UNCHANGED <<core, drift, job, tx, flow>>

\* ... and stores what it said, whatever the row says by now.
Store(by) ==
    LET r == read[by] IN
    /\ r # NoRead /\ read' = [read EXCEPT ![by] = NoRead]
    /\ row' = [row EXCEPT ![r.input][r.op] = r.state]
    /\ IF by = "flow" /\ at = [pc |-> "asked", op |-> r.op]
       THEN Learns(r.op, r.state) \/ (Spend("faults") /\ Fails)
       ELSE UNCHANGED <<flow, budget>>
    /\ UNCHANGED <<inputs, work, frozen, sub, drift, job, tx>>
-----------------------------------------------------------------------------
(* Evidence *)

\* Bug: evidence is taken before the run is known to have ended.
FreezableEarly(i, op) ==
    /\ Free /\ Live(i) /\ row[i][op] # "none"
    /\ frozen[i][op] # "none" \/ job[i][op].ev = "there"

\* Evidence is of a run that has ended.  Once frozen, the connector is not asked.
Freezable(i, op) ==
    /\ Free /\ Live(i) /\ row[i][op] \in Ended
    /\ frozen[i][op] # "none" \/ job[i][op].ev = "there"

\* What the manifest says of the run: its state, and whether the verdicts are those
\* that are asked for.
Verdict(i, op) ==
    IF row[i][op] = "succeeded" /\ job[i][op].last = "unmet" THEN "unmet" ELSE row[i][op]

\* What is frozen is never written again.
Frozen(i, op) ==
    IF frozen[i][op] # "none" THEN UNCHANGED frozen
    ELSE frozen' = [frozen EXCEPT ![i][op] = Verdict(i, op)]

Freeze(i, op) ==
    /\ Freezable(i, op) /\ Frozen(i, op) /\ Spend("calls")
    /\ UNCHANGED <<inputs, work, row, sub, drift, job, tx, read, flow>>
-----------------------------------------------------------------------------
(* The evaluation, its submission for review and the approval *)

\* The bitstream is formal when the run that made it met all its verdicts.
FormalBitstream(i) == frozen[i][Last] = "succeeded"

\* Bug: the runs are looked for under any input of the work version.
BackedByAny(i) ==
    Live(i) /\ \A op \in Op : \E k \in Input :
                 row[k][op] = "succeeded" /\ frozen[k][op] = "succeeded"

\* buildG4Facts and the checks of G4.
Backed(i) ==
    /\ Live(i) /\ FormalBitstream(i)
    /\ \A op \in Op : row[i][op] = "succeeded" /\ frozen[i][op] = "succeeded"

\* The one evaluation; other checks may fail, too.
Evaluate(passed) ==
    /\ Free /\ sub.state = "preparing" /\ work = "working"
    /\ passed => Backed(ready.seq)
    /\ sub' = IF passed THEN [state |-> "checking", sealed |-> ready.seq]
              ELSE [sub EXCEPT !.state = "rejected"]

\* revalidateEvaluation: the projection comes out the same.
Revalidated == Free /\ Backed(ready.seq) /\ sub.sealed = ready.seq

Approve ==
    /\ sub.state = "in_review" /\ Revalidated
    /\ sub' = [sub EXCEPT !.state = "approved"] /\ work' = "released"
    /\ UNCHANGED <<inputs, row, frozen, drift, job, tx, read, flow, budget>>
-----------------------------------------------------------------------------
(* FormalFlowOrchestrator *)

Doing(pc) == at.pc = pc /\ progress.status # "failed"

\* initialize: the preview is assembled by Core and kept by no one but the flow.
Initialize ==
    /\ Doing("idle") /\ progress.status = "none"
    /\ \/ /\ Assembled(ready.seq) /\ ~drift
          /\ \/ Goes([progress EXCEPT !.input = ready.seq, !.status = "awaiting_input"],
                     "approval", 1)
             \/ Unanswered
       \/ /\ Free /\ (~Assembled(ready.seq) \/ drift) /\ Fails /\ UNCHANGED budget
    /\ UNCHANGED <<core, drift, job, tx, read>>

\* The monitor takes the run up again.
Advance ==
    /\ Doing("idle") /\ progress.status \in {"awaiting_input", "running"}
    /\ Goes(progress, IF progress.approved THEN "job" ELSE "approval", 1)
    /\ UNCHANGED <<core, drift, job, tx, read>>

GetApproval ==
    /\ Doing("approval")
    /\ \/ /\ progress.input \in confirmed
          /\ Goes([progress EXCEPT !.approved = TRUE, !.status = "running"], "job", 1)
       \/ progress.input \notin confirmed /\ Goes(progress, "idle", 1)
       \/ Unanswered
    /\ UNCHANGED <<core, drift, job, tx, read>>

\* A job that the progress does not know is submitted.
SubmitJob ==
    LET i == progress.input IN
    /\ Doing("job") /\ ~progress.job[at.op]
    /\ \/ Attach(i, at.op)
       \/ SubmitBegin("flow", i, at.op)
       \/ /\ Free /\ (~Live(i) \/ (row[i][at.op] = "none" /\ drift))
          /\ Fails /\ UNCHANGED <<core, drift, job, tx, read, budget>>

\* A job that the connector forgot is not found.
GetJob ==
    LET i == progress.input IN
    /\ Doing("job") /\ progress.job[at.op]
    /\ \/ Asked("flow", i, at.op) /\ at' = [at EXCEPT !.pc = "asked"] /\ UNCHANGED progress
       \/ job[i][at.op].state = "none" /\ Fails /\ UNCHANGED read
    /\ UNCHANGED <<core, drift, job, tx, budget>>

\* verifyEvidence: it is of a run that succeeded.
Keeps(op) ==
    IF frozen'[progress.input][op] \in {"succeeded", "unmet"}
    THEN Goes([progress EXCEPT !.evidence[op] = TRUE], After(op), Following(op))
    ELSE Fails /\ UNCHANGED budget

GetEvidence ==
    LET i == progress.input
        op == at.op IN
    /\ Doing("evidence")
    /\ \/ /\ progress.evidence[op] /\ UNCHANGED frozen
          /\ Keeps(op) \/ Unanswered
       \/ /\ ~progress.evidence[op] /\ Freezable(i, op) /\ Frozen(i, op)
          /\ Keeps(op) \/ Unanswered
       \/ /\ ~progress.evidence[op] /\ Free /\ ~Freezable(i, op) /\ UNCHANGED frozen
          /\ Fails /\ UNCHANGED budget
    /\ UNCHANGED <<inputs, work, row, sub, drift, job, tx, read>>

\* Bug: an evaluation is an evaluation.
NotesAny == Goes([progress EXCEPT !.evaluated = TRUE], "submit", 1)

\* verifyG4Evaluation: only one that passed goes on.
Notes ==
    IF sub'.state = "checking" THEN Goes([progress EXCEPT !.evaluated = TRUE], "submit", 1)
    ELSE Fails /\ UNCHANGED budget

\* The evaluation's id and key are those of the flow: asked again, Core answers again.
AskEvaluation ==
    /\ Doing("evaluate") /\ ~progress.evaluated /\ Free
    /\ \/ /\ work = "working"
          /\ \/ \E passed \in BOOLEAN : Evaluate(passed)
             \/ sub.state \in {"checking", "rejected"} /\ UNCHANGED sub
          /\ Notes \/ Unanswered
       \/ work # "working" /\ Fails /\ UNCHANGED <<sub, budget>>
    /\ UNCHANGED <<inputs, work, row, frozen, drift, job, tx, read>>

GoesOn ==
    /\ Doing("evaluate") /\ progress.evaluated /\ Goes(progress, "submit", 1)
    /\ UNCHANGED <<core, drift, job, tx, read>>

\* Submitted again, the submission is still what it was; not so once it is approved.
AskReview ==
    /\ Doing("submit") /\ Free
    /\ \/ /\ sub.state \in {"checking", "in_review"} /\ Revalidated
          /\ sub' = [sub EXCEPT !.state = "in_review"] /\ work' = "in_review"
          /\ \/ Goes([progress EXCEPT !.status = "awaiting_gate"], "idle", 1)
             \/ Unanswered
       \/ /\ sub.state = "approved" \/ ~Revalidated
          /\ UNCHANGED <<sub, work>> /\ Fails /\ UNCHANGED budget
    /\ UNCHANGED <<inputs, row, frozen, drift, job, tx, read>>

\* verifyReleased: the release is of the input this flow had confirmed.
VerifyReleased ==
    /\ Doing("idle") /\ progress.status = "awaiting_gate" /\ sub.state = "approved"
    /\ \/ sub.sealed = progress.input
          /\ (Goes([progress EXCEPT !.status = "released"], "idle", 1) \/ Unanswered)
       \/ sub.sealed # progress.input /\ Fails /\ UNCHANGED budget
    /\ UNCHANGED <<core, drift, job, tx, read>>

\* The runtime starts anew from the persisted progress.
Crash ==
    /\ at # Idle /\ Spend("crashes") /\ at' = Idle
    /\ UNCHANGED <<core, drift, job, tx, read, progress>>
-----------------------------------------------------------------------------
Flow ==
    \/ Initialize \/ Advance \/ GetApproval \/ SubmitJob \/ GetJob \/ GetEvidence
    \/ AskEvaluation \/ GoesOn \/ AskReview \/ VerifyReleased

\* The person who confirmed the input may do all that the runtime may.
Person ==
    \/ \E state \in {"blocked", "ready"} : PrepareReadiness(state)
    \/ ConfirmReadiness \/ Approve
    \/ \E i \in Input : ConfirmInput(i)
    \/ \E i \in Input, op \in Op :
         SubmitBegin("person", i, op) \/ Fetch(i, op) \/ Freeze(i, op)

Core == SubmitAccept \/ SubmitCommit \/ \E c \in Caller : Store(c)

Connector ==
    \E i \in Input, op \in Op :
      \/ Execute(i, op) \/ Publish(i, op) \/ Breaks(i, op)
      \/ \E last \in Outcome : Finish(i, op, last)

Next ==
    \/ Flow \/ Person \/ Core \/ Connector
    \/ SubmitAbort \/ Drift \/ Crash \/ Restart

Spec == Init /\ [][Next]_vars

\* The monitor ticks, requests end, and the connector works its queue off.
FairSpec ==
    /\ Spec /\ WF_vars(Flow) /\ WF_vars(SubmitAccept) /\ WF_vars(SubmitCommit)
    /\ \A c \in Caller : WF_vars(Store(c))
    /\ \A i \in Input, op \in Op :
         /\ WF_vars(Execute(i, op)) /\ WF_vars(Publish(i, op))
         /\ WF_vars(\E last \in Outcome : Finish(i, op, last))
-----------------------------------------------------------------------------
JobState == {"none", "submitted", "running"} \union Ended

Pc == {"idle", "approval", "job", "asked", "evidence", "evaluate", "submit"}
Passed == {"checking", "in_review", "approved"}

JobType ==
    [state : JobState, last : Outcome \union {"none"}, ev : {"none", "pending", "there"},
     runs : Nat, forgets : Nat]
ProgressType ==
    [input : 0 .. MaxReady,
     status : {"none", "awaiting_input", "running", "awaiting_gate", "released", "failed"},
     approved : BOOLEAN, evaluated : BOOLEAN,
     job : [Op -> BOOLEAN], evidence : [Op -> BOOLEAN]]

TypeOK ==
    /\ ready \in [seq : Input, state : {"blocked", "ready", "confirmed"}]
    /\ confirmed \subseteq Input /\ work \in {"working", "in_review", "released"}
    /\ drift \in BOOLEAN
    /\ row \in [Input -> [Op -> JobState]]
    /\ job \in [Input -> [Op -> JobType]]
    /\ frozen \in [Input -> [Op -> {"none", "unmet"} \union Ended]]
    /\ tx \in [by : Caller \union {"none"}, input : Input, op : Op, accepted : BOOLEAN]
    /\ read \in [Caller -> [input : 0 .. MaxReady, op : Op, state : JobState]]
    /\ sub \in [state : Passed \union {"preparing", "rejected"}, sealed : 0 .. MaxReady]
    /\ progress \in ProgressType /\ at \in [pc : Pc, op : Op]

\* The tools run again for an input and an operation only if the connector, begun
\* anew, forgot the job: not because the call to it fails after it was taken, Core
\* forgets the run with its transaction, or the runtime and a person ask again.
NoRunTwice == \A i \in Input, op \in Op : job[i][op].runs <= 1 + job[i][op].forgets

\* And then what is frozen, for good, is how the last execution ended, whatever old
\* status answers were stored in between, what the connector took back, and whatever
\* became of the job later.
EvidenceIsOfTheRun ==
    /\ NoRunTwice
    /\ \A i \in Input, op \in Op : frozen[i][op] # "none" => frozen[i][op] = job[i][op].last

\* A submission that passed G4's evaluation rests on one confirmed input, and each
\* operation did succeed on it when it was executed last: readiness may be recorded
\* anew, a second input confirmed and run, and a toolchain exchanged while the first
\* one's jobs go on.
SealedIsBacked ==
    sub.state \in Passed =>
      /\ sub.sealed \in confirmed
      /\ \A op \in Op : job[sub.sealed][op].last = "succeeded"

\* What the flow has persisted is true of Core after crashes and lost answers: the
\* evidence it keeps is frozen and of an execution that succeeded, the review it waits
\* for is open or decided, and the release it reports is of its own input.
ProgressIsTrue ==
    /\ \A op \in Op : progress.evidence[op] =>
         /\ job[progress.input][op].last \in {"succeeded", "unmet"}
         /\ frozen[progress.input][op] # "none"
    /\ progress.evaluated => sub.state \in Passed
    /\ progress.status \in {"awaiting_gate", "released"} =>
         sub.state \in {"in_review", "approved"}
    /\ progress.status = "released" => sub.sealed = progress.input

\* The flow comes to rest: with a person, for the input or the review; or at an end.
FlowRests ==
    <>[](\/ progress.status \in {"awaiting_gate", "released", "failed"}
         \/ progress.status = "awaiting_input" /\ progress.input \notin confirmed)
-----------------------------------------------------------------------------
(* Why the first three hold: what they need of each other. *)

\* Each execution but one has been forgotten, and evidence is of the last one.
JobInv(j) ==
    /\ j.runs <= IF j.state \in {"none", "submitted"} THEN j.forgets ELSE 1 + j.forgets
    /\ j.ev # "none" =>
         \/ j.state = "succeeded" /\ j.last \in {"succeeded", "unmet"}
         \/ j.state = "failed" /\ j.last = "failed"

\* A job that is in Core's books is not submitted, and only such a one is asked for.
BooksInv ==
    /\ tx.by # "none" => row[tx.input][tx.op] = "none"
    /\ \A c \in Caller : read[c].input = 0 <=> read[c].state = "none"
    /\ \A c \in Caller : read[c].input # 0 => row[read[c].input][read[c].op] # "none"

\* The job does not run any more, and if there is evidence then it is of that end.
Over(i, op) == job[i][op].state \notin {"submitted", "running"}
EndedAs(i, op, state) == Over(i, op) /\ (job[i][op].ev # "none" => job[i][op].state = state)

\* An end that Core was told, or has stored, is one.
EndsAreTrue ==
    /\ \A i \in Input, op \in Op : row[i][op] \in Ended => EndedAs(i, op, row[i][op])
    /\ \A c \in Caller : read[c].state \in Ended =>
          EndedAs(read[c].input, read[c].op, read[c].state)

EvidenceInv ==
    \A i \in Input, op \in Op : frozen[i][op] # "none" =>
      frozen[i][op] = job[i][op].last /\ row[i][op] # "none" /\ Over(i, op)

SealInv ==
    sub.state \in Passed =>
      sub.sealed \in confirmed /\ \A op \in Op : frozen[sub.sealed][op] = "succeeded"

\* Before the flow has an input it has nothing else.
FlowInv ==
    /\ progress.status = "none" => at.pc = "idle" /\ \A op \in Op : ~progress.evidence[op]
    /\ progress.status \notin {"none", "failed"} => progress.input # 0
    /\ \A op \in Op : progress.evidence[op] =>
          frozen[progress.input][op] \in {"succeeded", "unmet"} /\ progress.input # 0
    /\ progress.evaluated => sub.state \in Passed
    /\ progress.status \in {"awaiting_gate", "released"} =>
         sub.state \in {"in_review", "approved"}
    /\ progress.status = "released" => sub.sealed = progress.input

FormalInv ==
    /\ TypeOK /\ (\A i \in Input, op \in Op : JobInv(job[i][op]))
    /\ BooksInv /\ EndsAreTrue /\ EvidenceInv /\ SealInv /\ FlowInv
=============================================================================
