----------------------------- MODULE JobPipeline -----------------------------
(***************************************************************************)
(* A Vivado job seen from Core (core/src/api/handlers.ts): the tool_run    *)
(* row in PostgreSQL, the HTTP handlers that submit a job, poll it and     *)
(* freeze its evidence, and the worker behind the Connector, of which only *)
(* its contract is used.                                                   *)
(*                                                                         *)
(* A handler is suspended at every await, so handlers interleave with each *)
(* other, with the worker and with crashes of both; a database transaction *)
(* is one step.  A job id is minted once per idempotency key, so a job     *)
(* stands for its key as well.                                             *)
(***************************************************************************)
EXTENDS WorkerContract, Naturals

CONSTANTS
    Corr,      \* correlation ids of HTTP requests, numbered as they first appear
    Request,   \* POST /jobs requests, numbered in the order they come
    Results,   \* bound: the outcomes an execution ends with
    Poller,    \* callers of GET /jobs/:id and GET /jobs/:id/evidence
    MaxFaults  \* bound: crashes of Core and stops of the worker

ASSUME BoundAssumption ==
    /\ Corr \subseteq Nat \ {0} /\ Request \subseteq Nat \ {0}
    /\ Results \subseteq Outcome /\ MaxFaults \in Nat

VARIABLES
    rq,       \* worker: the correlation id inside the request it keeps of a job
    row,      \* tool_run.state, "absent" before the row exists
    frozen,   \* is tool_run.evidence set?
    aged,     \* is the row older than the reaper's ten minutes?
    req,      \* the POST /jobs handlers
    wire,     \* the /jobs/submit call of each of them
    poll,     \* the GET handlers
    shown,    \* history: final states the worker has had for a job
    faults    \* crashes of Core and stops of the worker so far

worker == <<up, st, ev, rq, shown>>
table == <<row, frozen, aged>>
vars == <<worker, table, req, wire, poll, faults>>

Idle == [pc |-> "idle"]
NoCorr == 0
InFlight(r) == req[r].pc \in {"committed", "waiting", "failing"}
For(r, j) == req[r] # Idle /\ req[r].job = j

Init ==
    /\ ContractInit
    /\ rq = [j \in Job |-> NoCorr]
    /\ row = [j \in Job |-> "absent"]
    /\ frozen = [j \in Job |-> FALSE] /\ aged = [j \in Job |-> FALSE]
    /\ req = [r \in Request |-> Idle] /\ wire = [r \in Request |-> "none"]
    /\ poll = [p \in Poller |-> Idle]
    /\ shown = [j \in Job |-> {}] /\ faults = 0
-----------------------------------------------------------------------------
(* submitJobHandler *)

\* The idempotent transaction: the first request of a key inserts the row, a
\* later one replays the response.  Either way the handler goes on to dispatch.
SubmitTx(r, j, c) ==
    /\ req[r] = Idle
    /\ c <= r /\ \A q \in Request : q < r => req[q] # Idle
    /\ req' = [req EXCEPT ![r] = [pc |-> "committed", job |-> j, corr |-> c,
                                  replay |-> row[j] # "absent"]]
    /\ row' = [row EXCEPT ![j] = IF @ = "absent" THEN "submitted" ELSE @]
    /\ UNCHANGED <<worker, frozen, aged, wire, poll, faults>>

\* connector.submitJob(): the call leaves Core.
Dispatch(r) ==
    /\ req[r].pc = "committed"
    /\ req' = [req EXCEPT ![r].pc = "waiting"]
    /\ wire' = [wire EXCEPT ![r] = "flying"]
    /\ UNCHANGED <<worker, table, poll, faults>>

\* The answer arrives and the handler returns 201, or it is an error.
Answered(r) ==
    /\ req[r].pc = "waiting" /\ wire[r] \in {"accepted", "refused"}
    /\ req' = [req EXCEPT ![r].pc = IF wire[r] = "accepted" THEN "done" ELSE "failing"]
    /\ wire' = [wire EXCEPT ![r] = "none"]
    /\ UNCHANGED <<worker, table, poll, faults>>

\* The call fails without an answer; the message may be under way still.
NoAnswer(r) ==
    /\ req[r].pc = "waiting"
    /\ req' = [req EXCEPT ![r].pc = "failing"]
    /\ wire' = [wire EXCEPT ![r] = IF @ = "flying" THEN @ ELSE "none"]
    /\ UNCHANGED <<worker, table, poll, faults>>

\* catch: the committed row is compensated to failed, unless it moved on.
Compensate(r) ==
    /\ req[r].pc = "failing"
    /\ LET j == req[r].job IN
       row' = [row EXCEPT ![j] = IF @ = "submitted" THEN "failed" ELSE @]
    /\ req' = [req EXCEPT ![r].pc = "done"]
    /\ UNCHANGED <<worker, frozen, aged, wire, poll, faults>>
-----------------------------------------------------------------------------
(* getJobStatusHandler and getJobEvidenceHandler *)

\* SELECT state: the status handler always asks the worker, the evidence handler
\* only when the row is not final.
Read(p, j, kind) ==
    /\ poll[p].pc = "idle" /\ row[j] # "absent"
    /\ poll' = [poll EXCEPT ![p] =
                  [pc |-> IF kind = "evidence" /\ row[j] \in Terminal
                          THEN "fetch" ELSE "query",
                   kind |-> kind, job |-> j, open |-> row[j] \notin Terminal, snap |-> "absent"]]
    /\ UNCHANGED <<worker, table, req, wire, faults>>

\* connector.queryStatus(): a snapshot of the worker's state.
Query(p) ==
    /\ poll[p].pc = "query" /\ up /\ st[poll[p].job] # "absent"
    /\ poll' = [poll EXCEPT ![p].pc = "write", ![p].snap = st[poll[p].job]]
    /\ UNCHANGED <<worker, table, req, wire, faults>>

\* Bug: the row's age is not looked at.
QueryNotFoundAtOnce(p) ==
    /\ poll[p].pc = "query" /\ up /\ st[poll[p].job] = "absent"
    /\ poll' = [poll EXCEPT ![p] =
                  IF @.kind = "status" /\ @.open
                  THEN [@ EXCEPT !.pc = "reap"] ELSE Idle]
    /\ UNCHANGED <<worker, table, req, wire, faults>>

\* Bug: a job the worker does not know is taken for a lost one.
QueryNotFoundIsLost(p) ==
    /\ poll[p].pc = "query" /\ up /\ st[poll[p].job] = "absent"
    /\ poll' = [poll EXCEPT ![p].pc = "write", ![p].snap = "lost"]
    /\ UNCHANGED <<worker, table, req, wire, faults>>

\* The worker does not know the job: the status handler retires an old row that
\* was not final when it was read; otherwise the error is passed on.
QueryNotFound(p) ==
    /\ poll[p].pc = "query" /\ up /\ st[poll[p].job] = "absent"
    /\ poll' = [poll EXCEPT ![p] =
                  IF @.kind = "status" /\ @.open /\ aged[@.job]
                  THEN [@ EXCEPT !.pc = "reap"] ELSE Idle]
    /\ UNCHANGED <<worker, table, req, wire, faults>>

\* The worker does not answer.
QueryFails(p) ==
    /\ poll[p].pc \in {"query", "fetch"}
    /\ poll' = [poll EXCEPT ![p] = Idle]
    /\ UNCHANGED <<worker, table, req, wire, faults>>

\* Bug: a final row is left alone.
WriteUnlessFinal(p) ==
    /\ poll[p].pc = "write"
    /\ LET j == poll[p].job IN
       /\ row' = [row EXCEPT ![j] = IF @ \in Terminal THEN @ ELSE poll[p].snap]
       /\ poll' = [poll EXCEPT ![p] = Idle]
    /\ UNCHANGED <<worker, frozen, aged, req, wire, faults>>

\* UPDATE tool_run SET state: whatever the row says by now.  The evidence handler
\* goes on when the snapshot is final.
Write(p) ==
    /\ poll[p].pc = "write"
    /\ row' = [row EXCEPT ![poll[p].job] = poll[p].snap]
    /\ poll' = [poll EXCEPT ![p] =
                  IF @.kind = "evidence" /\ @.snap \in Terminal
                  THEN [@ EXCEPT !.pc = "fetch"] ELSE Idle]
    /\ UNCHANGED <<worker, frozen, aged, req, wire, faults>>

\* The orphan reaper's UPDATE.
Reap(p) ==
    /\ poll[p].pc = "reap"
    /\ row' = [row EXCEPT ![poll[p].job] =
                 IF @ \in {"succeeded", "failed", "cancelled"} THEN @ ELSE "failed"]
    /\ poll' = [poll EXCEPT ![p] = Idle]
    /\ UNCHANGED <<worker, frozen, aged, req, wire, faults>>

\* Bug: an evidence request is answered for a job the worker merely knows.
FetchOfAny(p) ==
    /\ poll[p].pc = "fetch" /\ up /\ st[poll[p].job] # "absent"
    /\ poll' = [poll EXCEPT ![p].pc = "freeze"]
    /\ UNCHANGED <<worker, table, req, wire, faults>>

\* connector.fetchEvidence(), with or without a manifest there.
Fetch(p) ==
    /\ poll[p].pc = "fetch" /\ up
    /\ poll' = [poll EXCEPT ![p] =
                  IF ev[@.job] THEN [@ EXCEPT !.pc = "freeze"] ELSE Idle]
    /\ UNCHANGED <<worker, table, req, wire, faults>>

\* UPDATE tool_run SET evidence.
Freeze(p) ==
    /\ poll[p].pc = "freeze"
    /\ frozen' = [frozen EXCEPT ![poll[p].job] = TRUE]
    /\ poll' = [poll EXCEPT ![p] = Idle]
    /\ UNCHANGED <<worker, row, aged, req, wire, faults>>
-----------------------------------------------------------------------------
(* The worker, time, and crashes *)

\* The worker receives /jobs/submit: a new job is accepted, the same request
\* again is answered from the registry, another one is a conflict.
Deliver(r) ==
    /\ wire[r] = "flying" /\ up
    /\ LET j == req[r].job
           answer == IF st[j] = "absent" \/ rq[j] = req[r].corr
                     THEN "accepted" ELSE "refused" IN
       /\ IF st[j] = "absent"
            THEN Accept(j) /\ rq' = [rq EXCEPT ![j] = req[r].corr]
            ELSE UNCHANGED <<up, st, ev, rq>>
       /\ wire' = [wire EXCEPT ![r] = IF req[r].pc = "waiting" THEN answer ELSE "none"]
    /\ UNCHANGED <<shown, table, req, poll, faults>>

\* The worker refuses a new job (lease, capability, scope, discovery drift).
Refuse(r) ==
    /\ wire[r] = "flying" /\ up /\ st[req[r].job] = "absent"
    /\ wire' = [wire EXCEPT ![r] = IF req[r].pc = "waiting" THEN "refused" ELSE "none"]
    /\ UNCHANGED <<worker, table, req, poll, faults>>

Lose(r) ==
    /\ wire[r] = "flying"
    /\ wire' = [wire EXCEPT ![r] = "none"]
    /\ UNCHANGED <<worker, table, req, poll, faults>>

Ends(j) ==
    \/ Cancelled(j) \/ FailToStart(j) \/ TakeBack(j)
    \/ \E o \in Results, e \in BOOLEAN : End(j, o, e)

\* What the worker does of its own accord, as its contract allows.
WorkerStep ==
    /\ \/ \E j \in Job : Start(j) \/ Cancel(j) \/ Ends(j) \/ Publish(j)
       \/ Stop /\ faults < MaxFaults
       \/ Resume /\ \A j \in Job : st'[j] \in Results \union {"absent", "failed", "cancelled", "lost"}
    /\ faults' = IF up /\ ~up' THEN faults + 1 ELSE faults
    /\ shown' = [j \in Job |-> shown[j] \union ({st'[j]} \intersect WorkerFinal)]
    /\ rq' = [j \in Job |-> IF st'[j] = "absent" THEN NoCorr ELSE rq[j]]
    /\ UNCHANGED <<table, req, wire, poll>>

\* Ten minutes pass.  The calls of a handler last thirty seconds each, so the
\* request that made the row has been delivered or lost.
Age(j) ==
    /\ row[j] # "absent" /\ ~aged[j]
    /\ \A r \in Request :
         For(r, j) /\ ~req[r].replay => req[r].pc = "done" /\ wire[r] = "none"
    /\ aged' = [aged EXCEPT ![j] = TRUE]
    /\ UNCHANGED <<worker, row, frozen, req, wire, poll, faults>>

\* Core crashes: its handlers are gone, its rows and the calls under way are not.
CoreCrash ==
    /\ faults < MaxFaults
    /\ faults' = faults + 1
    /\ req' = [r \in Request |-> IF InFlight(r) THEN [req[r] EXCEPT !.pc = "done"]
                                 ELSE req[r]]
    /\ wire' = [r \in Request |-> IF wire[r] = "flying" THEN "flying" ELSE "none"]
    /\ poll' = [p \in Poller |-> Idle]
    /\ UNCHANGED <<worker, table>>
-----------------------------------------------------------------------------
Submission(r) ==
    \/ \E j \in Job, c \in Corr : SubmitTx(r, j, c)
    \/ Dispatch(r) \/ Answered(r) \/ NoAnswer(r) \/ Compensate(r)
    \/ Deliver(r) \/ Refuse(r) \/ Lose(r)

PollStep(p) ==
    \/ Query(p) \/ QueryNotFound(p) \/ Write(p) \/ Reap(p) \/ Fetch(p) \/ Freeze(p)

Next ==
    \/ \E r \in Request : Submission(r)
    \/ \E p \in Poller, j \in Job, kind \in {"status", "evidence"} : Read(p, j, kind)
    \/ \E p \in Poller : PollStep(p) \/ QueryFails(p)
    \/ WorkerStep
    \/ \E j \in Job : Age(j)
    \/ CoreCrash

Spec == Init /\ [][Next]_vars

\* A status request of j gets the worker's answer.
Told(p, j) ==
    /\ Query(p) \/ QueryNotFound(p)
    /\ poll[p].kind = "status" /\ poll[p].job = j

\* Handlers go on, calls arrive or fail, executions end, a stopped worker is
\* started again, and somebody keeps asking for the status of every job and gets
\* through time and again.
Fairness ==
    /\ \A r \in Request :
         /\ WF_vars(Dispatch(r) \/ Answered(r) \/ NoAnswer(r))
         /\ WF_vars(Compensate(r)) /\ WF_vars(Deliver(r) \/ Lose(r))
    /\ \A p \in Poller : WF_vars(PollStep(p))
    /\ \A j \in Job :
         /\ SF_vars(\E p \in Poller : Read(p, j, "status"))
         /\ SF_vars(\E p \in Poller : Told(p, j))
    /\ \A j \in Job : WF_vars(Age(j)) /\ SF_vars(WorkerStep /\ st[j] \in Live /\ Ends(j))
    /\ WF_vars(WorkerStep /\ Resume)

FairSpec == Spec /\ Fairness
-----------------------------------------------------------------------------
Waiting == {"committed", "waiting", "failing", "done"}

TypeOK ==
    /\ up \in BOOLEAN /\ st \in [Job -> WorkerState] /\ ev \in [Job -> BOOLEAN]
    /\ rq \in [Job -> Corr \union {NoCorr}]
    /\ row \in [Job -> ToolRunState \union {"absent"}]
    /\ frozen \in [Job -> BOOLEAN] /\ aged \in [Job -> BOOLEAN]
    /\ req \in [Request -> {Idle} \union
                 [pc : Waiting, job : Job, corr : Corr, replay : BOOLEAN]]
    /\ wire \in [Request -> {"none", "flying", "accepted", "refused"}]
    /\ poll \in [Poller -> {Idle} \union
                 [pc : {"query", "write", "reap", "fetch", "freeze"},
                  kind : {"status", "evidence"}, job : Job,
                  open : BOOLEAN, snap : WorkerState]]
    /\ shown \in [Job -> SUBSET WorkerFinal]
    /\ faults \in Nat

\* An outcome in the table is one the worker reported: only "failed" may be Core's
\* own word (the compensation of a failed call, the reaper).
NoInventedOutcome ==
    \A j \in Job : row[j] \in Terminal \ {"failed"} => row[j] \in shown[j]

\* Evidence is frozen only of a job that really ended by itself, however the
\* state the handler trusted had come into the row.
EvidenceBacked ==
    \A j \in Job : frozen[j] => shown[j] \intersect Outcome # {}

\* The orphan reaper retires only what the worker will never run: ten minutes
\* outlast the submission, so only a replay can bring the job back.
ReapedIsGone ==
    \A p \in Poller :
      poll[p].pc = "reap" =>
        \/ st[poll[p].job] = "absent"
        \/ \E r \in Request : For(r, poll[p].job) /\ req[r].replay

\* Core's row comes to agree with the worker for good, whatever is lost or crashes
\* between them and whatever compensation, reaper and stale snapshots say for a
\* while: the row of a job the worker knows has the worker's state, that of a job
\* it does not know has ended and does not stay open.
Converges ==
    \A j \in Job :
      <>[](IF st[j] = "absent" THEN row[j] \in Terminal \union {"absent"}
           ELSE row[j] = st[j])
-----------------------------------------------------------------------------
(* Why the invariants hold: what they need of each other from step to step. *)

\* A final state of the worker has been shown, and so has an outcome of any job whose
\* evidence is there.
WorkerIsShown ==
    \A j \in Job :
        /\ st[j] \in WorkerFinal => st[j] \in shown[j]
        /\ ev[j] => shown[j] \intersect Outcome # {}

\* A handler only carries what it got from the worker.
CarriedIsShown ==
    \A p \in Poller :
        /\ poll[p].pc = "write" =>
             /\ poll[p].snap # "absent"
             /\ poll[p].snap \in Terminal => poll[p].snap \in shown[poll[p].job]
        /\ poll[p].pc = "freeze" => shown[poll[p].job] \intersect Outcome # {}
        /\ poll[p].pc = "reap" => aged[poll[p].job]

\* A request has its row, and one whose row is old is over unless it is a replay.
RequestsAndRows ==
    /\ \A r \in Request : wire[r] # "none" => req[r] # Idle
    /\ \A j \in Job :
         /\ aged[j] => row[j] # "absent"
         /\ \A r \in Request :
              For(r, j) =>
                /\ row[j] # "absent"
                /\ aged[j] /\ ~req[r].replay => req[r].pc = "done" /\ wire[r] = "none"

\* The pipeline's inductive invariant.
PipelineInv ==
    /\ TypeOK
    /\ WorkerIsShown /\ CarriedIsShown /\ RequestsAndRows
    /\ NoInventedOutcome /\ EvidenceBacked /\ ReapedIsGone
=============================================================================
