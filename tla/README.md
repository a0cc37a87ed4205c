# Synthia verification

TLA+ models of Synthia's core logic, the TLC runs that check them on small
instances, and the theorems TLAPS proves for every instance. The source is the
reference; where a document or a comment says something else, the model does
what the code does and the difference is listed under *Findings*.

Synthia drives FPGA work from requirements to a bitstream. **Core** (`core/`)
owns projects, workspaces, gates and jobs, in PostgreSQL and git. The
**runtime** (`runtime/`) runs the agents that talk to language models and calls
Core for everything that counts. The **connector** (`connector/`) is a worker
beside Vivado that runs the tools. A **web** client shows all of it and follows
the agents through an event stream.

## Inventory

| Component | State it keeps | Operations | Talks to | Hard because |
|---|---|---|---|---|
| Connector worker `connector/worker.ts` | registry of jobs, queue, slot counter, abort controllers, registry file | submit, status, cancel, evidence, run, snapshot, restore | Core over HTTP; the executor | unawaited runs and snapshots interleave at each await; crash and restart; disk errors |
| Job pipeline `core/src/api/handlers.ts` | rows of `tool_run` and `idempotency_records` | POST job, status, evidence, reaper | the worker; PostgreSQL | handlers suspended at each await, lost or late answers, retries, crashes of either side |
| Task stream `runtime/stream-hub.ts`, `web/src/domain/task-stream.ts` | window of events, pending delta, waiters; the client's cursor | emit, delta, subscribe, next, stop, reconnect | the browser over SSE | eviction, aggregation, reconnection and waiting interleave |
| Gate flow `core/src/api/p4-handlers.ts` and the older gate handlers | work versions, readiness, formal inputs, submissions, baselines, releases, change requests | prepare, confirm, create, evaluate, submit, approve, reject, withdraw, open and withdraw a change | PostgreSQL; workspace facts | long protocol over many tables; facts go stale between steps; two families of handlers on one table |
| Formal run `core/src/api/p4-handlers.ts`, `runtime/formal-flow.ts` | formal inputs, `tool_run`s and evidence of G4, the flow's progress record | confirm, submit job, poll, freeze, evaluate, submit, release | Core, connector | a remote call inside a transaction; answers lost, late, or of an older status; crash and resume |
| Engineering run `runtime/loop.ts`, `runtime/server.ts` | the run's file, registry entry, controller; Core's task row | start, stages, submit a gate, poll, resume, abort, recover | Core; model; people | a run, a monitor, people and an abort act on one handle; file first, Core second |
| Agent task and message ledger `runtime/server.ts`, `agent-state.ts`, `free-agent.ts`, `core/src/api/task-proxy.ts`, `side-task-handlers.ts` | Core's row, the runtime's handle, ledger, session | create, start, send, steer, abort, finalize, recover | Core; model | Core and runtime each own half of a task's state; a crash must not repeat a message |
| Workspace `core/src/workspace/` | git repository, publish marker, index, worktree; revisions in the database | write and commit, publish, recover, register, adopt | git, PostgreSQL | crash between four git steps; human edits in between; git first, database second |
| Self-evolution, curation `core/src/api/self-evolution-handlers.ts`, `runtime/evolution-*.ts` | applications, sealed observations, leased curator runs, reservations | apply, seal, ask, ensure, claim, complete, fail, expire, pause | service processes; model | expiring leases, two lanes, late workers, lost replies |
| Self-evolution, learning (same files, `core/src/domain/self-evolution.ts`) | one skill, its versions, distillation runs | claim, distil, scan, activate, judge, quarantine, remediate, control | workers; people; model | people and three automatic writers change one row, each from what it read before |
| Connector link `core/src/api/connector-adapter.ts`, `connector/remote.ts` | client per project; the worker's one registration and lease | register, heartbeat, discover, rebuild, retry | worker | a registration shared by all callers, concurrent rebuilds |
| Approvals, idempotency, outbox `core/src/services/`, `core/src/db/` | approval records, idempotency slots, event sequences | approve, claim slot, append event | PostgreSQL | one key used by concurrent requests |
| Clients, router, UI, `vivado-mcp`, deployment, skills, RTL | none beyond a call, or none | | | |

What makes each modelled component correct:

* **Worker** - the slots counted are the runs in progress; a job that has not
  ended is queued once or running; no slot idles while a job waits; *cancelled*
  is said only of a job nobody works on; evidence only of an outcome; a job runs
  twice only if a restart forgot it; every accepted job ends.
* **Pipeline** - an outcome in the table came from the worker; evidence is
  frozen only of a job that ended by itself; the reaper retires only jobs the
  worker will never run; every row comes to agree with the worker.
* **Stream** - no silent gap, no repetition, no reset without a loss, and
  whoever stays connected catches up.
* **Gates** - gates in order, one submission under way and that of the current
  gate, the latest baseline the active one, a release that is what was evaluated
  and reviewed, releases in one line.
* **Formal run** - one execution per input and operation, unless the connector
  forgot it; evidence that is of the last one, for good; a sealed submission that rests on one confirmed input and on
  successes with it; a flow whose memory is true of Core and that comes to rest.
* **Engineering run** - no gate is worked on before the approvals; the run's
  file is not ahead of Core; nothing is begun after the end; every approval is
  noticed.
* **Task** - a message reaches the model once; the runtime calls a task
  succeeded only if Core does; no row stays running over an agent that is over.
* **Workspace** - a batch is published whole; a saved edit is not lost; the
  database's revisions are what Git committed, in Git's order; an adoption is
  applied once or not at all.
* **Curation** - who judges holds the reservation; a reservation ends with its
  run; a pause is kept; what waits is judged.
* **Learning** - people's commands win; a change rests on what was still the
  latest command; every distillation ends.

`PROJECT.json` lists the hazards behind these, each at its line, including the
ones no property covers.

## Modules

    ToolRun              the states of a tool run
      WorkerContract     what a worker promises about a job: abstract specification
        ConnectorWorker          the worker in detail; refines the contract
          ConnectorWorkerProofs  invariants, and the refinement
        JobPipeline              Core's side; uses the worker only by its contract
          JobPipelineProofs
    StreamHub            hub, connections and clients            RuntimeProofs
    GateFlow             gates, releases, change requests        GateFlowProofs
    FormalRun            the formal run at G4, Core and runtime  FormalRunProofs
    EngineeringRun       a run through the gates                 EngineeringRunProofs
    AgentTask            a task, its messages and its agent      RuntimeProofs
    WorkspacePromise     what the workspace promises: abstract specification
      Workspace          git, database and requests; refines the promise
        WorkspaceProofs        invariants, and the refinement
    Curation             the curation queue                      EvolutionProofs
    SkillLearning        one learned skill                       EvolutionProofs
    MC*                  instances for TLC

There are two refinements. `WorkerContract` is the seam between the two sides of
a job: `ConnectorWorker` implements it (checked in the run *worker*, proved in
`ConnectorWorkerProofs`) and `JobPipeline` takes its worker steps from it, so what
holds of the pipeline holds of it with any worker that keeps the contract.
`WorkspacePromise` is what a reader of the workspace sees: a batch appears whole,
an edit stays until it is registered or edited again; `Workspace` implements it
with the files of a half done publication read as the recovery will leave them
(checked in the run *workspace*, proved in `WorkspaceProofs`).

Where several modules speak of the same thing, one has the detail and the others
what they need of it: `GateFlow` has what Core requires of a submission,
`FormalRun` fixes one work version and one submission and details the tool jobs,
`EngineeringRun` needs only the gate a project is at; a status event of a task
is in `AgentTask` for agents that talk and in `EngineeringRun` for runs.

### ConnectorWorker

| Model | Code (`connector/worker.ts`) |
|---|---|
| `st`, `ev` | `jobs`: `Job.state`, `Job.evidence` |
| `pending`, `active` | `pending`, `active` |
| `pc` | where `run(job)` of each job is suspended: preparing the workspace, executing, storing evidence, settling |
| `aborted` | jobs whose abort controller was fired |
| `order` | insertion order of `jobs`, which decides what a snapshot keeps |
| `snapQ`, `snapPhase`, `listed`, `image` | the chain of `snapshotRegistry()` calls: who awaits it, how far the current one is, what it collected |
| `file`, `torn` | the registry file; a write in place that a crash interrupted |
| `up`, `crashes`, `forgotten` | the process; jobs a restart did not find |
| `ran` | history: how often a job was handed to the executor |

An action is the code between two awaits. `pump()` is not an action of its own:
it runs to its end in every step that calls it. The executor's result is a free
choice of `Results`; with `DiskFails` any file operation may fail.

### JobPipeline

Each `POST /jobs` handler is a record in `req` with the place it is suspended at
(the commit, the call, the compensation); its call is in `wire`, because it may
arrive after the handler gave up. Each poller is a record in `poll` that holds
what it read: reading the row, asking the worker and writing are separate steps
because other handlers run between them. `aged` stands for the reaper's ten
minutes. A transaction is one step. `shown` is a history variable: every final
state the worker has had for a job.

### StreamHub

Emissions are numbered; an event carries the interval of emissions it stands
for, so a gap is a number missing at the client. `hub` is the window, the last
sequence number and the pending delta; `conn` is where `next()` of each
connection is; `written` is what was written and not received; `lastId` is the
client's cursor. JavaScript runs each action without interruption, and a reader
that was woken runs before the next task: at most `MaxBurst` emissions happen
before that. The module assumes `MaxBurst < Retain` (the code retains 2000
events) and `MaxBurst >= 1`, which a hub that emits at all has; together they
leave room for the pending delta as well, which a window of one event would not.

### GateFlow

Rows of a table are a sequence in the order of insertion: `work`
(`project_work_version`, with its `change_request` in `change`), `ready`,
`formal`, `subs`, `releases`; `active` holds the submissions whose baseline is
active; `proc` is `process_instance.current_gate`. `facts` counts the changes of
the workspace and of revisions and runs; an evaluation seals the facts it saw.
Each handler is one step, since its transaction locks the rows it decides on
before it reads them, with one exception: opening a change request reads that
there is *no* active work version, which locks nothing, so `OpenCheck` and
`OpenInsert` are two steps and the unique index is a guard of the second. What
the evaluator concludes from documents and evidence is a free choice, except for
the rows it requires (readiness, formal input, baselines).

### FormalRun

| Model | Code |
|---|---|
| `ready`, `confirmed`, `work` | `project_readiness`, `formal_input_approval`, the work version's state (`p4-handlers.ts`) |
| `row`, `frozen` | `tool_run` and `tool_run_evidence_manifest` of each input and operation |
| `tx` | the transaction that submits a job: the connector is called in it, after the insert and before the commit |
| `read` | a status asked for before the transaction that stores it |
| `job`, `drift` | the connector: its jobs (`connector/worker.ts`), and whether its toolchain was exchanged |
| `sub` | the submission, with the input its evaluation sealed |
| `progress`, `at` | `FormalFlowProgressV1`, and where `advance()` is (`formal-flow.ts`) |

The callers of Core are the flow and a person who asks for the same things. An
operation is a number; the last one, *implement*, yields the bitstream. The
monitor calls `advance()` again at every tick, which is the model's fairness of
the flow.

A job has a state, how its last execution ended (`last`: with its verdicts met,
*unmet*, or failed, a refused toolchain included), whether the evidence of that
is being written or there (`ev`), and how often it was executed and forgotten.
The worker is what `WorkerContract` lets it be: it shows an outcome before the
evidence is written (`Finish`, `Publish`), takes a success back when that write
fails (`Breaks`), and restarts from a registry nobody waited for. `Restart`
chooses for every job it had taken, at once: forgotten, *lost*, ended without
its evidence, as it was, or a success that had been taken back. A job in Core's
books that the connector does not know is not found, and the flow fails; one
that Core forgot, too, with its transaction, is submitted and executed again.
What is claimed therefore is that an execution is repeated only after the
connector forgot the job (`NoRunTwice`), and that what Core freezes is how the
last execution ended.

### EngineeringRun

| Model | Code |
|---|---|
| `core` | the process's gate, and the `agent_task` row with its lock |
| `subs` | `gate_submission` of the run's project |
| `state` | the agent-state file: status, gate, awaited gate, submissions, evaluated and submitted marks |
| `handle`, `signal` | the registry entry and its abort controller (`runtime/server.ts`) |
| `at`, `loop` | where `executeAgent` and `loop.ts` are, and their variables |
| `poll` | the monitor's question about the awaited submission |
| `late` | a request of an execution that was aborted or crashed, still on its way |
| `abort` | the abort request of Core |

A write of the file and the event to Core that follows it are one step whose
event is heard, refused or lost (`Persist`); Core's answers may be lost after the
work is done (`Lands`). A kind is *owned* by a row of Core or *loose*, started
without one. The stages of a gate are one step of work.

### AgentTask

`core` is the row and whether a transaction locks it; `request`, `wire` and
`abort` are the requests between Core and the runtime, `asked` the facts they
leave; `handle`, `ledger` (in memory and on disk), `desk` (the dispatch lock),
`session` and `turn` are the runtime's half; `disk` is the file a crash leaves.
`given` is a history variable: how often each text was handed to the model.
Actions follow the awaits of `handleSend`, `dispatchMessage`, the free agent's
turn, `finalize` and `recover`; a callback to Core or a write to disk may fail
(`MaxSilences`). The write with which a turn begins is outside of what `prompt()`
catches (`free-agent.ts:720`): when it fails (`NotKept`) the turn ends and the
session is left *running*: a later message is taken for a steer of a turn that is
over.

### Workspace and WorkspacePromise

`head` is the list of commits; `marker` the publish ref; `index` and `work` the
index and the worktree; `rev` the revisions of each path in the database;
`session` and `git` the two locks. `op` says of each request where it is between
its effects on Git and the database, with its files, its commit, where a recovery
returns to (`back`) and the paths it found to need a revision (`fresh`). Core may
stop between any two effects, and the next request finds what is left.

| Action | Code |
|---|---|
| `Recover`, `Ensured`, `ReplayFails` | `ensureWorkspace`: an unpublished marker is dropped, a published one replayed; a change under it or an error of Git leaves it where it is |
| `RecoverWriting` | the same at the head of `commitFilesAtomically`, where a legacy project may have a new marker |
| `Prepare`, `Publish`, `PublishFails` | the commit object and its marker; the compare-and-swap of HEAD; its failure, with or without the marker's removal |
| `Replace`, `Clear` | the checkout of the commit's paths; the removal of the marker |
| `ReplaceFails` | one of these fails, and so does the recovery tried at once (`git.ts:571-580`): the marker stays, and an adoption's row is written *failed* or *conflicted* although HEAD has its commit |
| `Compare`, `Reconcile` | `reconcileIntoRevisions`: the latest revisions are read and the paths to register decided with no lock; then they are appended under the artifacts' locks, without a second look |
| `AdoptPrepare`, `Answer` | the adoption's first transaction; an adoption that is decided is answered |
| `Save`, `Stage`, `CommitIndex` | the editor; the registrar's `git add` and `git commit` |

`broken` is a history variable: the adoptions that met `ReplaceFails`. While Core
is down people edit and stage files by hand. Assumed: only Core commits; a hand
edit is not a deletion; one Core process.

The properties say where the code stops: no two revisions in a row are the same
bytes in a *modern* project only, for in a legacy one two requests may both decide
before either appends; the row of a *broken* adoption denies its commit, and no
other row does; and a legacy registrar that was past `ensureWorkspace` may commit
over a publication that was left half done (`CommitsOver`), which undoes it.

### Curation

A run is its index in the order of creation; a lease token is the number of the
claim that minted it. `app` and `sealed` are applications and the observations
that make them ready; `run` the rows of both lanes with state, generation,
lease and backoff; `cycle` and `due` the seven-day schedule; `reserved` who may
judge which application; `desk` what each service process is doing: what it read
at the claim is what it later submits, whatever happened to the lease meanwhile.
`SevenDays` stands for the scheduler's tick without its idle window and its
backoff (`evolution-scheduler.ts:383-408`), so that it asks for more runs than the
code does; and a claim takes every application that waits, where the code takes
the first hundred.

### SkillLearning

`skill` is the row (active version, control revision, pin, lifecycle); `version`
its versions with scan, parent and verdicts; `dist` the distillation runs; `bench`
and `curator` hold what a worker read before its model was asked; `view` is the
page in front of the person who gives a command or writes a version of their own
(`Regeneralize`); `halted` is the switch that pauses learning. Each change is one
transaction that compares the control revision its author saw. `allowance` is what
is left of the bounds; a command spends one, and so does a person's version when it
is activated, so that `NothingCameBetween` can tell a person's change from a
worker's.

## Runs

`CHECK_DEADLOCK FALSE` is in every cfg: every bound (jobs, requests, rows,
faults) lets the system finish.

| Run | Question | Instance |
|---|---|---|
| worker | With cancels at any moment, a failing disk and a crash: is no job stranded, lost or run twice, do slots and evidence agree, is the contract kept, and does every accepted job end? | 2 jobs, 1 slot, registry of 1, disk fails, 1 crash |
| pipeline | Lost, late and repeated calls and a crash of Core or of the worker: does the row claim only what the worker reported, is the reaper right, and do they agree in the end? | 1 job, 2 requests, 2 correlation ids, 1 poller, 1 fault |
| stream | Gaps, repetitions, needless resets, a client that does not catch up | 2 clients, window of 2, bursts of 1, 4 emissions, 1 broken connection, 1 restart |
| gate_flow | A project up to its first release and two changes, with everything that can fail or be withdrawn: do the tables agree, and is a release what was sealed and reviewed? | 2 openers, 3 work versions, 5 submissions, 3 readiness rows, 2 formal inputs, 1 edit |
| formal_run | Calls that fail inside a transaction, stale answers, new readiness, a toolchain exchanged, a crash, a connector that forgets: does what is sealed rest on what ran, and does the flow come to rest? | 2 operations, 2 readiness rows; 1 fault, crash, restart of the connector, exchange and call of a person, 2 of these in all |
| engineering_run | Does work wait for approvals, is the file true, does an ended run rest, is every approval noticed? | 3 gates, 1 failure, 1 crash, 1 abort, 2 resumes |
| tasks | Is a message given once, is success shared, and is no row left running over an agent that is over? | 2 messages, both roles, 1 repeated request, 1 abort, 1 crash, 2 failing callbacks or writes |
| workspace | Is publication atomic, is every edit kept, does the database follow Git, is an adoption told as it is? | 2 paths; 1 writer, registrar, editor, 2 adoptions; modern and legacy; 3 commits, 1 edit, 1 crash, 1 failure |
| curation | Do leases and reservations agree, is a pause kept, is what waits judged? | 2 applications, 2 processes, 1 manual run, 2 switches, 1 fault |
| learning | Are people's commands left alone, did nothing come between, does every distillation end? | 1 episode, 2 distillers, 2 versions, 2 commands, 1 use, 2 switches, 1 fault, 3 starting rows |
| curation_orphan | violation of `CyclesGoOn` | 1 application, 2 processes, 1 manual run |
| engineering_resume | violation of `ResumeContinues` | 1 failure, 2 resumes |

Why the bounds suffice. *Worker*: two jobs for one slot meet in the slot, in the
queue and in the order of snapshots, and a registry of one forgets the other.
*Pipeline*: rows of different jobs share nothing, so one job is enough; two
requests give the replay and the late call, a poller the snapshot that is
overtaken. *Stream*: clients meet only in the waiter list and in the flush that
one of them causes; four emissions wrap a window of two. *Gates*: three work
versions give a release, a change of it and one more on what became of that;
five submissions reach a first release with one to spare for a failure, and with
changes that start at G4 a second one; one edit makes facts stale at any step.
*Formal run*: the first operation stands for those without the bitstream; a
second input can replace the first at any moment; two troubles are the
transaction that fails and the restart that forgets its job, which is what a
second execution takes, or a stale answer and a restart. *Engineering run*: a first, a
middle and a last gate, whose handling differs; a fault, a crash and an abort in
any order with a resume after each of two. *Tasks*: the second message is the one
that meets a turn in progress; two failures let a callback and its fallback both
fail. *Workspace*: one path that exists and one that does not, with requests that
want the same and different bytes for them, and two adoptions that share a path;
one crash cuts any publication, a second one would cut a recovery, which is
repeated from the same marker; one failure leaves a marker to a process that
goes on. Three commits let an adoption's, a writer's and a registrar's meet.
*Curation*: two processes hold an old and a new lease of one run; two
applications tell a claimed from a waiting one. *Learning*: an empty row, a
candidate that failed its scan and a version one verdict short of quarantine are
the starting points from which every branch of `NextQuality` and of the
remediation is a step or two away. Where a theorem states the property, it has
no bound.

Every property of a passing run has a mutant: a plausible bug, written beside
the definition it changes under a `Bug:` comment, with which TLC finds the
property violated under the same cfg.

### Fairness

* *worker*: weak fairness of every leg of a run, of the snapshot and of the
  restart. The legs are continuations of promises, which the event loop runs; an
  execution ends because the executor bounds every command by a timeout
  (`connector/vivado.ts`).
* *pipeline*: weak fairness of handlers, calls (each has a timeout) and of
  starting a stopped worker. The last is an assumption on the deployment: the
  worker is a scheduled task of its Windows host
  (`deploy/supervise/dev-up.sh`). Strong fairness of a poll being sent and being
  answered: the interface and the agent's tool keep polling a job that has not
  ended, and a network that never lets an answer through again is excluded.
  Strong fairness of an execution's end, since a stop interrupts it.
* *stream*: the delta timer fires, readers run, and what was written to an open
  connection arrives. Reconnecting is not fair: `CatchesUp` speaks of a client
  that stays connected.
* *formal_run*: the monitor's tick (`pollGate` in `server.ts`) goes on with the
  flow, requests to Core end, and the connector works its queue off and writes its
  evidence. People are
  under no obligation: the flow rests where it needs one.
* *engineering_run*: the executor's steps, the monitor, the end of an abort and
  the restart. Approving, resuming and aborting are not fair.
* *tasks*: requests and dispatches go on, the model answers, the runtime is
  restarted. `NeverWedged` is conditional on Core being reached and the disk
  writing.
* *curation*: seven days pass, an abandoned lease expires, and each process goes
  on asking, claiming and reporting. *learning*: likewise; a switch back on is
  the property's condition, not an assumption.
* *gate_flow*, *workspace*: safety only, under `Spec` without fairness.

## Proofs

Each proof module proves an inductive invariant (`Init => Inv`,
`Inv /\ [Next]_vars => Inv'`, one lemma per action) and concludes the properties
from it. They hold for every value of the constants that satisfies the module's
named assumptions, which TLC evaluates in every run. The invariants were checked
by TLC on the runs' instances before they were proved.

| Module | Theorem | Property |
|---|---|---|
| ConnectorWorkerProofs | `WorkerInvariant`, `TypeCorrect` | `WorkerInv`, `TypeOK` |
| | `SlotsExact` | `SlotsAccounted` |
| | `NobodyStranded` | `NoStrandedJob` |
| | `CancelledMeansIdle` | `CancelledIsIdle` |
| | `EvidenceNeedsOutcome` | `EvidenceOnlyOfOutcome` |
| | `RunsOnceUnlessForgotten` | `RerunOnlyIfForgotten` |
| | `RegistryInvariant` | |
| | `ImplementsContract` | `KeepsContract` (refinement) |
| JobPipelineProofs | `PipelineInvariant` | `PipelineInv` |
| | `NothingInvented` | `NoInventedOutcome` |
| | `FrozenIsBacked` | `EvidenceBacked` |
| | `ReapsOnlyTheGone` | `ReapedIsGone` |
| GateFlowProofs | `GateInvariant` | `GateInv` |
| | `TablesAgree` | `ProjectIsConsistent` |
| | `HistoryKept` | `HistoryInOrder` |
| | `ReleaseDeliversWhatWasSealed` | `ReleaseIsWhatWasEvaluated` |
| | `ReviewIsStable` | `ReviewKeepsFormalInput` |
| FormalRunProofs | `FormalInvariant` | `FormalInv` |
| | `EvidenceIsTrue` | `EvidenceIsOfTheRun` |
| | `SubmissionIsBacked` | `SealedIsBacked` |
| | `FlowKnowsTheTruth` | `ProgressIsTrue` |
| EngineeringRunProofs | `RunInvariant` | `RunInv` |
| | `ApprovalComesFirst` | `WorkFollowsApproval` |
| | `FileIsNotAhead` | `ProgressIsCores` |
| | `EndedRunsRest` | `EndedNeverWorks` (action property) |
| RuntimeProofs | `TaskInvariant` | `TaskInv` |
| | `MessagesGivenOnce` | `GivenAtMostOnce` |
| | `SuccessIsShared` | `LocalSuccessIsCores` |
| | `StreamInvariant` | |
| | `StreamIsContinuous` | `NoSilentGap` |
| | `ResetsAreNeeded` | `ResetOnlyWhenMissed` (action property) |
| WorkspaceProofs | `GitInvariant` | `GitInv` |
| | `ImplementsPromise` | `KeepsPromise` (refinement) |
| | `RevisionInvariant` | `RevisionInv` |
| | `RevisionsAreOfCommits` | `RevisionsAreCommitted` |
| | `RevisionsInOrder` | `RevisionsFollowHistory` |
| | `AdoptionInvariant` | `AdoptionsInv` |
| | `AdoptionsAreTold` | `AdoptionTold` |
| EvolutionProofs | `CurationInvariant` | `CurationInv` |
| | `VerdictsCover` | `HandedOutIsReserved` |
| | `ReservationsEnd` | `ReservationsAreLive` |
| | `PauseIsKept` | `NothingJudgedWhilePaused` (action property) |
| | `LearningInvariant` | |
| | `PeopleHaveTheLastWord` | `ControlledIsLeftAlone` (action property) |
| | `CompareSuffices` | `NothingCameBetween` (action property) |

The arguments, and why the properties are not inductive by themselves:

* *Worker.* A step of `run()` may only free a slot correctly if each leg starts
  from the states it can start from (`LegState`), `pump()` may skip a queued job
  only because it was cancelled (`QueuedState`), a settling run is resumed by
  exactly one snapshot (`Waiters`), a crashed process holds nothing in memory
  (`Stopped`), a restart brings back only what was saved (`SavedEvidence`), and a
  job that ran is past its start and known (`RanOnce`). The one hard operator is
  `pump()`, a loop over the queue: lemmas state what it starts, skips and leaves
  for any queue without repetitions. The refinement adds what the file can hold
  of a job that ended (`RegistryInvariant`), and maps each step to one of the
  contract or to a stutter.
* *Pipeline.* Whatever final state a handler carries to the table the worker has
  shown (`WorkerIsShown`, `CarriedIsShown`); a request has its row, and one whose
  row is old is over unless it is a replay (`RequestsAndRows`).
* *Gates.* One active work version; the open submission is the last row and at
  the current gate; a submission in review at G4 holds its work version in
  review, so that nothing can supersede its inputs; a released submission stays
  approved.
* *Formal run.* Of a job's executions each but the last has been forgotten
  (`JobInv`), because a job in Core's books is never submitted (`BooksInv`). A row or
  an answer on its way that says ended is of a job that runs no more, and agrees
  with the job's evidence if there is any (`EndsAreTrue`): a restart may change what
  the connector says, but takes the evidence with it. Hence what is frozen is how
  the last execution ended (`EvidenceInv`), and stays so, since a job in the books
  is not executed again. The seal and the flow's memory rest on what is frozen.
* *Engineering run.* The file names for each gate a submission of that gate; the
  executor holds at each point what the point needs (`LoopInv`); what people
  approved is behind the process (`SubsInv`), so that the gate after an approved
  one may be begun; and Core's submissions go forward only, so that what the file
  says stays true while late requests land.
* *Tasks.* A text is given only from the dispatch that wrote its intent, and the
  intent is kept or the model was not asked; only a side task succeeds, and a
  side task that succeeded in Core stays so.
* *Stream.* The window is in order of seq and stands, with the pending delta, for
  everything emitted since its first event (`Window`). Whoever has had the
  emissions up to some seq goes on right after it, or lacks an event that is gone
  (`Placed`), and stays so while the hub grows (`Grows`). A reader lags by at most
  what was emitted since it ran and the pending delta, which is less than the
  window holds (`ReaderInv`), so what it reads next is still there; what was
  written joins what it will read (`Chain`, `ClientInv`). `SinceChain` says what a
  read returns for any window and cursor.
* *Workspace.* `GitInv` says what each step under the Git lock may rely on: a
  marker that is not yet HEAD has nobody's edit under it (`Publishing`); while its
  files are replaced each is the parent's or the commit's (`StepInv`); a file that
  is missing from disk was never in the tree or is still to be checked out
  (`MissingInv`), without which the registrar could commit a staged file that is
  not on disk. With it every step is a step of the promise on `Desk`. That
  revisions are in order needs who is about to register to be at HEAD
  (`Registering`), and that they do not repeat needs what was decided before the
  artifacts were locked to be so still (`Compared`): the project's lock gives both,
  and only in a modern project (`AloneInv`).
  That an adoption is told as it is rests on `Recovered`: the commit of an adoption
  changes its whole batch from the original bytes, so that it is recognised, alone,
  in any later history; a checkout that breaks leaves commit and row as they are
  from then on (`AdoptionInv`).
* *Curation.* Tokens only grow, a reservation is of a run that has not ended, and
  every step but a claim only takes reservations away.
* *Learning.* The revision alone does not count commands: a slug recovered from
  failed candidates starts again at 1. What holds is that since an author read a
  row *with an active version* the revision has grown at least by the commands
  given (`SeenInv`): only a row without one starts again, an active version is
  never lost, and who read a row without one cannot patch. An equal revision
  therefore means that no command came between.

Only model-checked: liveness and everything that needs ENABLED, which the prover
does not do (`AcceptedEnds`, `Converges`, `CatchesUp`, `FlowRests`,
`ApprovalIsNoticed`, `NeverWedged`, `PendingIsJudged`, `DistillationEnds`). Every
invariant and every other action property that a run checks has a theorem.

## Findings

Each has a run whose counterexample shows it.

1. *curation_orphan* - a manual run that completes while a scheduled one is
   outstanding gives the schedule a new generation. The scheduled run is then of
   no lane: nobody claims it, and it keeps every later scheduled run from being
   created. `specs/self-evolution-development-plan-v1.md:91` and
   `specs/self-evolution-v1.md:112` promise a seven-day cycle.
2. *engineering_resume* - a failed request while a run waits for people makes the
   run's file terminal and clears the gate it waits at (`server.ts:3379-3387`). A
   resume after the approval then does not poll the gate but works through the
   approved gate's stages again and is refused a submission. `loop.ts:18` says
   that a resume polls and continues.

Differences between the code and what is said of it, without a run of their own:

* `worker.ts:183`: `run()` sets `preparing` and `running` after awaiting the
  workspace without looking at the state, so a cancel that arrived meanwhile is
  overwritten; the comment at 155-157 says a cancelled run ends cancelled.
* `handlers.ts:2268`: status updates do not look at the row's state, so a row
  compensated to `failed` is live again, which `state-machines.ts:6` and 117-118
  say is rejected.
* `stream-hub.ts:223`: `subscribe()` decides that a cursor is inside the window,
  then `next()` flushes the pending delta, which on a full window evicts the
  event right after the cursor: one event is missing without the reset that the
  header promises. `NoSilentGap` excepts it (`cut`).
* `handlers.ts:1758` and 1601: the older reject and withdraw handlers write the
  submission only; at G4 the work version stays `in_review`, though
  `state-machines.ts:85` has a way back.
* `self-evolution-handlers.ts:2555`: a first version is activated on a slug whose
  candidate was quarantined without a new control revision, against
  `specs/self-evolution-v1.md:173`. A command given on a page from before it passes
  the compare.
* A distillation completed while learning is paused is refused for good and its
  run fails, against `specs/self-evolution-v1.md:219`.
* `free-agent.ts:707`: `prompt()` clears the abort flag, so an abort between the
  acceptance of a message and its prompt is lost, against the comment at
  1092-1094.
* `worker.ts:210`: the error path of `run()` does not snapshot, though the comment
  at 201 says terminal transitions persist first: a crash restores a failed job
  as lost. The contract allows it. `worker.ts:83` writes the registry in place, so
  a crash can leave a torn file and a worker that forgets every job.
* `handlers.ts:2034`: a replay of `POST /jobs` submits the job again, though the
  comment says it does not contact the worker.
* `workspace/git.ts:137-140`: a commit that stages nothing is said to be silent;
  the caller answers `WORKSPACE_GIT_FAILED`.
* The formal flow cannot be reached in the composed system: Core previews formal
  input only for a task whose role is *project* (`p4-handlers.ts:2838-2848`), and
  the runtime has one only for role *run* (`server.ts:3195`), while
  `specs/p4-formal-flow-release.md:244` says a run drives it. `EngineeringRun`
  therefore ends at the last gate, and `FormalRun` models the flow as Core and
  the orchestrator would run it.

Seen while modelling:

* After a restart of the runtime a client's old cursor may pass for one of the
  new stream, since numbering starts again; `StreamHub` excepts these (`old`). A
  connected reader that lags by more than the window gets what is left of it
  without a reset; `MaxBurst < Retain` excludes it.
* A G4 submission in `checking` whose facts changed can be neither submitted nor
  evaluated again nor withdrawn, and nothing else can be created beside it.
* After an abandoned change its baselines stay active.
* A crash between the end of a run and its report leaves Core's row running; a
  resume asked for too early shows a run as running while it waits; a run that a
  poll found rejected may be running again if an execution was under way; an
  *approved* that a poll brings after an abort starts a loose run again.
* Redoing a gate after a rejection fails with `GATE_EVALUATION_BINDING_MISMATCH`
  and leaves a submission in *preparing*.
* If the answer of the flow's submit is lost and the approval comes before the
  retry, the flow fails though the release exists. A lost formal job, or one the
  connector forgot, cannot be run again for the same approval. But if Core's
  transaction fails after the connector took the job, and the connector restarts
  without it, the retry executes the tools a second time.
* In a legacy project two writers may register their commits in the opposite
  order, two requests may register the same bytes twice in a row, and a registrar
  may commit over a half done publication and undo it. An adoption finished after a crash registers the bytes of its older
  commit as the newest version (`RevisionsFollowHistory` excepts it).
* An adoption that was interrupted after its commit may be answered *conflicted*:
  its retry finds the commit (`side-task-handlers.ts:1154`) but looks first for
  paths another adoption has taken since (1186-1215). That can happen when
  somebody put such a path back to the original bytes meanwhile. The files stay in
  Git, unregistered by this adoption; the proof of `AdoptionTold` needs the
  exception.
* When the checkout of an adoption's commit fails and the recovery tried at once
  fails as well, the row says *failed* although HEAD has the commit. The next
  request finishes the publication, and the row stays as it is. The comment at
  `git.ts:572-577` says that the recovery is there so that this cannot happen, and
  that a repeated failure propagates.
* When the disk fails as a turn begins, the session stays *running* without a turn
  (`free-agent.ts:720`), and later messages are steered into a turn that is over.

## Not modelled

* The connector's HTTP layer and registration, the Vivado executor, log digests,
  model clients, routing, authentication, views, scripts, skills and hardware:
  I/O, formatting or checks of one request. The models start from requests that
  passed the checks, and a refused or failed call is a choice of the models that
  make it.
* What a language model answers: a free choice.
* Row locks and PostgreSQL's deadlock detection: a handler's transaction is a
  step, except where it calls another service inside (`FormalRun`) or locks
  nothing (`GateFlow`).
* Idempotency keys reused for another request; the outbox and the legacy
  approval path, each one transaction under a lock.
* Reads, listings, imports and deletion of projects.

The files with most lines (handlers, views, tests of input shapes) are largely
validation, SQL text and presentation; the map covers the handlers and workers
that change shared state, and not these.

## Plan

1. The connector link: clients of one project over the worker's one registration
   and lease, as an environment of `JobPipeline` in place of its free choices.
2. The scheduler's idle window and backoff, the bound of a claim, and the evaluation of skills on Vivado.
3. Binding of a task to the runtime, imports and deletion, beside `AgentTask`.
