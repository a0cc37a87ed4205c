--------------------------- MODULE ConnectorWorker ---------------------------
(***************************************************************************)
(* The Vivado worker process (connector/worker.ts, class WorkerRuntime).   *)
(*                                                                         *)
(* One event loop serves the Connector protocol and runs up to             *)
(* MaxConcurrency jobs.  A step of this module is the code between two     *)
(* awaits: a whole request handler, or one leg of run(job).  The registry  *)
(* of jobs lives in memory and is mirrored, best effort, to one JSON file, *)
(* rewritten in place by a chain of snapshots; a restarted process knows   *)
(* of its jobs what that file says and nothing more.                       *)
(***************************************************************************)
EXTENDS ToolRun, Naturals, Sequences, FiniteSets

CONSTANTS
    Job,             \* job ids, chosen by Core
    NoJob,           \* a snapshot nobody waits for
    MaxConcurrency,  \* endpoint.max_concurrency
    Results,         \* the outcomes an execution may have
    Keep,            \* how many recent jobs a snapshot holds (512)
    DiskFails,       \* may mkdir and writeFile reject?
    MaxCrashes,      \* bound: crashes of the process
    MaxQueued        \* bound: snapshots queued by repeated cancels

ASSUME JobAssumption == IsFiniteSet(Job) /\ NoJob \notin Job
ASSUME ConcurrencyAssumption == MaxConcurrency \in Nat \ {0}
ASSUME ResultsAssumption == Results \subseteq Outcome
ASSUME BoundAssumption ==
    /\ Keep \in Nat \ {0}
    /\ DiskFails \in BOOLEAN
    /\ MaxCrashes \in Nat
    /\ MaxQueued \in Nat

VARIABLES
    up,         \* is the process running?
    st,         \* jobs: the state of each job, "absent" when unknown
    ev,         \* jobs: has the job its evidence manifest?
    order,      \* jobs: the ids in the order the Map holds them
    pending,    \* pending: jobs accepted and not yet started
    active,     \* active: the number of run() in progress
    pc,         \* where run(job) is suspended
    aborted,    \* jobs whose run has had its AbortController fired
    snapQ,      \* snapshotChain: who waits for each queued snapshot
    snapPhase,  \* where writeSnapshot is suspended
    listed,     \* writeSnapshot: recent
    image,      \* the text handed to writeFile
    file,       \* the registry file, last complete contents
    torn,       \* is the registry file cut short, so that it cannot be parsed?
    ran,        \* history: times each job was handed to the executor
    forgotten,  \* history: jobs accepted once and gone after a restart
    crashes     \* history: crashes so far

registry == <<st, ev, order>>
runs == <<pending, active, pc, aborted>>
writer == <<snapPhase, listed, image>>
disk == <<file, torn>>
history == <<ran, forgotten, crashes>>
vars == <<up, registry, runs, snapQ, writer, disk, history>>

\* The set `terminal` of worker.ts: the worker never answers "rejected".
Final == Terminal \ {"rejected"}
JobState == {"absent", "submitted", "running", "cancelling"} \union Final
Entry == [id : Job, st : JobState \ {"absent"}, ev : BOOLEAN]
Position == {"none", "prepare", "execute", "store", "settle"}
Distinct(q) == \A i, k \in DOMAIN q : q[i] = q[k] => i = k
Occurs(j, q) == \E i \in DOMAIN q : q[i] = j
Running == {j \in Job : pc[j] # "none"}

\* new WorkerRuntime() with an empty workspace root.
Init ==
    /\ up = TRUE
    /\ st = [j \in Job |-> "absent"] /\ ev = [j \in Job |-> FALSE]
    /\ order = <<>> /\ pending = <<>> /\ active = 0
    /\ pc = [j \in Job |-> "none"] /\ aborted = {}
    /\ snapQ = <<>> /\ snapPhase = "idle" /\ listed = <<>> /\ image = <<>>
    /\ file = <<>> /\ torn = FALSE
    /\ ran = [j \in Job |-> 0] /\ forgotten = {} /\ crashes = 0
-----------------------------------------------------------------------------
(* pump(): start queued jobs while there is room.                           *)

\* The jobs among the first k of queue q that pump does not skip.
Startable(q, k, s) == {q[i] : i \in {i \in 1..k : s[q[i]] \notin Final}}

\* pump() of queue q with a runs in progress, job states s and run positions p:
\* it takes the first k entries, as many as it can before the room is used up.
Pump(q, a, s, p) ==
    \E k \in 0..Len(q) :
        LET go == Startable(q, k, s) IN
        /\ a + Cardinality(go) <= MaxConcurrency
        /\ k = Len(q) \/ a + Cardinality(go) = MaxConcurrency
        /\ k = 0 \/ a + Cardinality(Startable(q, k - 1, s)) < MaxConcurrency
        /\ pending' = SubSeq(q, k + 1, Len(q))
        /\ active' = a + Cardinality(go)
        /\ pc' = [j \in Job |-> IF j \in go THEN "prepare" ELSE p[j]]

\* Bug: the finally of run() forgets active--.
ReleaseKeepsSlot(j, s) == Pump(pending, active, s, [pc EXCEPT ![j] = "none"])

\* run(job) ends: its finally block, then active-- and pump() again.
Release(j, s) == Pump(pending, active - 1, s, [pc EXCEPT ![j] = "none"])

\* Some run(job) stops at `await snapshotRegistry()`.
AwaitSnapshot(j) ==
    /\ pc' = [pc EXCEPT ![j] = "settle"]
    /\ snapQ' = Append(snapQ, j)
    /\ UNCHANGED <<pending, active>>
-----------------------------------------------------------------------------
(* The Connector protocol: route().                                         *)

\* Bug: submit() does not look the id up first.
SubmitWithoutLookup(j) ==
    /\ up /\ Len(pending) < 3
    /\ st' = [st EXCEPT ![j] = "submitted"]
    /\ order' = Append(order, j)
    /\ snapQ' = Append(snapQ, NoJob)
    /\ Pump(Append(pending, j), active, st', pc)
    /\ UNCHANGED <<up, ev, aborted, writer, disk, history>>

\* submit() of a job it does not know.  A known id is answered from the
\* registry (or refused as a conflict) and changes nothing.  The lease and the
\* registration are left out: they may let the request through at any time.
Submit(j) ==
    /\ up /\ st[j] = "absent"
    /\ st' = [st EXCEPT ![j] = "submitted"]
    /\ order' = Append(order, j)
    /\ snapQ' = Append(snapQ, NoJob)
    /\ Pump(Append(pending, j), active, st', pc)
    /\ UNCHANGED <<up, ev, aborted, writer, disk, history>>

\* Bug: cancelled at once, with the process still at work.
CancelRunningAtOnce(j) ==
    /\ up /\ st[j] \notin Final /\ pc[j] # "none"
    /\ st' = [st EXCEPT ![j] = "cancelled"]
    /\ aborted' = aborted \union {j}
    /\ snapQ' = Append(snapQ, NoJob)
    /\ UNCHANGED <<up, ev, order, pending, active, pc, writer, disk, history>>

\* /jobs/cancel of a job whose run() is in progress: ask the executor to stop.
CancelRunning(j) ==
    /\ up /\ st[j] \notin Final /\ pc[j] # "none"
    /\ st[j] = "cancelling" => Len(snapQ) < MaxQueued
    /\ st' = [st EXCEPT ![j] = "cancelling"]
    /\ aborted' = aborted \union {j}
    /\ snapQ' = Append(snapQ, NoJob)
    /\ UNCHANGED <<up, ev, order, pending, active, pc, writer, disk, history>>

\* /jobs/cancel of a job still queued: it is cancelled on the spot.
CancelQueued(j) ==
    /\ up /\ st[j] \notin Final \union {"absent"} /\ pc[j] = "none"
    /\ st' = [st EXCEPT ![j] = "cancelled"]
    /\ snapQ' = Append(snapQ, NoJob)
    /\ UNCHANGED <<up, ev, order, runs, writer, disk, history>>
-----------------------------------------------------------------------------
(* run(job), leg by leg.                                                    *)

\* The workspace and the request input are on disk: preparing, running, execute.
Prepared(j) ==
    /\ up /\ pc[j] = "prepare"
    /\ st' = [st EXCEPT ![j] = "running"]
    /\ pc' = [pc EXCEPT ![j] = "execute"]
    /\ ran' = [ran EXCEPT ![j] = @ + 1]
    /\ UNCHANGED <<up, ev, order, pending, active, aborted, snapQ, writer,
                   disk, forgotten, crashes>>

\* Bug: the evidence of a cancelled execution is kept.
ExecutedCancelledKeepsEvidence(j) ==
    /\ up /\ pc[j] = "execute" /\ st[j] = "cancelling"
    /\ st' = [st EXCEPT ![j] = "cancelled"]
    /\ ev' = [ev EXCEPT ![j] = TRUE]
    /\ AwaitSnapshot(j)
    /\ UNCHANGED <<up, order, aborted, writer, disk, history>>

\* The executor returned and the job had been asked to stop.
ExecutedCancelled(j) ==
    /\ up /\ pc[j] = "execute" /\ st[j] = "cancelling"
    /\ st' = [st EXCEPT ![j] = "cancelled"]
    /\ AwaitSnapshot(j)
    /\ UNCHANGED <<up, ev, order, aborted, writer, disk, history>>

\* The executor returned outcome o with an output: the state is set before the
\* output is written, the evidence after.
ExecutedOutput(j, o) ==
    /\ up /\ pc[j] = "execute" /\ st[j] # "cancelling"
    /\ st' = [st EXCEPT ![j] = o]
    /\ pc' = [pc EXCEPT ![j] = "store"]
    /\ UNCHANGED <<up, ev, order, pending, active, aborted, snapQ, writer,
                   disk, history>>

\* The executor returned outcome o without an output, with evidence or not.
ExecutedNoOutput(j, o, e) ==
    /\ up /\ pc[j] = "execute" /\ st[j] # "cancelling"
    /\ st' = [st EXCEPT ![j] = o]
    /\ ev' = [ev EXCEPT ![j] = e]
    /\ AwaitSnapshot(j)
    /\ UNCHANGED <<up, order, aborted, writer, disk, history>>

\* worker-result.json is written: the manifest becomes visible.
Stored(j) ==
    /\ up /\ pc[j] = "store"
    /\ ev' = [ev EXCEPT ![j] = TRUE]
    /\ AwaitSnapshot(j)
    /\ UNCHANGED <<up, st, order, aborted, writer, disk, history>>

\* Where an await of run(job) may throw: the executor always, the disk maybe.
Throws(j) == pc[j] = "execute" \/ (DiskFails /\ pc[j] \in {"prepare", "store"})

\* The catch block, of a job asked to stop.
CaughtCancelled(j) ==
    /\ up /\ Throws(j) /\ st[j] = "cancelling"
    /\ st' = [st EXCEPT ![j] = "cancelled"]
    /\ AwaitSnapshot(j)
    /\ UNCHANGED <<up, ev, order, aborted, writer, disk, history>>

\* Bug: a failed run frees its slot and does not pump.
CaughtFailedWithoutPump(j) ==
    /\ up /\ Throws(j) /\ st[j] # "cancelling"
    /\ st' = [st EXCEPT ![j] = "failed"]
    /\ pc' = [pc EXCEPT ![j] = "none"] /\ active' = active - 1
    /\ UNCHANGED <<up, ev, order, pending, aborted, snapQ, writer, disk, history>>

\* The catch block otherwise: failed, and run() ends without a snapshot.
CaughtFailed(j) ==
    /\ up /\ Throws(j) /\ st[j] # "cancelling"
    /\ st' = [st EXCEPT ![j] = "failed"]
    /\ Release(j, st')
    /\ UNCHANGED <<up, ev, order, aborted, snapQ, writer, disk, history>>
-----------------------------------------------------------------------------
(* writeSnapshot(), one at a time along snapshotChain.                      *)

\* jobs.values(), the last Keep of them.
Recent == SubSeq(order, IF Len(order) > Keep THEN Len(order) - Keep + 1 ELSE 1,
                 Len(order))

SnapshotList ==
    /\ up /\ snapPhase = "idle" /\ snapQ # <<>>
    /\ snapPhase' = "listed"
    /\ listed' = Recent
    /\ UNCHANGED <<up, registry, runs, snapQ, image, disk, history>>

\* The directory is there: the jobs listed are serialised as they are now.
SnapshotWrite ==
    /\ up /\ snapPhase = "listed"
    /\ snapPhase' = "writing"
    /\ image' = [i \in DOMAIN listed |->
                   [id |-> listed[i], st |-> st[listed[i]], ev |-> ev[listed[i]]]]
    /\ UNCHANGED <<up, registry, runs, snapQ, listed, disk, history>>

\* The snapshot at the head of the chain is over: its waiter goes on.
SnapshotSettles ==
    /\ snapPhase' = "idle"
    /\ listed' = <<>> /\ image' = <<>>
    /\ snapQ' = Tail(snapQ)
    /\ IF Head(snapQ) = NoJob
         THEN UNCHANGED <<pending, active, pc>>
         ELSE Release(Head(snapQ), st)
    /\ UNCHANGED <<up, registry, aborted, history>>

SnapshotDone ==
    /\ up /\ snapPhase = "writing"
    /\ file' = image /\ torn' = FALSE
    /\ SnapshotSettles

\* mkdir or writeFile rejected, and the error is swallowed: the file is as it
\* was, or cut short.
SnapshotFails(cut) ==
    /\ up /\ DiskFails /\ snapPhase \in {"listed", "writing"}
    /\ torn' = (torn \/ (cut /\ snapPhase = "writing"))
    /\ UNCHANGED file
    /\ SnapshotSettles
-----------------------------------------------------------------------------
(* Crash and restart.  While the process is down, st and ev keep what it    *)
(* last knew; nobody can read them.                                         *)

\* What a crash may leave of a file being rewritten in place.
Remains == IF snapPhase = "writing" THEN {"old", "new", "torn"} ELSE {"old"}

Crash(left) ==
    /\ up /\ crashes < MaxCrashes
    /\ crashes' = crashes + 1
    /\ up' = FALSE
    /\ pending' = <<>> /\ active' = 0
    /\ pc' = [j \in Job |-> "none"] /\ aborted' = {}
    /\ snapQ' = <<>> /\ snapPhase' = "idle" /\ listed' = <<>> /\ image' = <<>>
    /\ file' = IF left = "new" THEN image ELSE file
    /\ torn' = ((torn /\ left = "old") \/ left = "torn")
    /\ UNCHANGED <<registry, ran, forgotten>>

\* The entries restoreRegistry() finds: none when the file cannot be parsed.
OnDisk == IF torn THEN <<>> ELSE file
EntriesOf(j) == {OnDisk[i] : i \in {i \in DOMAIN OnDisk : OnDisk[i].id = j}}
Saved(j) == CHOOSE e \in EntriesOf(j) : TRUE

\* Bug: an interrupted job is restored in the state it was saved in.
RestoredAsIs(e) == e.st

\* restoreRegistry(): a job that had not ended is lost.
Restored(e) == IF e.st \in Final THEN e.st ELSE "lost"

\* Bug: restoreRegistry() queues interrupted jobs again.
RestartRequeues ==
    /\ ~up
    /\ up' = TRUE
    /\ order' = [i \in DOMAIN OnDisk |-> OnDisk[i].id]
    /\ st' = [j \in Job |->
                IF EntriesOf(j) = {} THEN "absent"
                ELSE IF Saved(j).st \in Final THEN Saved(j).st ELSE "submitted"]
    /\ ev' = [j \in Job |-> EntriesOf(j) # {} /\ Saved(j).ev]
    /\ Pump(SelectSeq(order', LAMBDA j : st'[j] = "submitted"), 0, st', pc)
    /\ UNCHANGED <<aborted, snapQ, writer, disk, history>>

Restart ==
    /\ ~up
    /\ up' = TRUE
    /\ order' = [i \in DOMAIN OnDisk |-> OnDisk[i].id]
    /\ st' = [j \in Job |-> IF EntriesOf(j) = {} THEN "absent"
                            ELSE Restored(Saved(j))]
    /\ ev' = [j \in Job |-> EntriesOf(j) # {} /\ Saved(j).ev]
    /\ forgotten' = forgotten \union
                      {j \in Job : st[j] # "absent" /\ EntriesOf(j) = {}}
    /\ UNCHANGED <<runs, snapQ, writer, disk, ran, crashes>>
-----------------------------------------------------------------------------
Protocol(j) == Submit(j) \/ CancelRunning(j) \/ CancelQueued(j)

Run(j) ==
    \/ Prepared(j)
    \/ ExecutedCancelled(j)
    \/ \E o \in Results : ExecutedOutput(j, o)
    \/ \E o \in Results, e \in BOOLEAN : ExecutedNoOutput(j, o, e)
    \/ Stored(j)
    \/ CaughtCancelled(j)
    \/ CaughtFailed(j)

Snapshot ==
    \/ SnapshotList
    \/ SnapshotWrite
    \/ SnapshotDone
    \/ \E cut \in BOOLEAN : SnapshotFails(cut)

Next ==
    \/ \E j \in Job : Protocol(j) \/ Run(j)
    \/ Snapshot
    \/ \E left \in Remains : Crash(left)
    \/ Restart

Spec == Init /\ [][Next]_vars

\* The process is restarted, an execution ends (vivado.ts bounds it with a
\* timeout) and file operations settle.  Nobody owes the worker a request.
Fairness ==
    /\ \A j \in Job : WF_vars(Run(j))
    /\ WF_vars(Snapshot)
    /\ WF_vars(Restart)

FairSpec == Spec /\ Fairness
-----------------------------------------------------------------------------
\* Every variable has its type.
TypeOK ==
    /\ up \in BOOLEAN
    /\ st \in [Job -> JobState]
    /\ ev \in [Job -> BOOLEAN]
    /\ order \in Seq(Job)
    /\ pending \in Seq(Job)
    /\ active \in 0..MaxConcurrency
    /\ pc \in [Job -> Position]
    /\ aborted \subseteq Job
    /\ snapQ \in Seq(Job \union {NoJob})
    /\ snapPhase \in {"idle", "listed", "writing"}
    /\ listed \in Seq(Job)
    /\ image \in Seq(Entry)
    /\ file \in Seq(Entry)
    /\ torn \in BOOLEAN
    /\ ran \in [Job -> Nat]
    /\ forgotten \subseteq Job
    /\ crashes \in 0..MaxCrashes

\* The slots counted are the runs in progress: no path through run() loses or
\* frees a slot twice (run's finally, pump's active++ and active--).
SlotsMatchRuns == active = Cardinality(Running)

\* An accepted job that has not ended is either queued once or running, never
\* both and never neither: a job that pump() skipped or lost would stay open for
\* ever, one queued twice would run twice in the same workspace.
NoStrandedJob ==
    /\ Distinct(pending)
    /\ \A i \in DOMAIN pending : pc[pending[i]] = "none"
    /\ \A j \in Job : up /\ st[j] \notin Final \union {"absent"}
                        => pc[j] # "none" \/ Occurs(j, pending)

\* No job waits while a slot is free: every path that frees a slot pumps.
NoIdleSlot ==
    (\E i \in DOMAIN pending : st[pending[i]] \notin Final) => active = MaxConcurrency

\* The slots are accounted for: none leaks, none is given twice, none is left idle.
SlotsAccounted == SlotsMatchRuns /\ NoIdleSlot

\* "cancelled" is only said of a job that no process is working on: it holds no
\* executor and writes no output any more (the comment in /jobs/cancel).
CancelledIsIdle == \A j \in Job : st[j] = "cancelled" => pc[j] \in {"none", "settle"}

\* Evidence belongs to a job that ended with an outcome; a cancelled job never
\* has any, whatever its executor returned or a restart brought back.
EvidenceOnlyOfOutcome == \A j \in Job : ev[j] => st[j] \in Outcome

\* A job is handed to the executor a second time only if a restart forgot it.
RerunOnlyIfForgotten == \A j \in Job : ran[j] > 1 => j \in forgotten

\* Every job accepted ends, unless a crash makes the worker forget it.
AcceptedEnds ==
    \A j \in Job : st[j] = "submitted" ~> st[j] \in Final \union {"absent"}

\* The worker keeps its contract.
Promise == INSTANCE WorkerContract
KeepsContract == Promise!Contract
-----------------------------------------------------------------------------
(* Why the invariants hold: what they need of each other from step to step. *)

\* The lists of ids only name jobs the registry knows.
ListsAreKnown ==
    /\ \A i \in DOMAIN order : st[order[i]] # "absent"
    /\ \A i \in DOMAIN listed : st[listed[i]] # "absent"

\* The state each leg of run(job) starts from.
LegState ==
    \A j \in Job :
        /\ pc[j] = "prepare" => st[j] \in {"submitted", "cancelling"}
        /\ pc[j] = "execute" => st[j] \in {"running", "cancelling"}
        /\ pc[j] = "store" => st[j] \in Outcome /\ ~ev[j]
        /\ pc[j] = "settle" => st[j] \in Final

\* A queued job is as it was submitted, or cancelled in the queue.
QueuedState == \A i \in DOMAIN pending : st[pending[i]] \in {"submitted", "cancelled"}

\* Each run that awaits a snapshot awaits exactly one.
Waiters ==
    /\ \A i \in DOMAIN snapQ : snapQ[i] # NoJob => pc[snapQ[i]] = "settle"
    /\ \A i, k \in DOMAIN snapQ : snapQ[i] = snapQ[k] /\ snapQ[i] # NoJob => i = k
    /\ snapPhase # "idle" => snapQ # <<>>

\* A process that is down does nothing.
Stopped == ~up => /\ pending = <<>> /\ snapQ = <<>> /\ snapPhase = "idle" /\ listed = <<>>
                  /\ \A j \in Job : pc[j] = "none"

\* What is saved, or being saved, has evidence only with an outcome.
SavedEvidence ==
    /\ \A i \in DOMAIN file : file[i].ev => file[i].st \in Outcome
    /\ \A i \in DOMAIN image : image[i].ev => image[i].st \in Outcome

\* A job that ran once is past its start, and known unless a restart forgot it.
RanOnce ==
    \A j \in Job \ forgotten :
        /\ ran[j] <= 1
        /\ ran[j] = 1 => st[j] # "absent" /\ pc[j] # "prepare" /\ ~Occurs(j, pending)

\* The worker's inductive invariant.
WorkerInv ==
    /\ TypeOK
    /\ ListsAreKnown /\ LegState /\ QueuedState
    /\ SlotsMatchRuns /\ NoStrandedJob /\ NoIdleSlot
    /\ CancelledIsIdle /\ EvidenceOnlyOfOutcome
    /\ Waiters /\ Stopped /\ SavedEvidence /\ RanOnce

\* What the worker said of the job of entry e allows a restart to bring e back.
MayReturn(e) == Promise!MayRemember(st[e.id], ev[e.id], Restored(e), e.ev)
OneEntryEach(q) == \A i, k \in DOMAIN q : q[i].id = q[k].id => i = k

\* The registry file and the text on its way to it name a job once, and hold of it
\* only what the contract lets a restarted worker say.
RegistryInv ==
    /\ Distinct(order) /\ Distinct(listed)
    /\ OneEntryEach(image) /\ OneEntryEach(file)
    /\ snapPhase = "idle" => image = <<>>
    /\ \A i \in DOMAIN image : MayReturn(image[i])
    /\ ~torn => \A i \in DOMAIN file : MayReturn(file[i])
=============================================================================
