------------------------------ MODULE AgentTask ------------------------------
(***************************************************************************)
(* One task of Core and the agent that carries it out: Core's row          *)
(* (core/src/api/task-proxy.ts, side-task-handlers.ts), the runtime's      *)
(* handle, message ledger and session (runtime/server.ts, agent-state.ts,  *)
(* free-agent.ts), and the requests between them.  A person creates the    *)
(* task, writes to it, aborts it and repeats what got no answer; the       *)
(* runtime crashes and restarts; callbacks to Core get lost.               *)
(***************************************************************************)
EXTENDS Naturals, FiniteSets

CONSTANTS
    Message,        \* messages, each with its Idempotency-Key
    Roles,          \* subset of {"side", "project"}
    Start,          \* stands for the task's own objective, the first prompt
    MaxRetries,     \* requests a person repeats
    MaxAborts,
    MaxCrashes,     \* of the runtime
    MaxSilences     \* failures of Core as the runtime sees it, and of its disk

VARIABLES
    role,       \* agent_role, fixed
    core,       \* the agent_task row: status and whether a transaction locks it
    asked,      \* user_message facts
    request,    \* how far the create request got
    wire,       \* messages Core has sent to the runtime and that wait there
    handle,     \* the runtime's registry entry
    disk,       \* the agent-state file
    ledger,     \* the message ledger in memory and on disk
    desk,       \* the holder of the dispatch lock
    session,    \* the conversation
    turn,       \* the turn in progress
    abort,      \* the abort request in progress
    given,      \* how often each text was handed to the model
    budget

vars == <<role, core, asked, request, wire, handle, disk, ledger, desk,
          session, turn, abort, given, budget>>
runtime == <<handle, disk, ledger, desk, session, turn, given>>

ASSUME TaskAssumption ==
    /\ Roles \subseteq {"side", "project"} /\ Start \notin Message
    /\ {MaxRetries, MaxAborts, MaxCrashes, MaxSilences} \subseteq Nat

Text == Message \cup {Start}
Open == {"queued", "running", "awaiting_user"}
Final == {"succeeded", "failed", "cancelled", "fail_closed"}
Nobody == [stage |-> "none", text |-> Start]
NoHandle == [up |-> TRUE, there |-> FALSE, started |-> FALSE,
             status |-> "none", aborted |-> FALSE]
NoSession == [status |-> "none", abort |-> FALSE, steer |-> FALSE]
Blank == [m \in Message |-> "none"]

Init ==
    /\ role \in Roles
    /\ core = [status |-> "none", locked |-> FALSE]
    /\ asked = {} /\ wire = {}
    /\ request = "none"
    /\ handle = NoHandle
    /\ disk = [there |-> FALSE, started |-> FALSE, status |-> "none"]
    /\ ledger = [mem |-> Blank, disk |-> Blank]
    /\ desk = Nobody /\ turn = Nobody
    /\ session = NoSession
    /\ abort = "none"
    /\ given = [t \in Text |-> 0]
    /\ budget = [retries |-> MaxRetries, aborts |-> MaxAborts,
                 crashes |-> MaxCrashes, silences |-> MaxSilences]

Spend(what) ==
    /\ budget[what] > 0
    /\ budget' = [budget EXCEPT ![what] = @ - 1]

-----------------------------------------------------------------------------
(* Status callbacks: appendTaskEventHandler and applyRuntimeStatus         *)

\* A project's agent goes on for ever; a bounded task does not leave its end.
Allowed(to) ==
    \/ role = "project"
    \/ core.status \in Open /\ (core.status = "queued" => to # "awaiting_user")
    \/ core.status = to

Become(status) == core' = [core EXCEPT !.status = status]

\* Core takes the status; it waits while another transaction has the row.
Heard(to) ==
    /\ ~core.locked /\ Allowed(to)
    /\ Become(to)
    /\ UNCHANGED budget

\* A missing handle has no state to keep.
Local(status) ==
    /\ handle' = IF handle.there THEN [handle EXCEPT !.status = status] ELSE handle
    /\ disk' = [disk EXCEPT !.status = status]

\* failClosedCoreTask: the end is recorded here first and told to Core once.
FailClosed ==
    /\ ~core.locked
    /\ Local("fail_closed")
    /\ \/ Heard("fail_closed")
       \/ ~Allowed("fail_closed") /\ UNCHANGED <<core, budget>>
       \/ Spend("silences") /\ UNCHANGED core

\* Telling Core fails: it refuses, or it or its answer is not heard, in which
\* case it may have taken the status and may take the fail-closed one.
TellingFails(to) ==
    \/ ~Allowed(to) /\ FailClosed
    \/ /\ ~core.locked
       /\ Spend("silences")
       /\ Local("fail_closed")
       /\ core' \in {core} \cup {[core EXCEPT !.status = s] :
                                    s \in {u \in {to, "fail_closed"} : Allowed(u)}}

-----------------------------------------------------------------------------
(* Creating: Core commits, then registers, binds and starts at the runtime *)

Create ==
    /\ core.status = "none"
    /\ core' = [core EXCEPT !.status = "queued"]
    /\ request' = "register"
    /\ UNCHANGED <<role, asked, wire, runtime, abort, budget>>

\* A replay with the same key drives the runtime again.
CreateAgain ==
    /\ request \in {"failed", "done"}
    /\ Spend("retries")
    /\ request' = "register"
    /\ UNCHANGED <<role, core, asked, wire, runtime, abort>>

Register ==
    /\ request = "register" /\ handle.up
    /\ IF handle.there THEN UNCHANGED <<handle, disk>>
       ELSE /\ handle' = [NoHandle EXCEPT !.there = TRUE, !.status = "idle"]
            /\ disk' = [there |-> TRUE, started |-> FALSE, status |-> "running"]
    /\ request' = "start"
    /\ UNCHANGED <<role, core, asked, wire, ledger, desk, session, turn, abort, given, budget>>

\* performStart up to the first message.
StartAgent ==
    /\ request = "start" /\ handle.up
    /\ handle.there /\ ~handle.started /\ handle.status = "idle"
    /\ handle' = [handle EXCEPT !.started = TRUE]
    /\ disk' = [disk EXCEPT !.started = TRUE, !.status = "running"]
    /\ request' = "starting"
    /\ UNCHANGED <<role, core, asked, wire, ledger, desk, session, turn, abort, given, budget>>

\* Already started: Core takes over the end it may have missed.
StartedAlready ==
    /\ request = "start" /\ handle.up /\ ~core.locked
    /\ handle.started
    /\ core' = [core EXCEPT !.status =
                  IF handle.status \in {"failed", "fail_closed"} /\ @ \in Open THEN handle.status
                  ELSE IF @ = "queued" THEN "running" ELSE @]
    /\ request' = "done"
    /\ UNCHANGED <<role, asked, wire, runtime, abort, budget>>

\* The runtime is down, or has no such task, or it is not startable.
StartRefused ==
    /\ \/ request \in {"register", "start"} /\ ~handle.up
       \/ /\ request = "start" /\ ~handle.started
          /\ handle.there => handle.status # "idle"
    /\ request' = "failed"
    /\ UNCHANGED <<role, core, asked, wire, runtime, abort, budget>>

-----------------------------------------------------------------------------
(* Messages: Core's fact, the ledger's intent, the dispatch                *)

Messageable ==
    \/ role = "project" /\ core.status \notin {"none", "queued"}
    \/ core.status \in {"running", "awaiting_user"}

Send(m) ==
    /\ ~core.locked /\ Messageable
    /\ wire' = IF handle.up THEN wire \cup {m} ELSE wire
    /\ UNCHANGED <<role, core, request, runtime, abort>>

Ask(m) ==
    /\ m \notin asked
    /\ asked' = asked \cup {m}
    /\ Send(m)
    /\ UNCHANGED budget

AskAgain(m) ==
    /\ m \in asked \ wire
    /\ Spend("retries")
    /\ Send(m)
    /\ UNCHANGED asked

At(stage, text) == desk' = [stage |-> stage, text |-> text]

\* terminalCoreTaskMessageConflict
Ended ==
    /\ role = "side" /\ handle.there
    /\ handle.status \in {"succeeded", "failed", "fail_closed"}

\* Bug: only a recorded answer counts, an intent without one does not.
KnownIfAnswered(m) == ledger.mem[m] = "completed"

Known(m) == ledger.mem[m] # "none"

\* Answered at once: with a conflict, or with what the ledger has.
Answer(m) ==
    /\ handle.up /\ m \in wire /\ desk = Nobody
    /\ Ended \/ Known(m) \/ ~disk.there
    /\ wire' = wire \ {m}
    /\ UNCHANGED <<role, core, asked, request, runtime, abort, budget>>

\* The intent is durable before anything else is done with the message.
Intend(m) ==
    /\ handle.up /\ m \in wire /\ desk = Nobody
    /\ disk.there /\ ~Ended /\ ~Known(m)
    /\ \/ /\ ledger' = [mem |-> [ledger.mem EXCEPT ![m] = "in_progress"],
                        disk |-> [ledger.mem EXCEPT ![m] = "in_progress"]]
          /\ At("check", m)
          /\ UNCHANGED <<wire, budget>>
       \/ /\ Spend("silences")
          /\ wire' = wire \ {m}
          /\ UNCHANGED <<ledger, desk>>
    /\ UNCHANGED <<role, core, asked, request, handle, disk, session, turn, abort, given>>

IntendStart ==
    /\ request = "starting" /\ desk = Nobody
    /\ At("check", Start)
    /\ UNCHANGED <<role, core, asked, request, wire, handle, disk, ledger, session, turn,
                   abort, given, budget>>

Unready == (handle.there /\ ~handle.started) \/ Ended

\* performSendMessage up to its first effect: refuse, steer the running turn, or
\* go on to a turn of its own.
Check ==
    /\ desk.stage = "check"
    /\ LET t == desk.text IN
       \/ /\ Unready \/ (turn # Nobody /\ session.status # "running")
          /\ At("release", t) /\ UNCHANGED <<session, given>>
       \/ /\ ~Unready /\ session.status = "running"
          /\ session' = [session EXCEPT !.steer = TRUE]
          /\ given' = [given EXCEPT ![t] = @ + 1]
          /\ At("record", t)
       \/ /\ ~Unready /\ turn = Nobody
          /\ session' = [session EXCEPT !.status = IF @ = "none" THEN "idle" ELSE @]
          /\ At("announce", t) /\ UNCHANGED given
    /\ UNCHANGED <<role, core, asked, request, wire, handle, disk, ledger, turn, abort, budget>>

\* The session cannot be put together: no model, no project facts.
NoAssembly ==
    /\ desk.stage = "check" /\ ~Unready /\ session.status = "none"
    /\ Spend("silences")
    /\ At("release", desk.text)
    /\ UNCHANGED <<role, core, asked, request, wire, handle, disk, ledger, session, turn,
                   abort, given>>

\* The running status must be in Core before the model is asked.
Announce ==
    /\ desk.stage = "announce"
    /\ \/ ~handle.there /\ At("prompt", desk.text) /\ UNCHANGED <<core, budget, handle, disk>>
       \/ handle.there /\ Heard("running") /\ At("prompt", desk.text) /\ UNCHANGED <<handle, disk>>
       \/ handle.there /\ TellingFails("running") /\ At("release", desk.text)
    /\ UNCHANGED <<role, asked, request, wire, ledger, session, turn, abort, given>>

\* session.prompt starts with a clean abort flag; nobody waits for it to keep the text.
Prompt ==
    /\ desk.stage = "prompt"
    /\ At("record", desk.text)
    /\ turn' = [stage |-> "begun", text |-> desk.text]
    /\ session' = [session EXCEPT !.status = "running", !.abort = FALSE]
    /\ given' = [given EXCEPT ![desk.text] = @ + 1]
    /\ handle' = IF handle.there THEN [handle EXCEPT !.status = "running"] ELSE handle
    /\ UNCHANGED <<role, core, asked, request, wire, disk, ledger, abort, budget>>

\* What ends a dispatch: the answer of a message or of the start.
Answered(ok) ==
    IF desk.text = Start
    THEN request' = (IF ok THEN "done" ELSE "failed") /\ UNCHANGED wire
    ELSE wire' = wire \ {desk.text} /\ UNCHANGED request

Note(what, durable) ==
    IF desk.text = Start THEN UNCHANGED ledger
    ELSE LET mem == [ledger.mem EXCEPT ![desk.text] = what]
         IN ledger' = [mem |-> mem, disk |-> IF durable THEN mem ELSE ledger.disk]

Record ==
    /\ desk.stage = "record"
    /\ \/ Note("completed", TRUE) /\ UNCHANGED budget
       \/ Note("completed", FALSE) /\ Spend("silences")
    /\ Answered(TRUE)
    /\ desk' = Nobody
    /\ UNCHANGED <<role, core, asked, handle, disk, session, turn, abort, given>>

\* A refused text may be sent again; a start that failed early may be repeated.
Release ==
    /\ desk.stage = "release"
    /\ \/ Note("none", TRUE) /\ UNCHANGED budget
       \/ UNCHANGED ledger /\ Spend("silences")
    /\ IF desk.text = Start /\ handle.status = "idle"
       THEN /\ handle' = [handle EXCEPT !.started = FALSE]
            /\ disk' = [disk EXCEPT !.started = FALSE]
       ELSE UNCHANGED <<handle, disk>>
    /\ Answered(FALSE)
    /\ desk' = Nobody
    /\ UNCHANGED <<role, core, asked, session, turn, abort, given>>

-----------------------------------------------------------------------------
(* The turn                                                                *)

Stage(stage) == turn' = [turn EXCEPT !.stage = stage]
Asking == turn.stage = "model" /\ session.status = "running"

KeepsText ==
    /\ turn.stage = "begun"
    /\ disk' = [disk EXCEPT !.status = "running"]
    /\ Stage("model")
    /\ UNCHANGED <<role, core, asked, request, wire, handle, ledger, desk, session,
                   abort, given, budget>>

\* The disk fails outside of what prompt catches: the turn ends, and the session is
\* left running.
NotKept ==
    /\ turn.stage = "begun" /\ Spend("silences")
    /\ Stage("broken")
    /\ UNCHANGED <<role, core, asked, request, wire, handle, disk, ledger, desk, session,
                   abort, given>>

TakeSteer ==
    /\ Asking /\ session.steer /\ ~session.abort
    /\ session' = [session EXCEPT !.steer = FALSE]
    /\ UNCHANGED <<role, core, asked, request, wire, handle, disk, ledger, desk, turn,
                   abort, given, budget>>

EndTurn(status, local, stage) ==
    /\ session' = [session EXCEPT !.status = status]
    /\ Local(local)
    /\ Stage(stage)
    /\ UNCHANGED <<role, core, asked, request, wire, ledger, desk, abort, given>>

Reply ==
    /\ Asking /\ ~session.abort /\ ~session.steer
    /\ EndTurn("idle", "awaiting_user", "replied")
    /\ UNCHANGED budget

\* The abort flag is looked at before each model call and after it.
Stop ==
    /\ Asking /\ session.abort
    /\ EndTurn("cancelled", "failed", "stopped")
    /\ UNCHANGED budget

Break ==
    /\ Asking
    /\ Spend("silences")
    /\ EndTurn("failed", "failed", "broken")

Settled == turn' = Nobody /\ UNCHANGED <<role, asked, request, wire, ledger, desk, session,
                                         abort, given>>

\* Bug: the runtime believes in a result that Core did not take.
SealAnyway ==
    /\ ~core.locked
    /\ core' = IF core.status \in {"running", "awaiting_user"}
               THEN [core EXCEPT !.status = "succeeded"] ELSE core
    /\ Local("succeeded")
    /\ UNCHANGED budget

\* finalizeResult of a side task: Core seals the result and ends the task.
Seal ==
    /\ ~core.locked
    /\ \/ /\ core.status \in {"running", "awaiting_user"}
          /\ Become("succeeded")
          /\ Local("succeeded")
          /\ UNCHANGED budget
       \/ core.status \notin {"running", "awaiting_user"} /\ FailClosed
       \/ /\ core.status \in {"running", "awaiting_user"}
          /\ TellingFails("succeeded")

Await ==
    \/ Heard("awaiting_user") /\ Local("awaiting_user")
    \/ TellingFails("awaiting_user")

SettleReply ==
    /\ turn.stage = "replied"
    /\ \/ handle.there /\ role = "side" /\ Seal
       \/ handle.there /\ Await
       \/ ~handle.there /\ UNCHANGED <<core, handle, disk, budget>>
    /\ Settled

\* Core does the cancelling itself: the runtime sends no status.
SettleStop ==
    /\ turn.stage = "stopped"
    /\ handle' = [handle EXCEPT !.aborted = FALSE]
    /\ Settled
    /\ UNCHANGED <<core, disk, budget>>

SettleBreak ==
    /\ turn.stage = "broken"
    /\ \/ handle.there /\ role = "project" /\ Await
       \/ handle.there /\ role = "side" /\ FailClosed
       \/ ~handle.there /\ UNCHANGED <<core, handle, disk, budget>>
    /\ Settled

-----------------------------------------------------------------------------
(* Aborting: Core calls the runtime inside the transaction that cancels    *)

Abort ==
    /\ abort = "none" /\ ~core.locked /\ core.status # "none"
    /\ Spend("aborts")
    /\ abort' = "call"
    /\ core' = [core EXCEPT !.locked = TRUE]
    /\ UNCHANGED <<role, asked, request, wire, runtime>>

\* syncHandleFromSession: the handle follows the session, whatever it said.
Synced ==
    IF session.status = "cancelled" THEN "failed"
    ELSE IF session.status = "idle" THEN "awaiting_user" ELSE session.status

AbortCall ==
    /\ abort = "call" /\ handle.up /\ disk.there
    /\ IF session.status = "none" THEN UNCHANGED <<session, handle>>
       ELSE /\ session' = [session EXCEPT !.abort = TRUE]
            /\ handle' = IF handle.there
                         THEN [handle EXCEPT !.status = Synced, !.aborted = TRUE] ELSE handle
    /\ abort' = "commit"
    /\ UNCHANGED <<role, core, asked, request, wire, disk, ledger, desk, turn, given, budget>>

AbortCommit ==
    /\ abort = "commit"
    /\ abort' = "none"
    /\ core' = [locked |-> FALSE, status |-> IF core.status \in Open THEN "cancelled" ELSE core.status]
    /\ UNCHANGED <<role, asked, request, wire, runtime, budget>>

\* The runtime has no answer, or the transaction fails: nothing is cancelled.
AbortFails ==
    /\ \/ abort = "call" /\ ~(handle.up /\ disk.there) /\ UNCHANGED budget
       \/ abort = "commit" /\ Spend("silences")
    /\ abort' = "none"
    /\ core' = [core EXCEPT !.locked = FALSE]
    /\ UNCHANGED <<role, asked, request, wire, runtime>>

-----------------------------------------------------------------------------
(* Crash and restart of the runtime                                        *)

Crash ==
    /\ handle.up
    /\ Spend("crashes")
    /\ handle' = [NoHandle EXCEPT !.up = FALSE]
    /\ session' = NoSession
    /\ turn' = Nobody /\ desk' = Nobody
    /\ ledger' = [ledger EXCEPT !.mem = Blank]
    /\ wire' = {}
    /\ request' = IF request \in {"register", "start", "starting"} THEN "failed" ELSE request
    /\ UNCHANGED <<role, core, asked, disk, abort, given>>

Recovered(status) ==
    [NoHandle EXCEPT !.there = TRUE, !.started = disk.started, !.status = status]

WasRunning == disk.there /\ disk.started /\ disk.status = "running"

\* Bug: a turn that was cut off is only remembered, Core is not told.
RecoverQuietly ==
    /\ handle' = Recovered("fail_closed")
    /\ disk' = [disk EXCEPT !.status = "fail_closed"]
    /\ UNCHANGED <<core, budget>>

\* A turn that was cut off ends a side task and returns a project's agent.
Recover ==
    LET to == IF role = "project" THEN "awaiting_user" ELSE "fail_closed" IN
    /\ ~core.locked
    /\ \/ /\ handle' = Recovered(to)
          /\ disk' = [disk EXCEPT !.status = to]
          /\ Heard(to) \/ (~Allowed(to) /\ UNCHANGED <<core, budget>>)
       \/ /\ handle' = Recovered("fail_closed")
          /\ disk' = [disk EXCEPT !.status = "fail_closed"]
          /\ Spend("silences") /\ UNCHANGED core

Restart ==
    /\ ~handle.up
    /\ ledger' = [ledger EXCEPT !.mem = ledger.disk]
    /\ \/ WasRunning /\ Recover
       \/ /\ disk.there /\ ~WasRunning
          /\ handle' = Recovered(IF disk.started THEN disk.status ELSE "idle")
          /\ UNCHANGED <<core, disk, budget>>
       \/ ~disk.there /\ handle' = NoHandle /\ UNCHANGED <<core, disk, budget>>
       \/ /\ disk.there /\ Spend("silences")        \* no facts from Core: skipped
          /\ handle' = NoHandle
          /\ UNCHANGED <<core, disk>>
    /\ UNCHANGED <<role, asked, request, wire, desk, session, turn, abort, given>>

-----------------------------------------------------------------------------

Requests == \/ Register \/ StartAgent \/ StartedAlready \/ StartRefused \/ IntendStart
            \/ AbortCall \/ AbortCommit \/ AbortFails
Dispatch == Check \/ Announce \/ Prompt \/ Record \/ Release
Turn == KeepsText \/ TakeSteer \/ Reply \/ Stop \/ SettleReply \/ SettleStop \/ SettleBreak

Next ==
    \/ Create \/ CreateAgain \/ Abort
    \/ \E m \in Message : Ask(m) \/ AskAgain(m) \/ Answer(m) \/ Intend(m)
    \/ Requests \/ Dispatch \/ NoAssembly \/ Turn \/ NotKept \/ Break
    \/ Crash \/ Restart

\* Requests and dispatches go on by themselves, the model answers, a supervisor
\* restarts the runtime.  People and failures are under no obligation.
Fairness ==
    /\ WF_vars(Requests) /\ WF_vars(Dispatch) /\ WF_vars(Turn) /\ WF_vars(Restart)

Spec == Init /\ [][Next]_vars /\ Fairness

-----------------------------------------------------------------------------
(* Properties                                                              *)

Silent == budget.silences < MaxSilences

\* A message is handed to the model at most once, whatever is repeated, lost or
\* cut off (the ledger's intent, written before the dispatch).
GivenAtMostOnce == \A m \in Message : given[m] <= 1

\* "A Core callback failure must never degrade into a locally successful task":
\* the runtime calls a task succeeded only if Core does.
LocalSuccessIsCores ==
    "succeeded" \in {handle.status, disk.status} => core.status = "succeeded"

\* As long as Core is reached and the disk writes, no row stays "running" over an
\* agent that refuses every message because its task has ended, or over a turn
\* that does not end, whenever the runtime crashed.
NeverWedged ==
    []<>(Silent \/ core.status # "running" \/ (turn = Nobody /\ ~Ended))

-----------------------------------------------------------------------------
(* Why the first two hold: what they need of each other from step to step. *)

HandleStatus == {"none", "idle", "running", "awaiting_user", "succeeded", "failed", "fail_closed"}
Entry == {"none", "in_progress", "completed"}

CoreType == [status : {"none"} \cup Open \cup Final, locked : BOOLEAN]
HandleType == [up : BOOLEAN, there : BOOLEAN, started : BOOLEAN, status : HandleStatus,
               aborted : BOOLEAN]
DiskType == [there : BOOLEAN, started : BOOLEAN, status : HandleStatus]
LedgerType == [mem : [Message -> Entry], disk : [Message -> Entry]]
DeskType == [stage : {"none", "check", "announce", "prompt", "record", "release"}, text : Text]
SessionType == [status : {"none", "idle", "running", "cancelled", "failed"},
                abort : BOOLEAN, steer : BOOLEAN]
TurnType == [stage : {"none", "begun", "model", "replied", "stopped", "broken"}, text : Text]

TypeOK ==
    /\ role \in Roles /\ core \in CoreType
    /\ asked \subseteq Message /\ wire \subseteq Message
    /\ request \in {"none", "register", "start", "starting", "failed", "done"}
    /\ handle \in HandleType /\ disk \in DiskType /\ ledger \in LedgerType
    /\ desk \in DeskType /\ session \in SessionType /\ turn \in TurnType
    /\ abort \in {"none", "call", "commit"}
    /\ given \in [Text -> Nat]
    /\ budget \in [{"retries", "aborts", "crashes", "silences"} -> Nat]

\* Whoever dispatches is a living process, and a message it has not handed over yet
\* has its intent on disk already.
DispatchInv ==
    /\ desk.stage # "none" \/ request = "starting" => handle.up
    /\ \A m \in Message :
         desk.stage # "none" /\ desk.text = m =>
           /\ ledger.mem[m] # "none" /\ ledger.disk[m] # "none"
           /\ desk.stage # "record" => given[m] = 0

\* The ledger remembers what was handed over, also over a crash.
LedgerInv ==
    \A m \in Message :
      given[m] > 0 => ledger.disk[m] # "none" /\ (handle.up => ledger.mem[m] # "none")

\* Only a side task ends by succeeding.
OnlySidesSucceed ==
    "succeeded" \in {handle.status, disk.status} => role = "side"

TaskInv ==
    /\ TypeOK /\ DispatchInv /\ LedgerInv /\ OnlySidesSucceed
    /\ GivenAtMostOnce /\ LocalSuccessIsCores
=============================================================================
