------------------------------ MODULE GateFlow ------------------------------
(***************************************************************************)
(* The gates G1..G4 a project passes to its delivery releases and, after   *)
(* the first release, the change requests that reopen it: the P4 handlers  *)
(* of Core (core/src/api/p4-handlers.ts), and the two older handlers that  *)
(* reject and withdraw a submission (core/src/api/handlers.ts).            *)
(*                                                                         *)
(* A handler is one step here, because its transaction locks the rows of   *)
(* the submission and of the work version it decides on (at G4 also the    *)
(* project's mutation lock, which every write to the workspace and to the  *)
(* revisions takes) before it reads them.  The exception is the opening of *)
(* a change request: that no work version is active is read from no row.   *)
(*                                                                         *)
(* Rows are numbered in the order of their insertion.  At G4 a work        *)
(* version's submissions and formal inputs are of one snapshot.  What the  *)
(* evaluator computes from documents and evidence is a free choice, except *)
(* for what it requires of the other rows.                                 *)
(***************************************************************************)
EXTENDS Naturals, Sequences

CONSTANTS
    Opener,       \* handlers that open a change request
    MaxWork,      \* bound: work versions
    MaxSubs,      \* bound: gate submissions
    MaxReadiness, \* bound: readiness rows
    MaxFormal,    \* bound: formal inputs
    MaxEdits      \* bound: changes of the workspace and of the results

ASSUME BoundAssumption ==
    {MaxWork, MaxSubs, MaxReadiness, MaxFormal, MaxEdits} \subseteq Nat \ {0}

VARIABLES
    work,     \* project_work_version
    change,   \* change_request.state of each work version
    ready,    \* project_readiness
    formal,   \* formal_input_approval
    subs,     \* gate_submission, with the sealed projection of its evaluation
    active,   \* gate -> submissions whose baseline is active
    releases, \* delivery_release
    proc,     \* process_instance.current_gate
    facts,    \* the workspace's commit, and artifact revisions and formal runs
    opening   \* the handlers that open a change request: the base asked for, or 0

inputs == <<ready, formal>>
vars == <<work, change, inputs, subs, active, releases, proc, facts, opening>>

Latest(S) == {x \in S : \A y \in S : y <= x}

Gate == 0 .. 4
BaselineGate == {1, 3, 4}  \* milestones B0, B1 and B2
OpenSub == {"preparing", "checking", "in_review"}

\* Bug: a new version starts where the process stands.
NewWorkAtProcess(base, gate) ==
    [base |-> base, start |-> gate, gate |-> IF base = 0 THEN gate ELSE proc,
     state |-> "working"]

NewWork(base, gate) ==
    [base |-> base, start |-> gate, gate |-> gate, state |-> "working"]

Init ==
    /\ work = <<NewWork(0, 0)>> /\ change = <<"none">> /\ proc = 0
    /\ ready = <<>> /\ formal = <<>>
    /\ subs = <<>> /\ active = [g \in BaselineGate |-> {}] /\ releases = <<>>
    /\ facts = [tree |-> 0, results |-> 0]
    /\ opening = [o \in Opener |-> 0]

ActiveWork == {w \in DOMAIN work : work[w].state \in {"working", "in_review"}}
Working(w) == work[w].state = "working"
OpenSubs(w) == {s \in DOMAIN subs : subs[s].work = w /\ subs[s].state \in OpenSub}
ReadyOf(w) == {r \in DOMAIN ready : ready[r].work = w}
IsLast(w, r) == r \in ReadyOf(w) /\ \A q \in ReadyOf(w) : q <= r
-----------------------------------------------------------------------------
(* Readiness, formal input and the project's content *)

\* Bug: a readiness is prepared while the version is in review.
PrepareAnyTime(w, ok) ==
    /\ w \in ActiveWork /\ Len(ready) < MaxReadiness
    /\ ready' = Append(ready, [work |-> w, ok |-> ok, tree |-> facts.tree,
                              confirmed |-> FALSE])
    /\ UNCHANGED <<work, change, formal, subs, active, releases, proc, facts, opening>>

\* A new readiness row, ready or blocked, supersedes the work version's last one.
PrepareReadiness(w, ok) ==
    /\ w \in ActiveWork /\ Working(w) /\ Len(ready) < MaxReadiness
    /\ ready' = Append(ready, [work |-> w, ok |-> ok, tree |-> facts.tree,
                              confirmed |-> FALSE])
    /\ UNCHANGED <<work, change, formal, subs, active, releases, proc, facts, opening>>

\* A human confirms the last row; at G0 that opens G1.
ConfirmReadiness(w, r) ==
    /\ w \in ActiveWork /\ IsLast(w, r)
    /\ ready[r].ok /\ ~ready[r].confirmed /\ ready[r].tree = facts.tree
    /\ ready' = [ready EXCEPT ![r].confirmed = TRUE]
    /\ work' = [work EXCEPT ![w].gate = IF @ = 0 THEN 1 ELSE @]
    /\ proc' = IF work[w].gate = 0 THEN 1 ELSE proc
    /\ UNCHANGED <<change, formal, subs, active, releases, facts, opening>>

\* Formal input is bound to the confirmed readiness and to the active B1; the same
\* input is confirmed once.
ConfirmFormalInput(w, r) ==
    /\ w \in ActiveWork /\ Working(w) /\ work[w].gate = 4
    /\ IsLast(w, r) /\ ready[r].confirmed /\ ready[r].tree = facts.tree
    /\ Len(formal) < MaxFormal
    /\ \E b \in active[3] :
         LET f == [work |-> w, ready |-> r, b1 |-> b] IN
         /\ \A i \in DOMAIN formal : formal[i] # f
         /\ formal' = Append(formal, f)
    /\ UNCHANGED <<work, change, ready, subs, active, releases, proc, facts, opening>>

\* A commit to the workspace, or a new revision or formal run: with an active work
\* version, or before anything was released.
Edit(kind) ==
    /\ ActiveWork # {} \/ releases = <<>>
    /\ facts.tree + facts.results < MaxEdits
    /\ facts' = [facts EXCEPT ![kind] = @ + 1]
    /\ UNCHANGED <<work, change, inputs, subs, active, releases, proc, opening>>
-----------------------------------------------------------------------------
(* Submissions *)

\* buildG4Facts: the formal inputs that still hold.
ValidFormal(w) ==
    {f \in DOMAIN formal :
       /\ formal[f].work = w /\ formal[f].b1 \in active[3]
       /\ IsLast(w, formal[f].ready) /\ ready[formal[f].ready].confirmed}

\* sealedDeliveryProjection: what a release made now would deliver.
Candidate(w) ==
    [formal |-> Latest(ValidFormal(w)), facts |-> facts, version |-> Len(releases) + 1]

Prerequisite(g) ==
    CASE g = 1 -> TRUE [] g \in {2, 3} -> active[1] # {} [] g = 4 -> active[3] # {}

AtGate(w, s) == w \in ActiveWork /\ subs[s].work = w /\ subs[s].gate = work[w].gate

\* Bug: only the requirements are looked at again, not the facts.
StillRequired(w, s) ==
    Prerequisite(subs[s].gate) /\ (subs[s].gate = 4 => ValidFormal(w) # {})

\* revalidateEvaluation: the evaluation would come out the same.
Revalidated(w, s) ==
    /\ Prerequisite(subs[s].gate)
    /\ subs[s].gate = 4 => ValidFormal(w) # {} /\ subs[s].sealed = <<Candidate(w)>>

CreateSubmission(w) ==
    /\ w \in ActiveWork /\ Working(w) /\ work[w].gate > 0 /\ OpenSubs(w) = {}
    /\ \E r \in ReadyOf(w) : ready[r].confirmed
    /\ Len(subs) < MaxSubs
    /\ subs' = Append(subs, [work |-> w, gate |-> work[w].gate, state |-> "preparing",
                             sealed |-> <<>>])
    /\ UNCHANGED <<work, change, inputs, active, releases, proc, facts, opening>>

\* The one evaluation of a submission: failed, it rejects it; passed, at G4 it seals
\* the projection.
Evaluate(w, s, passed) ==
    LET g == subs[s].gate IN
    /\ subs[s].state = "preparing" /\ AtGate(w, s) /\ Working(w)
    /\ passed => Prerequisite(g) /\ (g = 4 => ValidFormal(w) # {})
    /\ subs' = [subs EXCEPT ![s].state = IF passed THEN "checking" ELSE "rejected",
                            ![s].sealed = IF passed /\ g = 4 THEN <<Candidate(w)>> ELSE @]
    /\ UNCHANGED <<work, change, inputs, active, releases, proc, facts, opening>>

\* A passed submission goes to review; at G4 its work version goes with it.
Submit(w, s) ==
    /\ subs[s].state = "checking" /\ AtGate(w, s) /\ Working(w)
    /\ subs[s].gate = 4 => Revalidated(w, s)
    /\ subs' = [subs EXCEPT ![s].state = "in_review"]
    /\ work' = [work EXCEPT ![w].state = IF subs[s].gate = 4 THEN "in_review" ELSE @]
    /\ UNCHANGED <<change, inputs, active, releases, proc, facts, opening>>

\* Bug: the active baseline of the kind is not superseded.
AddBaseline(s) ==
    IF subs[s].gate \in BaselineGate
    THEN [active EXCEPT ![subs[s].gate] = @ \union {s}] ELSE active

\* The baseline of the gate, if it has one, supersedes the active one of its kind.
NewBaseline(s) ==
    IF subs[s].gate \in BaselineGate
    THEN [active EXCEPT ![subs[s].gate] = {s}] ELSE active

Approvable(w, s) ==
    /\ subs[s].state = "in_review" /\ AtGate(w, s) /\ Revalidated(w, s)
    /\ subs' = [subs EXCEPT ![s].state = "approved"]
    /\ active' = NewBaseline(s)

\* Approval before G4 opens the next gate.
ApproveGate(w, s) ==
    /\ subs[s].gate < 4 /\ Working(w) /\ Approvable(w, s)
    /\ work' = [work EXCEPT ![w].gate = @ + 1] /\ proc' = work[w].gate + 1
    /\ UNCHANGED <<change, inputs, releases, facts, opening>>

\* Approval of G4 seals the release and closes the work version and its request.
ApproveRelease(w, s) ==
    /\ subs[s].gate = 4 /\ work[w].state = "in_review" /\ Approvable(w, s)
    /\ releases' = Append(releases, [work |-> w, sub |-> s, content |-> Candidate(w)])
    /\ work' = [work EXCEPT ![w].state = "released"] /\ proc' = 4
    /\ change' = [change EXCEPT ![w] = IF @ = "open" THEN "released" ELSE @]
    /\ UNCHANGED <<inputs, facts, opening>>

\* The older handlers write the submission only.
Withdraw(s) ==
    /\ subs[s].state \in {"preparing", "in_review"}
    /\ subs' = [subs EXCEPT ![s].state = "withdrawn"]
    /\ UNCHANGED <<work, change, inputs, active, releases, proc, facts, opening>>

Reject(s) ==
    /\ subs[s].state = "in_review"
    /\ subs' = [subs EXCEPT ![s].state = "rejected"]
    /\ UNCHANGED <<work, change, inputs, active, releases, proc, facts, opening>>
-----------------------------------------------------------------------------
(* Change requests *)

\* createP4ChangeRequest reads that no work version is active ...
OpenCheck(o, base) ==
    /\ opening[o] = 0 /\ ActiveWork = {} /\ base \in DOMAIN releases
    /\ opening' = [opening EXCEPT ![o] = base]
    /\ UNCHANGED <<work, change, inputs, subs, active, releases, proc, facts>>

\* Bug: the base is not compared with the latest release.
InsertOnAnyBase(o, g) ==
    /\ opening[o] # 0 /\ ActiveWork = {} /\ Len(work) < MaxWork
    /\ work' = Append(work, NewWork(opening[o], g)) /\ change' = Append(change, "open")
    /\ proc' = g /\ opening' = [opening EXCEPT ![o] = 0]
    /\ UNCHANGED <<inputs, subs, active, releases, facts>>

\* Bug: nothing but the earlier read keeps two work versions from being active.
InsertUnguarded(o, g) ==
    /\ opening[o] # 0 /\ opening[o] = Len(releases) /\ Len(work) < MaxWork
    /\ work' = Append(work, NewWork(opening[o], g)) /\ change' = Append(change, "open")
    /\ proc' = g /\ opening' = [opening EXCEPT ![o] = 0]
    /\ UNCHANGED <<inputs, subs, active, releases, facts>>

\* ... then locks the latest release, which must be the base, and inserts: a unique
\* index keeps a second active work version out.
OpenInsert(o, g) ==
    /\ opening[o] # 0 /\ opening[o] = Len(releases) /\ ActiveWork = {}
    /\ Len(work) < MaxWork
    /\ work' = Append(work, NewWork(opening[o], g)) /\ change' = Append(change, "open")
    /\ proc' = g /\ opening' = [opening EXCEPT ![o] = 0]
    /\ UNCHANGED <<inputs, subs, active, releases, facts>>

OpenFails(o) ==
    /\ opening[o] # 0 /\ (opening[o] # Len(releases) \/ ActiveWork # {})
    /\ opening' = [opening EXCEPT ![o] = 0]
    /\ UNCHANGED <<work, change, inputs, subs, active, releases, proc, facts>>

\* Bug: the submissions under way stay.
AbandonWorkOnly(w) ==
    /\ change[w] = "open" /\ w \in ActiveWork
    /\ work' = [work EXCEPT ![w].state = "abandoned"]
    /\ change' = [change EXCEPT ![w] = "withdrawn"] /\ proc' = 4
    /\ UNCHANGED <<inputs, subs, active, releases, facts, opening>>

\* The request, its work version and the submissions under way end; what was edited
\* and the baselines it approved stay.
WithdrawChange(w) ==
    /\ change[w] = "open" /\ w \in ActiveWork
    /\ subs' = [s \in DOMAIN subs |->
                  IF s \in OpenSubs(w) THEN [subs[s] EXCEPT !.state = "withdrawn"]
                  ELSE subs[s]]
    /\ work' = [work EXCEPT ![w].state = "abandoned"]
    /\ change' = [change EXCEPT ![w] = "withdrawn"] /\ proc' = 4
    /\ UNCHANGED <<inputs, active, releases, facts, opening>>
-----------------------------------------------------------------------------
WorkStep(w) ==
    \/ \E ok \in BOOLEAN : PrepareReadiness(w, ok)
    \/ \E r \in DOMAIN ready : ConfirmReadiness(w, r) \/ ConfirmFormalInput(w, r)
    \/ CreateSubmission(w) \/ WithdrawChange(w)

SubStep(w, s) ==
    \/ \E passed \in BOOLEAN : Evaluate(w, s, passed)
    \/ Submit(w, s) \/ ApproveGate(w, s) \/ ApproveRelease(w, s)

Next ==
    \/ \E w \in DOMAIN work : WorkStep(w)
    \/ \E s \in DOMAIN subs : SubStep(subs[s].work, s) \/ Withdraw(s) \/ Reject(s)
    \/ \E kind \in {"tree", "results"} : Edit(kind)
    \/ \E o \in Opener, base \in DOMAIN releases : OpenCheck(o, base)
    \/ \E o \in Opener : OpenFails(o) \/ \E g \in 1 .. 4 : OpenInsert(o, g)

Spec == Init /\ [][Next]_vars
-----------------------------------------------------------------------------
Candidates ==
    [formal : SUBSET Nat, facts : [tree : Nat, results : Nat], version : Nat]

WorkType ==
    [base : Nat, start : Gate, gate : Gate,
     state : {"working", "in_review", "released", "abandoned"}]

ReadyType == [work : Nat, ok : BOOLEAN, tree : Nat, confirmed : BOOLEAN]

SubType ==
    [work : Nat, gate : Gate \ {0},
     state : OpenSub \cup {"approved", "rejected", "withdrawn"}, sealed : Seq(Candidates)]

ReleaseType == [work : Nat, sub : Nat, content : Candidates]

\* The types of the rows, and that a row refers to rows that are there.
TypeOK ==
    /\ work \in Seq(WorkType) /\ ready \in Seq(ReadyType) /\ subs \in Seq(SubType)
    /\ formal \in Seq([work : Nat, ready : Nat, b1 : Nat])
    /\ releases \in Seq(ReleaseType)
    /\ change \in Seq({"none", "open", "released", "withdrawn"})
    /\ Len(change) = Len(work)
    /\ \A s \in DOMAIN subs : subs[s].work \in DOMAIN work
    /\ \A r \in DOMAIN releases :
         releases[r].work \in DOMAIN work /\ releases[r].sub \in DOMAIN subs
    /\ active \in [BaselineGate -> SUBSET Nat]
    /\ proc \in Gate /\ facts \in [tree : Nat, results : Nat]
    /\ opening \in [Opener -> Nat]

\* Rows of five tables agree on where the project is: at most one work version is
\* active; its request is open and the process stands at its gate, else at G4; a
\* request ends as its work version does; at most one submission is under way, and it
\* is one of the active work version at its current gate.  Though requests open,
\* submissions pass and requests are withdrawn concurrently.
ProjectIsConsistent ==
    /\ \A v, w \in ActiveWork : v = w
    /\ \A w \in ActiveWork : proc = work[w].gate
    /\ ActiveWork = {} => proc = 4
    /\ \A w \in 2 .. Len(work) :
         change[w] = CASE work[w].state = "released" -> "released"
                       [] work[w].state = "abandoned" -> "withdrawn"
                       [] OTHER -> "open"
    /\ \A s, t \in DOMAIN subs : {subs[s].state, subs[t].state} \subseteq OpenSub => s = t
    /\ \A s \in DOMAIN subs : subs[s].state \in OpenSub => AtGate(subs[s].work, s)

\* A work version stands at a gate only when a submission of its own was approved at
\* every gate from its first one; a release needs G4 too.
GatesInOrder ==
    \A w \in DOMAIN work :
      \A g \in 1 .. 4 :
        work[w].start <= g /\ (g < work[w].gate \/ work[w].state = "released") =>
          \E s \in DOMAIN subs :
            subs[s].work = w /\ subs[s].gate = g /\ subs[s].state = "approved"

\* The active baseline of a kind is that of the last submission approved at its
\* gate, by whichever work version.
BaselineIsLatest ==
    \A g \in BaselineGate :
      active[g] = Latest({s \in DOMAIN subs : subs[s].gate = g /\ subs[s].state = "approved"})

\* What a release delivers is what its evaluation sealed, whatever was edited,
\* confirmed or run between the evaluation, the review and the approval.
ReleaseIsWhatWasEvaluated ==
    \A r \in DOMAIN releases :
      /\ subs[releases[r].sub].sealed = <<releases[r].content>>
      /\ releases[r].content.version = r

\* While a release is reviewed its formal input stays the one it was sealed with: no
\* newer readiness, formal input or B1 appears behind the reviewer's back.
ReviewKeepsFormalInput ==
    \A s \in DOMAIN subs :
      subs[s].gate = 4 /\ subs[s].state = "in_review" =>
        LET valid == ValidFormal(subs[s].work) IN
        valid # {} /\ subs[s].sealed[1].formal = Latest(valid)

\* A change is made of the latest release, and the release it becomes comes right
\* after that one: releases form one line and none is overtaken.
ReleasesFormALine ==
    /\ \A w \in ActiveWork : work[w].base = Len(releases)
    /\ \A r \in DOMAIN releases : work[releases[r].work].base = r - 1

\* The project's history is in order: gates, baselines and releases.
HistoryInOrder == GatesInOrder /\ BaselineIsLatest /\ ReleasesFormALine

\* A submission under way is the last one and takes its work version to review with
\* it; that of a release stays approved.
SubmissionInv ==
    /\ \A s \in DOMAIN subs :
         /\ subs[s].state \in OpenSub => s = Len(subs)
         /\ subs[s].gate = 4 /\ subs[s].state = "in_review" =>
              work[subs[s].work].state = "in_review"
    /\ \A r \in DOMAIN releases : subs[releases[r].sub].state = "approved"

\* The inductive invariant.
GateInv ==
    /\ TypeOK /\ ProjectIsConsistent /\ SubmissionInv
    /\ GatesInOrder /\ BaselineIsLatest /\ ReleasesFormALine
    /\ ReleaseIsWhatWasEvaluated /\ ReviewKeepsFormalInput
=============================================================================
