---------------------------- MODULE SkillLearning ----------------------------
(***************************************************************************)
(* One learned skill: its versions, the distillation runs that create and  *)
(* patch it, the curator's verdicts and remediations, and the people who   *)
(* control it (core/src/api/self-evolution-handlers.ts, domain/            *)
(* self-evolution.ts, runtime/evolution-workers.ts).  Every change is one  *)
(* transaction under the skill's row lock that compares the control        *)
(* revision its author saw; the author read it some time before.           *)
(***************************************************************************)
EXTENDS Naturals, FiniteSets, Sequences, SequencesExt

CONSTANTS
    Episode,            \* sealed episodes, each with one distillation run
    Distiller,          \* worker processes
    Start,              \* the skill rows to start from
    MaxVersions,
    MaxControls,        \* commands people give
    MaxUses,            \* applications of the skill that get judged
    MaxSwitches,         \* switches of "pause learning"
    MaxFailures           \* late workers, crashes, failed models

VARIABLES
    skill,      \* the learned_skill row
    version,    \* its versions in the order of version_no
    dist,       \* the distillation_run rows
    bench,       \* what each distiller is doing
    curator,    \* the curator run in progress
    view,       \* the row as the page of the person at the controls shows it
    halted,
    allowance      \* what is left of each bound

learningVars == <<skill, version, dist, bench, curator, view, halted, allowance>>

Outcomes == {"success", "failure", "inconclusive"}
AtRest == [stage |-> "idle"]
Scan == {"pass", "fail"}
Finished == {"succeeded", "noop", "quarantined"}

\* A row as it is when a first candidate is distilled; active 0 is no version.
NoSkill == [there |-> FALSE, active |-> 0, rev |-> 1,
            pinned |-> FALSE, enabled |-> TRUE, archived |-> FALSE]

Row == [there : BOOLEAN, active : Nat, rev : Nat \ {0},
        pinned : BOOLEAN, enabled : BOOLEAN, archived : BOOLEAN]

Qualities ==
    {"active_unproven", "active_observed", "needs_review", "degraded", "quarantined"}

VersionRow == [parent : Nat, scan : Scan, history : Seq(Outcomes), quality : Qualities]

\* A new version: parent 0 is none; scan is the verdict of the scanner.
Version(parent, scan) ==
    [parent |-> parent, scan |-> scan, history |-> <<>>,
     quality |-> IF scan = "pass" THEN "active_unproven" ELSE "quarantined"]

ASSUME LearningAssumption ==
    /\ {MaxVersions, MaxControls, MaxUses, MaxSwitches, MaxFailures} \subseteq Nat
    /\ \A s \in Start :
         /\ s.row \in Row /\ s.versions \in Seq(VersionRow)
         /\ Len(s.versions) <= MaxVersions /\ s.row.active <= Len(s.versions)
         /\ ~s.row.there => s.row = NoSkill

LearningInit ==
    /\ \E s \in Start : skill = s.row /\ version = s.versions
    /\ dist = [e \in Episode |-> [state |-> "queued", token |-> 0, leased |-> FALSE]]
    /\ bench = [d \in Distiller |-> AtRest]
    /\ curator = AtRest
    /\ view = skill
    /\ halted = FALSE
    /\ allowance = [controls |-> MaxControls, uses |-> MaxUses,
                 toggles |-> MaxSwitches, faults |-> MaxFailures]

Charge(what) ==
    /\ allowance[what] > 0
    /\ allowance' = [allowance EXCEPT ![what] = @ - 1]

Controlled == skill.pinned \/ ~skill.enabled \/ skill.archived

\* requireVersionUsable, and the targets of a rollback.
Sound(vs, v) == v # 0 /\ vs[v].quality # "quarantined"

-----------------------------------------------------------------------------
(* nextQualityState: how a version's quality follows its verdicts          *)

Failures(h) == Cardinality({i \in DOMAIN h : h[i] = "failure"})
LastOf(h, n) == SubSeq(h, IF Len(h) > n THEN Len(h) - n + 1 ELSE 1, Len(h))

\* Three failures in a row are three of the last five.
NextQuality(quality, history) ==
    LET told == SelectSeq(history, LAMBDA o : o # "inconclusive")
    IN IF quality = "quarantined" \/ told = <<>> THEN quality
       ELSE IF Last(told) = "success"
         THEN IF quality = "degraded" THEN "needs_review" ELSE "active_observed"
       ELSE IF Failures(LastOf(told, 5)) >= 3 THEN "quarantined"
       ELSE IF Len(told) >= 2 /\ Failures(LastOf(told, 2)) = 2 THEN "degraded"
       ELSE "needs_review"

Judged(v, outcome) ==
    LET h == Append(version[v].history, outcome)
    IN [version EXCEPT ![v] = [parent |-> @.parent, scan |-> @.scan, history |-> h,
                               quality |-> NextQuality(@.quality, h)]]

-----------------------------------------------------------------------------
(* The queue of distillation runs                                          *)

\* What an author reads, and how many commands people had given by then.
Seen == [row |-> skill, left |-> allowance.controls]

Takes(d, what) == bench' = [bench EXCEPT ![d] = what]

HoldsLease(d) ==
    LET e == bench[d].run
    IN /\ dist[e].state = "running" /\ dist[e].leased
       /\ dist[e].token = bench[d].token

\* Bug: what a crashed worker held is never looked at again.
ReadyWhenQueued(e) == dist[e].state = "queued"

Ready(e) == dist[e].state = "queued" \/ (dist[e].state = "running" /\ ~dist[e].leased)

ClaimEpisode(d, e) ==
    /\ bench[d] = AtRest
    /\ ~halted
    /\ Ready(e)
    /\ dist' = [dist EXCEPT ![e] = [state |-> "running", token |-> @.token + 1, leased |-> TRUE]]
    /\ Takes(d, [stage |-> "works", run |-> e, token |-> dist[e].token + 1, seen |-> Seen])
    /\ UNCHANGED <<skill, version, curator, view, halted, allowance>>

InHand(e) ==
    \E d \in Distiller : bench[d] # AtRest /\ bench[d].run = e /\ bench[d].token = dist[e].token

\* A lease runs out: at once if its holder is gone, else because it was slow.
LeaseEnds(e) ==
    /\ dist[e].leased
    /\ IF InHand(e) THEN Charge("faults") ELSE UNCHANGED allowance
    /\ dist' = [dist EXCEPT ![e] = [@ EXCEPT !.leased = FALSE]]
    /\ UNCHANGED <<skill, version, bench, curator, view, halted>>

GivenUp(e, again) ==
    [dist EXCEPT ![e] = [state |-> IF again THEN "queued" ELSE "failed", leased |-> FALSE,
                         token |-> @.token]]

\* The worker reports a failure; only the lease's holder is heard.
ReportFailure(d) ==
    /\ bench[d].stage = "fails"
    /\ dist' = IF HoldsLease(d) THEN GivenUp(bench[d].run, bench[d].again) ELSE dist
    /\ Takes(d, AtRest)
    /\ UNCHANGED <<skill, version, curator, view, halted, allowance>>

Fail(d, again) ==
    Takes(d, [stage |-> "fails", run |-> bench[d].run, token |-> bench[d].token, again |-> again])

DistillerFails(d) ==
    /\ bench[d].stage = "works"
    /\ Charge("faults")
    /\ \E again \in BOOLEAN : Fail(d, again)
    /\ UNCHANGED <<skill, version, dist, curator, view, halted>>

DistillerCrash(d) ==
    /\ bench[d] # AtRest
    /\ Charge("faults")
    /\ Takes(d, AtRest)
    /\ UNCHANGED <<skill, version, dist, curator, view, halted>>

-----------------------------------------------------------------------------
(* completeDistillationRun: no_op, create or patch                         *)

\* Add a version to base; it becomes the active one if it passes the scan.
Added(base, parent, scan, rev) ==
    /\ Len(base) < MaxVersions
    /\ version' = Append(base, Version(parent, scan))
    /\ skill' = [there |-> TRUE, pinned |-> skill.pinned, enabled |-> skill.enabled,
                 archived |-> skill.archived,
                 active |-> IF scan = "pass" THEN Len(base) + 1 ELSE skill.active,
                 rev |-> IF scan = "pass" THEN rev ELSE skill.rev]

\* The slug is free, or all it has are candidates that failed their scan.
Creatable ==
    /\ skill.active = 0
    /\ skill.there => ~Controlled /\ \A v \in DOMAIN version : ~Sound(version, v)

\* Bug: only the version is compared, which may have been left and returned to.
MatchesActive(seen) == skill.there /\ skill.active = seen.row.active

\* The compare of every patch and remediation.
Matches(seen) ==
    skill.there /\ skill.active = seen.row.active /\ skill.rev = seen.row.rev

\* Bug: whoever saw the pin may write past it.
PatchableAnyway(seen) == skill.active # 0 /\ Matches(seen)

Patchable(seen) == skill.active # 0 /\ Matches(seen) /\ ~Controlled

Finish(d, state) ==
    /\ dist' = [dist EXCEPT ![bench[d].run] = [state |-> state, leased |-> FALSE,
                                               token |-> @.token]]
    /\ Takes(d, AtRest)

Distilled(scan) == IF scan = "pass" THEN "succeeded" ELSE "quarantined"

\* The three answers a model may give, and a refusal, which the worker reports
\* as a failure that is not worth another attempt.
Complete(d) ==
    /\ bench[d].stage = "works"
    /\ \/ /\ ~halted /\ HoldsLease(d)
          /\ Finish(d, "noop")
          /\ UNCHANGED <<skill, version>>
       \/ /\ ~halted /\ HoldsLease(d) /\ Creatable
          /\ \E scan \in Scan : Added(version, 0, scan, 1) /\ Finish(d, Distilled(scan))
       \/ /\ ~halted /\ HoldsLease(d) /\ Patchable(bench[d].seen)
          /\ \E scan \in Scan : /\ Added(version, skill.active, scan, skill.rev + 1)
                                /\ Finish(d, Distilled(scan))
       \/ /\ halted \/ ~HoldsLease(d) \/ ~Creatable \/ ~Patchable(bench[d].seen)
          /\ Fail(d, FALSE)
          /\ UNCHANGED <<skill, version, dist>>
    /\ UNCHANGED <<curator, view, halted, allowance>>

-----------------------------------------------------------------------------
(* The curator: it judges a use and may change the skill in the same       *)
(* transaction.  Its queue and leases are the module Curation's.           *)

CuratorReads ==
    /\ curator = AtRest
    /\ ~halted
    /\ Charge("uses")
    /\ \E v \in DOMAIN version : curator' = [stage |-> "works", used |-> v, seen |-> Seen]
    /\ UNCHANGED <<skill, version, dist, bench, view, halted>>

Move(active, enabled, archived) ==
    skill' = [there |-> skill.there, active |-> active, pinned |-> skill.pinned,
              enabled |-> enabled, archived |-> archived, rev |-> skill.rev + 1]

\* applyCuratorRemediation on the versions as the verdict left them.
Remediate(judged) ==
    \/ \E scan \in Scan : Added(judged, skill.active, scan, skill.rev + 1)
    \/ Move(skill.active, FALSE, FALSE) /\ version' = judged
    \/ Move(skill.active, TRUE, TRUE) /\ version' = judged
    \/ /\ \E v \in DOMAIN judged : Sound(judged, v) /\ Move(v, TRUE, FALSE)
       /\ version' = judged
    \/ /\ Move(skill.active, TRUE, FALSE)
       /\ version' = [judged EXCEPT ![skill.active] = [@ EXCEPT !.quality = "quarantined"]]

\* A remediation that no longer matches is skipped and the verdict stays; a
\* refusal while learning is paused loses both.
CuratorDone ==
    /\ curator # AtRest
    /\ curator' = AtRest
    /\ \/ /\ ~halted
          /\ \E outcome \in Outcomes :
               LET judged == Judged(curator.used, outcome)
               IN \/ version' = judged /\ UNCHANGED skill
                  \/ Patchable(curator.seen) /\ Remediate(judged)
       \/ UNCHANGED <<skill, version>>
    /\ UNCHANGED <<dist, bench, view, halted, allowance>>

-----------------------------------------------------------------------------
(* People                                                                  *)

Look ==
    /\ skill.there /\ view # skill
    /\ view' = skill
    /\ UNCHANGED <<skill, version, dist, bench, curator, halted, allowance>>

Commanded(to) == [to EXCEPT !.rev = @ + 1]

\* What a command makes of the row; each button is there whatever the row says.
Commands ==
    {[skill EXCEPT !.pinned = b] : b \in BOOLEAN}
    \cup {[skill EXCEPT !.enabled = b] : b \in BOOLEAN}
    \cup {[skill EXCEPT !.archived = b] : b \in BOOLEAN}
    \cup {[skill EXCEPT !.active = v] : v \in
            {w \in DOMAIN version : /\ Sound(version, w) /\ ~skill.archived
                                    /\ skill.active = view.active /\ view.active # 0}}

Control ==
    /\ skill.there /\ view.there
    /\ view.rev = skill.rev
    /\ Charge("controls")
    /\ \E to \in Commands : skill' = Commanded(to)
    /\ UNCHANGED <<version, dist, bench, curator, view, halted>>

\* A person's own version; the row is locked and compared as for a worker's patch.
Regeneralize ==
    /\ ~halted
    /\ view.there /\ Patchable([row |-> view])
    /\ \E scan \in Scan :
         /\ Added(version, skill.active, scan, skill.rev + 1)
         /\ IF scan = "pass" THEN Charge("controls") ELSE UNCHANGED allowance
    /\ UNCHANGED <<dist, bench, curator, view, halted>>

SwitchLearning ==
    /\ Charge("toggles")
    /\ halted' = ~halted
    /\ UNCHANGED <<skill, version, dist, bench, curator, view>>

LearningNext ==
    \/ \E d \in Distiller :
          \/ \E e \in Episode : ClaimEpisode(d, e)
          \/ Complete(d)
          \/ DistillerFails(d)
          \/ ReportFailure(d)
          \/ DistillerCrash(d)
    \/ \E e \in Episode : LeaseEnds(e)
    \/ CuratorReads \/ CuratorDone
    \/ Look \/ Control \/ Regeneralize \/ SwitchLearning

LearningSpec == LearningInit /\ [][LearningNext]_learningVars

\* A distiller asks for work on every tick and its calls return; leases end
\* when nobody renews them.  Nobody has to do anything else.
LearningFairness ==
    /\ \A d \in Distiller : /\ WF_learningVars(\E e \in Episode : ClaimEpisode(d, e))
                            /\ WF_learningVars(Complete(d))
                            /\ WF_learningVars(ReportFailure(d))
    /\ \A e \in Episode : WF_learningVars(~InHand(e) /\ LeaseEnds(e))

LearningFairSpec == LearningSpec /\ LearningFairness

-----------------------------------------------------------------------------
(* Properties                                                              *)

\* What people pinned, disabled or archived is changed by people alone, however
\* long before their command the model or the curator had started.
ControlledIsLeftAlone ==
    [][Controlled /\ allowance'.controls = allowance.controls => skill' = skill]_learningVars

\* A patch or a remediation lands only if no person gave a command between the
\* reading it rests on and its own commit, even one that was taken back since.
NothingCameBetween ==
    [][/\ skill'.rev > skill.rev
       /\ allowance'.controls = allowance.controls
       => \E a \in {curator} \cup {bench[d] : d \in Distiller} :
            a.stage = "works" /\ a.seen.left = allowance.controls]_learningVars

\* If learning is not paused for ever every distillation run ends, whatever
\* worker crashed with it or was too slow for its lease.
DistillationEnds ==
    []<>(~halted) => \A e \in Episode : <>(dist[e].state \in Finished \cup {"failed"})

=============================================================================
