------------------------------ MODULE Curation ------------------------------
(***************************************************************************)
(* Self-evolution, the curation queue: the applications of learned skills, *)
(* the sealing of their observation, the runs that judge them in a manual  *)
(* and a scheduled lane, their leases and reservations (core/src/api/      *)
(* self-evolution-handlers.ts, services/learning-episode-seal.ts) and the  *)
(* service processes that carry runs out (runtime/evolution-service.ts,    *)
(* evolution-scheduler.ts, evolution-workers.ts).                          *)
(*                                                                         *)
(* A run is its index in the order of creation.  A lease token is the      *)
(* number of the claim that minted it: both are new at every claim.        *)
(***************************************************************************)
EXTENDS Naturals, FiniteSets, Sequences

CONSTANTS
    App,
    Process,            \* evolution service processes
    MaxManual,          \* runs people ask for
    MaxToggles,         \* switches of "pause learning"
    MaxFaults           \* failed models, crashes, late workers, lost replies

ASSUME CurationAssumption ==
    /\ IsFiniteSet(App)
    /\ {MaxManual, MaxToggles, MaxFaults} \subseteq Nat

VARIABLES
    app,        \* skill_application.state, or "none"
    sealed,     \* the applications whose observation has its episode
    run,        \* the curator_run rows, oldest first
    cycle,      \* the latest completed run of mode "run", 0 if there is none
    due,        \* seven days have passed since cycle completed
    paused,     \* evolution_settings.learning_paused
    reserved,   \* the run that holds each application's reservation, or 0
    desk,       \* what each process is doing
    budget      \* what is left of each bound

vars == <<app, sealed, run, cycle, due, paused, reserved, desk, budget>>

Run == DOMAIN run
Idle == [stage |-> "idle", run |-> 0, token |-> 0, apps |-> {}, again |-> FALSE]
Active == {"queued", "running"}

Init ==
    /\ app = [a \in App |-> "none"]
    /\ sealed = {}
    /\ run = <<>>
    /\ cycle = 0 /\ due = TRUE
    /\ paused = FALSE
    /\ reserved = [a \in App |-> 0]
    /\ desk = [w \in Process |-> Idle]
    /\ budget = [manual |-> MaxManual, toggles |-> MaxToggles, faults |-> MaxFaults]

Spend(what) ==
    /\ budget[what] > 0
    /\ budget' = [budget EXCEPT ![what] = @ - 1]

Pending == {a \in App : app[a] = "pending"}
Holds(r) == {a \in App : reserved[a] = r}

-----------------------------------------------------------------------------
(* Applications and the seal of their observation                          *)

\* Nothing asks whether the observation still is open.
Apply(a) ==
    /\ app[a] = "none"
    /\ app' = [app EXCEPT ![a] = "open"]
    /\ UNCHANGED <<sealed, run, cycle, due, paused, reserved, desk, budget>>

Close(a) ==
    /\ app[a] = "open"
    /\ app' = [app EXCEPT ![a] = "closed"]
    /\ UNCHANGED <<sealed, run, cycle, due, paused, reserved, desk, budget>>

\* What the application is once its observation is sealed.
Bound(a) == IF app[a] \in {"open", "closed"} THEN "pending" ELSE app[a]

\* The status event that ends the turn or the task seals it, or the runtime's
\* own request; only the first one counts.
Seal(a) ==
    /\ a \notin sealed
    /\ sealed' = sealed \cup {a}
    /\ app' = [app EXCEPT ![a] = Bound(a)]
    /\ UNCHANGED <<run, cycle, due, paused, reserved, desk, budget>>

-----------------------------------------------------------------------------
(* People and the clock                                                    *)

NewRun(lane, mode) ==
    [lane |-> lane, mode |-> mode, bucket |-> cycle, state |-> "queued",
     token |-> 0, leased |-> FALSE]

AskRun(mode) ==
    /\ ~(paused /\ mode = "run")
    /\ Spend("manual")
    /\ run' = Append(run, NewRun("manual", mode))
    /\ UNCHANGED <<app, sealed, cycle, due, paused, reserved, desk>>

Toggle ==
    /\ Spend("toggles")
    /\ paused' = ~paused
    /\ UNCHANGED <<app, sealed, run, cycle, due, reserved, desk>>

SevenDays ==
    /\ ~due
    /\ due' = TRUE
    /\ UNCHANGED <<app, sealed, run, cycle, paused, reserved, desk, budget>>

\* The holder of the lease still works for it.
Worked(r) == \E w \in Process : desk[w].stage \in {"works", "fails"} /\ desk[w].run = r
                                    /\ desk[w].token = run[r].token

\* A lease runs out: at once if its holder is gone, else because it was slow.
Expire(r) ==
    /\ run[r].leased
    /\ IF Worked(r) THEN Spend("faults") ELSE UNCHANGED budget
    /\ run' = [run EXCEPT ![r].leased = FALSE]
    /\ UNCHANGED <<app, sealed, cycle, due, paused, reserved, desk>>

-----------------------------------------------------------------------------
(* ensureScheduledCuratorRun                                               *)

\* The row of the current generation, if there is one.
Current == {r \in Run : run[r].lane = "scheduled" /\ run[r].bucket = cycle}

OthersIdle == \A r \in Run \ Current : run[r].state \notin Active

Become(w, d) == desk' = [desk EXCEPT ![w] = d]

\* The row is there or is made, or the failed one is queued again once its
\* backoff is over; any other answer leaves the process idle.
Ensure(w) ==
    /\ desk[w] = Idle
    /\ ~paused
    /\ due
    /\ \/ /\ \E r \in Current : run[r].state \in Active
          /\ UNCHANGED run
       \/ /\ Current = {}
          /\ OthersIdle /\ Pending # {}
          /\ run' = Append(run, NewRun("scheduled", "run"))
       \/ \E r \in Current :
             /\ run[r].state = "failed"
             /\ OthersIdle /\ Pending # {}
             /\ run' = [run EXCEPT ![r].state = "queued"]
    /\ Become(w, [Idle EXCEPT !.stage = "ready"])
    /\ UNCHANGED <<app, sealed, cycle, due, paused, reserved, budget>>

-----------------------------------------------------------------------------
(* claimCuratorRun                                                         *)

InLane(r, lane) ==
    /\ run[r].lane = lane
    /\ lane = "scheduled" => run[r].bucket = cycle /\ Pending # {}

\* Bug: a run whose worker went away is not taken up again.
ClaimableQueued(r, lane) ==
    InLane(r, lane) /\ run[r].state = "queued" /\ (paused => run[r].mode = "dry_run")

Claimable(r, lane) ==
    /\ InLane(r, lane)
    /\ run[r].state = "queued" \/ (run[r].state = "running" /\ ~run[r].leased)
    /\ paused => run[r].mode = "dry_run"

\* Runs whose reservations a claim clears away.
Stale == {r \in Run : run[r].state \notin Active}

\* Bug: nobody asks whether another run holds the application.
FilledAnyway(r) == [a \in App |-> IF app[a] = "pending" THEN r ELSE reserved[a]]

\* The reservations once run r is claimed.
Filled(r) ==
    [a \in App |-> LET kept == IF reserved[a] \in Stale THEN 0 ELSE reserved[a]
                   IN IF kept = 0 /\ app[a] = "pending" THEN r ELSE kept]

\* The oldest run of the lane, under a new token; or nothing to do.
Claim(w, lane) ==
    /\ desk[w].stage = IF lane = "manual" THEN "idle" ELSE "ready"
    /\ \/ \E r \in Run :
             /\ Claimable(r, lane)
             /\ \A s \in 1 .. r - 1 : ~Claimable(s, lane)
             /\ run' = [run EXCEPT ![r] = [@ EXCEPT !.state = "running", !.leased = TRUE,
                                                    !.token = run[r].token + 1]]
             /\ reserved' = Filled(r)
             /\ Become(w, [Idle EXCEPT !.stage = "works", !.run = r, !.token = run[r].token + 1,
                                       !.apps = {a \in Pending : reserved'[a] = r}])
       \/ /\ lane = "scheduled"
          /\ \A r \in Run : ~Claimable(r, lane)
          /\ Become(w, Idle)
          /\ UNCHANGED <<run, reserved>>
    /\ UNCHANGED <<app, sealed, cycle, due, paused, budget>>

-----------------------------------------------------------------------------
(* completeCuratorRun and failCuratorRun                                   *)

Leased(w) ==
    LET r == desk[w].run
    IN run[r].state = "running" /\ run[r].leased /\ run[r].token = desk[w].token

Done(r) == run[r].state \in {"completed", "dry_run_complete"}

\* Bug: only the claim looks at the switch.
AllowedOnceClaimed(r) == TRUE

Allowed(r) == run[r].mode = "dry_run" \/ ~paused

\* The evaluations cover the reservations and each application still waits.
Covers(w) == desk[w].apps = Holds(desk[w].run) /\ desk[w].apps \subseteq Pending

\* Bug: the reservations go with the next claim's cleaning.
ReleasedLater(r) == reserved

Released(r) == [a \in App |-> IF reserved[a] = r THEN 0 ELSE reserved[a]]

\* A lease goes with the state.
Ended(r, state) == [run EXCEPT ![r] = [@ EXCEPT !.state = state, !.leased = FALSE]]

Accept(r) ==
    /\ reserved' = Released(r)
    /\ IF run[r].mode = "run"
         THEN /\ run' = Ended(r, "completed")
              /\ app' = [a \in App |-> IF reserved[a] = r THEN "evaluated" ELSE app[a]]
              /\ cycle' = r /\ due' = FALSE
         ELSE /\ run' = Ended(r, "dry_run_complete")
              /\ UNCHANGED <<app, cycle, due>>

\* The process hands in its verdicts; a reply may be lost and the same request
\* sent again, a refusal makes it report a failure not worth a retry.
Submit(w) ==
    /\ desk[w].stage = "works"
    /\ LET r == desk[w].run
           refused == Become(w, [desk[w] EXCEPT !.stage = "fails"])
       IN \/ /\ Done(r)
             /\ IF run[r].token = desk[w].token THEN Become(w, Idle) ELSE refused
             /\ UNCHANGED <<app, run, cycle, due, reserved, budget>>
          \/ /\ ~Done(r)
             /\ ~(Leased(w) /\ Allowed(r) /\ Covers(w))
             /\ refused
             /\ UNCHANGED <<app, run, cycle, due, reserved, budget>>
          \/ /\ ~Done(r)
             /\ Leased(w) /\ Allowed(r) /\ Covers(w)
             /\ Accept(r)
             /\ \/ Become(w, Idle) /\ UNCHANGED budget
                \/ Spend("faults") /\ UNCHANGED desk
    /\ UNCHANGED <<sealed, paused>>

ModelFails(w) ==
    /\ desk[w].stage = "works"
    /\ Spend("faults")
    /\ \E again \in BOOLEAN :
           Become(w, [desk[w] EXCEPT !.stage = "fails", !.again = again])
    /\ UNCHANGED <<app, sealed, run, cycle, due, paused, reserved>>

Report(w) ==
    /\ desk[w].stage = "fails"
    /\ LET r == desk[w].run
       IN IF ~Leased(w) THEN UNCHANGED <<run, reserved>>
          ELSE IF desk[w].again THEN run' = Ended(r, "queued") /\ UNCHANGED reserved
          ELSE /\ run' = Ended(r, "failed")
               /\ reserved' = Released(r)
    /\ Become(w, Idle)
    /\ UNCHANGED <<app, sealed, cycle, due, paused, budget>>

\* A process stops or is aborted; it forgets everything but the schedule.
Crash(w) ==
    /\ desk[w] # Idle
    /\ Spend("faults")
    /\ Become(w, Idle)
    /\ UNCHANGED <<app, sealed, run, cycle, due, paused, reserved>>

-----------------------------------------------------------------------------
Next ==
    \/ \E a \in App : Apply(a) \/ Close(a) \/ Seal(a)
    \/ \E mode \in {"run", "dry_run"} : AskRun(mode)
    \/ Toggle
    \/ SevenDays
    \/ \E r \in Run : Expire(r)
    \/ \E w \in Process :
          \/ Ensure(w)
          \/ \E lane \in {"manual", "scheduled"} : Claim(w, lane)
          \/ Submit(w) \/ ModelFails(w) \/ Report(w) \/ Crash(w)

\* Time passes, and a process that is up keeps ticking.
Fairness ==
    /\ WF_vars(SevenDays)
    /\ WF_vars(\E r \in Run : ~Worked(r) /\ Expire(r))
    /\ \A w \in Process :
          /\ WF_vars(Ensure(w))
          /\ \A lane \in {"manual", "scheduled"} : WF_vars(Claim(w, lane))
          /\ WF_vars(Submit(w)) /\ WF_vars(Report(w))

Spec == Init /\ [][Next]_vars /\ Fairness

-----------------------------------------------------------------------------
RunType ==
    [lane : {"manual", "scheduled"}, mode : {"run", "dry_run"}, bucket : Nat,
     state : Active \cup {"completed", "dry_run_complete", "failed"}, token : Nat,
     leased : BOOLEAN]

DeskType ==
    [stage : {"idle", "ready", "works", "fails"}, run : Nat, token : Nat,
     apps : SUBSET App, again : BOOLEAN]

TypeOK ==
    /\ app \in [App -> {"none", "open", "closed", "pending", "evaluated"}]
    /\ run \in Seq(RunType) /\ cycle \in Nat
    /\ reserved \in [App -> Nat]
    /\ desk \in [Process -> DeskType]

\* What a process with a good lease judges is what Core holds reserved for it:
\* whatever others claimed, failed or completed since, its verdicts will not be
\* refused for covering the wrong applications.
HandedOutIsReserved ==
    \A w \in Process : desk[w].stage = "works" /\ Leased(w) => Covers(w)

\* A reservation is for an application that waits and a run that can still
\* judge it: no run that ended keeps an application from the next one.
ReservationsAreLive ==
    \A a \in App : reserved[a] # 0 => app[a] = "pending" /\ run[reserved[a]].state \in Active

\* While learning is paused no application is judged, even by a run that was
\* claimed before the switch.
NothingJudgedWhilePaused ==
    [][paused => \A a \in App : app'[a] = "evaluated" => app[a] = "evaluated"]_vars

\* A scheduled run of an old generation, which no claim will ever take.
Orphan(r) ==
    run[r].lane = "scheduled" /\ run[r].bucket # cycle /\ run[r].state \in Active

\* Unless learning stays paused, every application that waits is judged in the
\* end, or a manual run that completed meanwhile orphaned a scheduled one.
PendingIsJudged ==
    []<>~paused =>
        \A a \in App :
            (app[a] = "pending") ~> (app[a] = "evaluated" \/ \E r \in Run : Orphan(r))

\* The seven-day cycle goes on: once a generation is due and an application
\* waits, it is judged, whatever manual runs completed in between.
CyclesGoOn ==
    []<>~paused => \A a \in App : (app[a] = "pending") ~> (app[a] = "evaluated")

-----------------------------------------------------------------------------
(* Why the first two hold. *)

\* A process works for a run that there is, under a token it was once given.
DeskInv ==
    \A w \in Process : desk[w].stage \in {"works", "fails"} =>
      desk[w].run \in Run /\ desk[w].token <= run[desk[w].run].token

ReservedInv ==
    \A a \in App : reserved[a] # 0 =>
      reserved[a] \in Run /\ app[a] = "pending" /\ run[reserved[a]].state \in Active

CurationInv == TypeOK /\ DeskInv /\ ReservedInv /\ HandedOutIsReserved
=============================================================================
