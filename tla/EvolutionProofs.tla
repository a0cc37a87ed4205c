--------------------------- MODULE EvolutionProofs --------------------------
(***************************************************************************)
(* What holds of self-evolution for any number of applications, episodes,  *)
(* processes, commands, crashes and late workers: a reservation is of a    *)
(* run that can still judge, a process with a good lease judges what is    *)
(* reserved for it, nothing is judged while learning is paused; a skill    *)
(* that people control is changed by people alone, and whoever changes one *)
(* has seen their last command.                                            *)
(***************************************************************************)
EXTENDS Curation, SkillLearning, SequenceTheorems, TLAPS

LEMMA RunsAreNumbers == TypeOK => Run \subseteq Nat \ {0} /\ \A r \in Run : run[r] \in RunType
  <1> SUFFICES ASSUME TypeOK PROVE Run \subseteq Nat \ {0} /\ \A r \in Run : run[r] \in RunType
    OBVIOUS
  <1>1. run \in [1 .. Len(run) -> RunType] /\ Run = 1 .. Len(run) /\ Len(run) \in Nat
    BY LenProperties DEF TypeOK, Run
  <1> QED BY <1>1

LEMMA RunWritten ==
    ASSUME TypeOK, NEW r \in Run, NEW v \in RunType, run' = [run EXCEPT ![r] = v]
    PROVE  /\ run' \in Seq(RunType) /\ Run' = Run
           /\ \A s \in Run : run'[s] = IF s = r THEN v ELSE run[s]
  <1>1. run \in Seq(RunType) /\ Run = 1 .. Len(run)
    BY LenProperties DEF TypeOK, Run
  <1>2. run' \in Seq(RunType) /\ Len(run') = Len(run)
    BY <1>1, ExceptSeq
  <1>3. Run' = 1 .. Len(run')
    BY <1>2, LenProperties DEF Run
  <1>4. \A s \in Run : run'[s] = IF s = r THEN v ELSE run[s]
    BY <1>1, ExceptSeq
  <1> QED BY <1>1, <1>2, <1>3, <1>4

LEMMA RunAdded ==
    ASSUME TypeOK, NEW v \in RunType, run' = Append(run, v)
    PROVE  /\ run' \in Seq(RunType) /\ Run \subseteq Run'
           /\ \A s \in Run : run'[s] = run[s]
  <1>1. run \in Seq(RunType) /\ Run = 1 .. Len(run) /\ Len(run) \in Nat
    BY LenProperties DEF TypeOK, Run
  <1>2. run' \in Seq(RunType) /\ Len(run') = Len(run) + 1
    BY <1>1, AppendProperties
  <1>3. Run' = 1 .. Len(run')
    BY <1>2, LenProperties DEF Run
  <1>4. \A s \in Run : run'[s] = run[s]
    BY <1>1, AppendProperties
  <1> QED BY <1>1, <1>2, <1>3, <1>4

LEMMA NewRunTyped ==
    ASSUME TypeOK, NEW lane \in {"manual", "scheduled"}, NEW mode \in {"run", "dry_run"}
    PROVE  NewRun(lane, mode) \in RunType
  BY DEF TypeOK, NewRun, RunType, Active

-----------------------------------------------------------------------------
(* Most steps, if they do anything to leases and reservations, end them: of *)
(* run r, or of none.                                                      *)

Eases(r) ==
    /\ TypeOK' /\ Run \subseteq Run'
    /\ \A s \in Run : /\ run'[s].token = run[s].token
                      /\ run'[s].leased /\ run'[s].state = "running" =>
                           s # r /\ run[s].leased /\ run[s].state = "running"
                      /\ s # r /\ run[s].state \in Active => run'[s].state \in Active
    /\ \A a \in App :
         /\ reserved'[a] = IF reserved[a] = r THEN 0 ELSE reserved[a]
         /\ app[a] = "pending" /\ reserved[a] # r => app'[a] = "pending"
    /\ \A w \in Process :
         \/ desk'[w].stage \in {"idle", "ready"}
         \/ desk'[w] = desk[w]
         \/ /\ desk[w].stage = "works" /\ desk'[w].stage = "fails"
            /\ desk'[w].run = desk[w].run /\ desk'[w].token = desk[w].token

LEMMA EasesKeeps ==
    ASSUME CurationInv, NEW r \in Nat, Eases(r)
    PROVE  CurationInv'
  <1> USE DEF CurationInv
  <1>1. DeskInv'
    BY DEF DeskInv, Eases
  <1>2. ReservedInv'
    BY DEF ReservedInv, Eases
  <1>3. HandedOutIsReserved'
    <2> SUFFICES ASSUME NEW w \in Process, desk'[w].stage = "works", Leased(w)'
                 PROVE  Covers(w)'
      BY DEF HandedOutIsReserved
    <2>1. desk'[w] = desk[w]
      BY DEF Eases
    <2> DEFINE s == desk[w].run
    <2>2. s \in Run
      BY <2>1 DEF DeskInv
    <2>3. s # r /\ Leased(w)
      BY <2>1, <2>2 DEF Leased, Eases
    <2>4. Covers(w)
      BY <2>1, <2>3 DEF HandedOutIsReserved
    <2>5. s # 0
      BY <2>2, RunsAreNumbers
    <2>6. \A a \in App : reserved'[a] = s <=> reserved[a] = s
      BY <2>3, <2>5 DEF Eases
    <2>7. Holds(s)' = Holds(s)
      BY <2>1, <2>6 DEF Holds
    <2>8. \A a \in Holds(s) : a \in Pending'
      BY <2>3, <2>4 DEF Covers, Holds, Pending, Eases
    <2> QED BY <2>1, <2>4, <2>7, <2>8 DEF Covers, Holds
  <1> QED BY <1>1, <1>2, <1>3 DEF Eases

LEMMA NothingReservedForNone ==
    ASSUME TypeOK, UNCHANGED reserved
    PROVE  \A a \in App : reserved'[a] = IF reserved[a] = 0 THEN 0 ELSE reserved[a]
  OBVIOUS

-----------------------------------------------------------------------------
(* The steps. *)

LEMMA ObservedKept ==
    ASSUME CurationInv, NEW x \in App, Apply(x) \/ Close(x) \/ Seal(x)
    PROVE  CurationInv'
  <1>1. app' \in [App -> {"none", "open", "closed", "pending", "evaluated"}]
    BY DEF CurationInv, TypeOK, Apply, Close, Seal, Bound
  <1>2. \A a \in App : app[a] = "pending" => app'[a] = "pending"
    BY DEF CurationInv, TypeOK, Apply, Close, Seal, Bound
  <1>3. UNCHANGED <<run, cycle, reserved, desk>>
    BY DEF Apply, Close, Seal
  <1>4. Eases(0)
    BY <1>1, <1>2, <1>3, RunsAreNumbers DEF CurationInv, TypeOK, Eases, Run
  <1> QED BY <1>4, EasesKeeps

LEMMA AskedKept ==
    ASSUME CurationInv, NEW mode \in {"run", "dry_run"}, AskRun(mode)
    PROVE  CurationInv'
  <1>1. NewRun("manual", mode) \in RunType
    BY NewRunTyped DEF CurationInv
  <1>2. run' = Append(run, NewRun("manual", mode)) /\ UNCHANGED <<app, cycle, reserved, desk>>
    BY DEF AskRun
  <1>3. /\ run' \in Seq(RunType) /\ Run \subseteq Run'
        /\ \A s \in Run : run'[s] = run[s]
    BY <1>1, <1>2, RunAdded DEF CurationInv
  <1>4. Eases(0)
    BY <1>2, <1>3, RunsAreNumbers DEF CurationInv, TypeOK, Eases
  <1> QED BY <1>4, EasesKeeps

\* A run that is written in its state and its lease only.
LEMMA EndedWrites ==
    ASSUME TypeOK, NEW r \in Run, NEW state \in {"queued", "completed", "dry_run_complete", "failed"},
           run' = Ended(r, state)
    PROVE  /\ run' \in Seq(RunType) /\ Run' = Run
           /\ run'[r].token = run[r].token /\ ~run'[r].leased /\ run'[r].state = state
           /\ \A s \in Run : s # r => run'[s] = run[s]
  <1> DEFINE v == [run[r] EXCEPT !.state = state, !.leased = FALSE]
  <1>1. v \in RunType /\ v.token = run[r].token /\ ~v.leased /\ v.state = state
    BY RunsAreNumbers DEF RunType, Active
  <1>2. run' = [run EXCEPT ![r] = v]
    BY DEF Ended
  <1> HIDE DEF v
  <1> QED BY <1>1, <1>2, RunWritten

LEMMA ClockKept ==
    ASSUME CurationInv, NEW r \in Run, Expire(r)
    PROVE  CurationInv'
  <1> DEFINE v == [run[r] EXCEPT !.leased = FALSE]
  <1>1. v \in RunType /\ v.token = run[r].token /\ ~v.leased /\ v.state = run[r].state
    BY RunsAreNumbers DEF CurationInv, RunType
  <1>2. run' = [run EXCEPT ![r] = v] /\ UNCHANGED <<app, cycle, reserved, desk>>
    BY DEF Expire
  <1> HIDE DEF v
  <1>3. /\ run' \in Seq(RunType) /\ Run' = Run
        /\ \A s \in Run : run'[s] = IF s = r THEN v ELSE run[s]
    BY <1>1, <1>2, RunWritten DEF CurationInv
  <1>4. Eases(0)
    BY <1>1, <1>2, <1>3, RunsAreNumbers DEF CurationInv, TypeOK, Eases
  <1> QED BY <1>4, EasesKeeps

LEMMA DeskWritten ==
    ASSUME TypeOK, NEW w \in Process, NEW d \in DeskType, Become(w, d)
    PROVE  /\ desk' \in [Process -> DeskType]
           /\ \A v \in Process : desk'[v] = IF v = w THEN d ELSE desk[v]
  BY DEF TypeOK, Become

LEMMA IdleTyped == Idle \in DeskType /\ [Idle EXCEPT !.stage = "ready"] \in DeskType
  BY DEF Idle, DeskType

LEMMA EnsureKept ==
    ASSUME CurationInv, NEW w \in Process, Ensure(w)
    PROVE  CurationInv'
  <1> USE DEF CurationInv
  <1>1. /\ desk' \in [Process -> DeskType]
        /\ \A v \in Process : desk'[v] = desk[v] \/ desk'[v].stage = "ready"
    <2>1. [Idle EXCEPT !.stage = "ready"].stage = "ready"
      BY DEF Idle
    <2>2. Become(w, [Idle EXCEPT !.stage = "ready"])
      BY DEF Ensure
    <2> QED BY <2>1, <2>2, IdleTyped, DeskWritten
  <1>2. UNCHANGED <<app, cycle, reserved>>
    BY DEF Ensure
  <1>3. CASE UNCHANGED run
    <2>1. Eases(0)
      BY <1>1, <1>2, <1>3, RunsAreNumbers DEF TypeOK, Eases, Run
    <2> QED BY <2>1, EasesKeeps
  <1>4. CASE run' = Append(run, NewRun("scheduled", "run"))
    <2>1. /\ run' \in Seq(RunType) /\ Run \subseteq Run'
          /\ \A s \in Run : run'[s] = run[s]
      BY <1>4, NewRunTyped, RunAdded
    <2>2. Eases(0)
      BY <1>1, <1>2, <2>1, RunsAreNumbers DEF TypeOK, Eases
    <2> QED BY <2>2, EasesKeeps
  <1>5. ASSUME NEW r \in Current, run[r].state = "failed",
               run' = [run EXCEPT ![r].state = "queued"]
        PROVE  CurationInv'
    <2> DEFINE v == [run[r] EXCEPT !.state = "queued"]
    <2>0. r \in Run
      BY DEF Current
    <2>1. v \in RunType /\ v.token = run[r].token /\ v.state = "queued"
      BY <2>0, RunsAreNumbers DEF RunType, Active
    <2>2. run' = [run EXCEPT ![r] = v]
      BY <1>5
    <2> HIDE DEF v
    <2>3. /\ run' \in Seq(RunType) /\ Run' = Run
          /\ \A s \in Run : run'[s] = IF s = r THEN v ELSE run[s]
      BY <2>0, <2>1, <2>2, RunWritten
    <2>4. Eases(0)
      BY <1>1, <1>2, <2>1, <2>3, RunsAreNumbers DEF TypeOK, Eases, Active
    <2> QED BY <2>4, EasesKeeps
  <1> QED BY <1>3, <1>4, <1>5 DEF Ensure

\* The one step that hands leases and reservations out.
LEMMA ClaimKept ==
    ASSUME CurationInv, NEW w \in Process, NEW lane \in {"manual", "scheduled"}, Claim(w, lane)
    PROVE  CurationInv'
  <1> USE DEF CurationInv
  <1>0. UNCHANGED <<app, cycle>>
    BY DEF Claim
  <1>1. CASE Become(w, Idle) /\ UNCHANGED <<run, reserved>>
    <2>1. /\ desk' \in [Process -> DeskType]
          /\ \A v \in Process : desk'[v] = desk[v] \/ desk'[v].stage = "idle"
      BY <1>1, IdleTyped, DeskWritten DEF Idle
    <2>2. Eases(0)
      BY <1>0, <1>1, <2>1, RunsAreNumbers DEF TypeOK, Eases, Run
    <2> QED BY <2>2, EasesKeeps
  <1>2. ASSUME NEW r \in Run, Claimable(r, lane),
               run' = [run EXCEPT ![r] = [@ EXCEPT !.state = "running", !.leased = TRUE,
                                                   !.token = run[r].token + 1]],
               reserved' = Filled(r),
               Become(w, [Idle EXCEPT !.stage = "works", !.run = r, !.token = run[r].token + 1,
                                      !.apps = {a \in Pending : reserved'[a] = r}])
        PROVE  CurationInv'
    <2> DEFINE t == run[r].token + 1
               v == [run[r] EXCEPT !.state = "running", !.leased = TRUE, !.token = t]
               mine == {a \in Pending : reserved'[a] = r}
               d == [Idle EXCEPT !.stage = "works", !.run = r, !.token = t, !.apps = mine]
    <2>2. run' = [run EXCEPT ![r] = v]
      BY <1>2
    <2>4. Become(w, d)
      BY <1>2
    <2>0. /\ run[r] \in RunType /\ run[r].token \in Nat /\ r \in Nat /\ r # 0
          /\ t \in Nat /\ run[r].token < t /\ mine \subseteq App
      BY RunsAreNumbers DEF RunType, Pending
    <2> HIDE DEF t, mine
    <2>1. v \in RunType /\ v.token = t /\ v.state = "running"
      BY <2>0 DEF RunType, Active
    <2>3. d \in DeskType /\ d.stage = "works" /\ d.run = r /\ d.token = t /\ d.apps = mine
      BY <2>0 DEF Idle, DeskType
    <2> HIDE DEF v, d
    <2>5. /\ run' \in Seq(RunType) /\ Run' = Run
          /\ \A s \in Run : run'[s] = IF s = r THEN v ELSE run[s]
      BY <2>1, <2>2, RunWritten
    <2>6. /\ desk' \in [Process -> DeskType]
          /\ \A p \in Process : desk'[p] = IF p = w THEN d ELSE desk[p]
      BY <2>3, <2>4, DeskWritten
    \* No reservation is stale, so a claim only adds to them.
    <2>7. \A a \in App : reserved[a] # 0 => reserved[a] \notin Stale
      BY DEF ReservedInv, Stale
    <2>8. \A a \in App :
            reserved'[a] = IF reserved[a] = 0 /\ app[a] = "pending" THEN r ELSE reserved[a]
      <3>1. 0 \notin Stale
        BY RunsAreNumbers DEF Stale
      <3> QED BY <1>2, <2>7, <3>1 DEF Filled
    <2>9. TypeOK'
      <3>1. reserved' \in [App -> Nat]
        BY <1>2, <2>0 DEF Filled, TypeOK
      <3> QED BY <1>0, <2>5, <2>6, <3>1 DEF TypeOK
    <2>10. DeskInv'
      <3> SUFFICES ASSUME NEW p \in Process, desk'[p].stage \in {"works", "fails"}
                   PROVE  desk'[p].run \in Run /\ desk'[p].token <= run'[desk'[p].run].token
        BY <2>5 DEF DeskInv
      <3>1. CASE p = w
        BY <2>0, <2>1, <2>3, <2>5, <2>6, <3>1 DEF RunType
      <3>2. CASE p # w
        <4>1. /\ desk'[p] = desk[p] /\ desk[p].run \in Run
              /\ desk[p].token <= run[desk[p].run].token
          BY <2>6, <3>2 DEF DeskInv
        <4>2. run[desk[p].run] \in RunType /\ desk[p] \in DeskType
          BY <4>1, RunsAreNumbers DEF TypeOK
        <4>3. run[desk[p].run].token <= run'[desk[p].run].token
          <5>1. CASE desk[p].run = r
            BY <2>0, <2>1, <2>5, <4>1, <5>1
          <5>2. CASE desk[p].run # r
            BY <2>5, <4>1, <4>2, <5>2 DEF RunType
          <5> QED BY <5>1, <5>2
        <4>4. /\ desk[p].token \in Nat /\ run[desk[p].run].token \in Nat
              /\ run'[desk[p].run].token \in Nat
          BY <2>1, <2>5, <4>1, <4>2 DEF RunType, DeskType
        <4> QED BY <4>1, <4>3, <4>4
      <3> QED BY <3>1, <3>2
    <2>11. ReservedInv'
      BY <1>0, <2>1, <2>5, <2>8 DEF ReservedInv, Active
    <2>12. HandedOutIsReserved'
      <3> SUFFICES ASSUME NEW p \in Process, desk'[p].stage = "works", Leased(p)'
                   PROVE  Covers(p)'
        BY DEF HandedOutIsReserved
      <3>1. CASE p = w
        <4>1. desk'[p].run = r /\ desk'[p].apps = mine
          BY <2>3, <2>6, <3>1
        <4>2. \A a \in App : reserved'[a] = r => app'[a] = "pending"
          BY <2>0, <2>11 DEF ReservedInv
        <4>3. mine = {a \in App : reserved'[a] = r}
          BY <1>0, <4>2 DEF Pending, mine
        <4>4. desk'[p].apps = {a \in App : reserved'[a] = desk'[p].run}
          BY <4>1, <4>3
        <4>5. desk'[p].apps \subseteq {a \in App : app'[a] = "pending"}
          BY <4>1, <4>2, <4>3
        <4> QED BY <4>4, <4>5 DEF Covers, Holds, Pending
      <3>2. CASE p # w
        <4>1. desk'[p] = desk[p]
          BY <2>6, <3>2
        <4> DEFINE s == desk[p].run
        <4>2. s \in Run /\ desk[p].token <= run[s].token /\ s # 0
          BY <4>1, RunsAreNumbers DEF DeskInv
        <4>3. s # r
          <5>1. run'[s].token = desk[p].token
            BY <4>1 DEF Leased
          <5>2. desk[p].token \in Nat /\ run[s].token \in Nat
            BY <4>2, RunsAreNumbers DEF TypeOK, DeskType, RunType
          <5> QED BY <2>0, <2>1, <2>5, <4>2, <5>1, <5>2
        <4>4. Leased(p)
          BY <2>5, <4>1, <4>2, <4>3 DEF Leased
        <4>5. Covers(p)
          BY <4>1, <4>4 DEF HandedOutIsReserved
        <4>6. \A a \in App : reserved'[a] = s <=> reserved[a] = s
          BY <2>8, <4>2, <4>3
        <4> QED BY <1>0, <4>1, <4>5, <4>6 DEF Covers, Holds, Pending
      <3> QED BY <3>1, <3>2
    <2> QED BY <2>9, <2>10, <2>11, <2>12
  <1> QED BY <1>1, <1>2 DEF Claim

LEMMA StopsKept ==
    ASSUME CurationInv, NEW w \in Process, ModelFails(w) \/ Crash(w)
    PROVE  CurationInv'
  <1> USE DEF CurationInv
  <1>1. UNCHANGED <<app, run, cycle, reserved>>
    BY DEF ModelFails, Crash
  <1>2. CASE Crash(w)
    <2>1. /\ desk' \in [Process -> DeskType]
          /\ \A v \in Process : desk'[v] = desk[v] \/ desk'[v].stage = "idle"
      BY <1>2, IdleTyped, DeskWritten DEF Crash, Idle
    <2>2. Eases(0)
      BY <1>1, <2>1, RunsAreNumbers DEF TypeOK, Eases, Run
    <2> QED BY <2>2, EasesKeeps
  <1>3. CASE ModelFails(w)
    <2>1. PICK again \in BOOLEAN : Become(w, [desk[w] EXCEPT !.stage = "fails", !.again = again])
      BY <1>3 DEF ModelFails
    <2>2. desk[w].stage = "works"
      BY <1>3 DEF ModelFails
    <2>3. /\ desk' \in [Process -> DeskType]
          /\ \A v \in Process :
               \/ desk'[v] = desk[v]
               \/ /\ desk[v].stage = "works" /\ desk'[v].stage = "fails"
                  /\ desk'[v].run = desk[v].run /\ desk'[v].token = desk[v].token
      <3> DEFINE d == [desk[w] EXCEPT !.stage = "fails", !.again = again]
      <3>1. d \in DeskType /\ d.stage = "fails" /\ d.run = desk[w].run /\ d.token = desk[w].token
        BY DEF TypeOK, DeskType
      <3>2. Become(w, d)
        BY <2>1
      <3> HIDE DEF d
      <3> QED BY <2>2, <3>1, <3>2, DeskWritten
    <2>4. Eases(0)
      BY <1>1, <2>3, RunsAreNumbers DEF TypeOK, Eases, Run
    <2> QED BY <2>4, EasesKeeps
  <1> QED BY <1>2, <1>3

\* A run that ends, for good or to be taken up again, and what it lets go of.
LEMMA EndKept ==
    ASSUME CurationInv, NEW r \in Run, run[r].state = "running",
           NEW state \in {"queued", "completed", "dry_run_complete", "failed"},
           run' = Ended(r, state), cycle' \in Nat,
           desk' \in [Process -> DeskType],
           \A v \in Process : desk'[v] = desk[v] \/ desk'[v].stage = "idle",
           app' \in [App -> {"none", "open", "closed", "pending", "evaluated"}],
           \/ state = "queued" /\ reserved' = reserved /\ app' = app
           \/ /\ reserved' = Released(r)
              /\ \A a \in App : app'[a] = app[a] \/ reserved[a] = r
    PROVE  CurationInv'
  <1> USE DEF CurationInv
  <1>1. /\ run' \in Seq(RunType) /\ Run' = Run
        /\ run'[r].token = run[r].token /\ ~run'[r].leased /\ run'[r].state = state
        /\ \A s \in Run : s # r => run'[s] = run[s]
    BY EndedWrites
  <1>2. r \in Nat /\ r # 0
    BY RunsAreNumbers
  <1>3. CASE state = "queued" /\ reserved' = reserved /\ app' = app
    <2>1. Eases(0)
      BY <1>1, <1>2, <1>3, RunsAreNumbers DEF TypeOK, Eases, Active
    <2> QED BY <2>1, EasesKeeps
  <1>4. CASE /\ reserved' = Released(r)
             /\ \A a \in App : app'[a] = app[a] \/ reserved[a] = r
    <2>1. reserved' \in [App -> Nat]
      BY <1>4 DEF Released, TypeOK
    <2>2. \A a \in App : reserved'[a] = IF reserved[a] = r THEN 0 ELSE reserved[a]
      BY <1>4 DEF Released
    <2>3. Eases(r)
      BY <1>1, <1>2, <1>4, <2>1, <2>2, RunsAreNumbers DEF TypeOK, Eases
    <2> QED BY <1>2, <2>3, EasesKeeps
  <1> QED BY <1>3, <1>4

LEMMA SubmitKept ==
    ASSUME CurationInv, NEW w \in Process, Submit(w)
    PROVE  CurationInv'
  <1> USE DEF CurationInv
  <1> DEFINE r == desk[w].run
             refused == Become(w, [desk[w] EXCEPT !.stage = "fails"])
  <1>0. desk[w].stage = "works" /\ r \in Run
    BY DEF Submit, DeskInv
  <1>1. CASE UNCHANGED <<app, run, cycle, reserved>> /\ (Become(w, Idle) \/ refused)
    <2> DEFINE d == [desk[w] EXCEPT !.stage = "fails"]
    <2>1. d \in DeskType /\ d.stage = "fails" /\ d.run = desk[w].run /\ d.token = desk[w].token
      BY <1>0 DEF TypeOK, DeskType
    <2>2. /\ desk' \in [Process -> DeskType]
          /\ \A v \in Process :
               \/ desk'[v].stage = "idle" \/ desk'[v] = desk[v]
               \/ /\ desk[v].stage = "works" /\ desk'[v].stage = "fails"
                  /\ desk'[v].run = desk[v].run /\ desk'[v].token = desk[v].token
      <3>1. CASE Become(w, Idle)
        BY <3>1, IdleTyped, DeskWritten DEF Idle
      <3>2. CASE Become(w, d)
        <4> HIDE DEF d
        <4> QED BY <1>0, <2>1, <3>2, DeskWritten
      <3> QED BY <1>1, <3>1, <3>2
    <2>3. Eases(0)
      BY <1>1, <2>2, RunsAreNumbers DEF TypeOK, Eases, Run
    <2> QED BY <2>3, EasesKeeps
  <1>2. CASE Leased(w) /\ Accept(r) /\ (Become(w, Idle) \/ UNCHANGED desk)
    <2>1. run[r].state = "running"
      BY <1>2 DEF Leased
    <2>2. /\ desk' \in [Process -> DeskType]
          /\ \A v \in Process : desk'[v] = desk[v] \/ desk'[v].stage = "idle"
      <3>1. CASE Become(w, Idle)
        BY <3>1, IdleTyped, DeskWritten DEF Idle
      <3>2. CASE UNCHANGED desk
        BY <3>2 DEF TypeOK
      <3> QED BY <1>2, <3>1, <3>2
    <2>3. /\ reserved' = Released(r) /\ cycle' \in Nat
          /\ app' \in [App -> {"none", "open", "closed", "pending", "evaluated"}]
          /\ \A a \in App : app'[a] = app[a] \/ reserved[a] = r
      BY <1>0, <1>2, RunsAreNumbers DEF Accept, TypeOK
    <2>4. \E state \in {"completed", "dry_run_complete"} : run' = Ended(r, state)
      BY <1>2 DEF Accept
    <2> QED BY <1>0, <2>1, <2>2, <2>3, <2>4, EndKept
  <1> QED BY <1>1, <1>2 DEF Submit

LEMMA ReportKept ==
    ASSUME CurationInv, NEW w \in Process, Report(w)
    PROVE  CurationInv'
  <1> USE DEF CurationInv
  <1> DEFINE r == desk[w].run
  <1>0. /\ r \in Run /\ UNCHANGED <<app, cycle>>
        /\ desk' \in [Process -> DeskType]
        /\ \A v \in Process : desk'[v] = desk[v] \/ desk'[v].stage = "idle"
    <2>1. desk[w].stage = "fails" /\ Become(w, Idle) /\ UNCHANGED <<app, cycle>>
      BY DEF Report
    <2>2. r \in Run
      BY <2>1 DEF DeskInv
    <2> QED BY <2>1, <2>2, IdleTyped, DeskWritten DEF Idle
  <1>1. CASE UNCHANGED <<run, reserved>>
    <2>1. Eases(0)
      BY <1>0, <1>1, RunsAreNumbers DEF TypeOK, Eases, Run
    <2> QED BY <2>1, EasesKeeps
  <1>2. CASE /\ Leased(w)
             /\ \/ run' = Ended(r, "queued") /\ UNCHANGED reserved
                \/ run' = Ended(r, "failed") /\ reserved' = Released(r)
    <2>1. run[r].state = "running"
      BY <1>2 DEF Leased
    <2>2. app' \in [App -> {"none", "open", "closed", "pending", "evaluated"}] /\ cycle' \in Nat
      BY <1>0 DEF TypeOK
    <2> QED BY <1>0, <1>2, <2>1, <2>2, EndKept
  <1> QED BY <1>1, <1>2 DEF Report

-----------------------------------------------------------------------------
(* The invariant. *)

LEMMA CurationInvInit == Init => CurationInv
  <1> SUFFICES ASSUME Init PROVE CurationInv
    OBVIOUS
  <1>1. run \in Seq(RunType) /\ cycle \in Nat
    BY EmptySeq DEF Init
  <1>2. TypeOK
    BY <1>1, IdleTyped DEF Init, TypeOK
  <1>3. DeskInv /\ ReservedInv /\ HandedOutIsReserved
    BY DEF Init, Idle, DeskInv, ReservedInv, HandedOutIsReserved
  <1> QED BY <1>2, <1>3 DEF CurationInv

LEMMA CurationInvStep == CurationInv /\ [Next]_vars => CurationInv'
  <1> SUFFICES ASSUME CurationInv, [Next]_vars PROVE CurationInv'
    OBVIOUS
  <1>1. CASE Toggle \/ SevenDays \/ UNCHANGED vars
    <2>1. UNCHANGED <<app, run, cycle, reserved, desk>>
      BY <1>1 DEF Toggle, SevenDays, vars
    <2>2. Eases(0)
      BY <2>1, RunsAreNumbers DEF CurationInv, TypeOK, Eases, Run
    <2> QED BY <2>2, EasesKeeps
  <1> QED BY <1>1, ObservedKept, AskedKept, ClockKept, EnsureKept, ClaimKept, SubmitKept,
             StopsKept, ReportKept DEF Next

\* The queue's tables and what its processes do hold together through every claim,
\* every lease that runs out and every process that stops.
THEOREM CurationInvariant == Spec => []CurationInv
  BY CurationInvInit, CurationInvStep, PTL DEF Spec

\* A process with a good lease is never refused for covering the wrong applications
\* (completeCuratorRun's check of the reservations).
THEOREM VerdictsCover == Spec => []HandedOutIsReserved
  <1>1. CurationInv => HandedOutIsReserved
    BY DEF CurationInv
  <1> QED BY <1>1, CurationInvariant, PTL

\* No run that ended keeps an application from the next one (the releases of
\* completeCuratorRun and failCuratorRun).
THEOREM ReservationsEnd == Spec => []ReservationsAreLive
  <1>1. CurationInv => ReservationsAreLive
    BY DEF CurationInv, ReservedInv, ReservationsAreLive
  <1> QED BY <1>1, CurationInvariant, PTL

\* The switch holds for a run that was claimed before it, too.
THEOREM PauseIsKept == Spec => NothingJudgedWhilePaused
  <1>1. ASSUME CurationInv, [Next]_vars, paused, NEW a \in App, app'[a] = "evaluated"
        PROVE  app[a] = "evaluated"
    <2>1. CASE UNCHANGED app
      BY <1>1, <2>1
    <2>2. CASE \E x \in App : Apply(x) \/ Close(x) \/ Seal(x)
      BY <1>1, <2>2 DEF CurationInv, TypeOK, Apply, Close, Seal, Bound
    <2>3. ASSUME NEW w \in Process, Submit(w) PROVE UNCHANGED app
      BY <1>1, <2>3 DEF Submit, Accept, Allowed
    <2>4. \/ UNCHANGED app \/ \E x \in App : Apply(x) \/ Close(x) \/ Seal(x)
          \/ \E w \in Process : Submit(w)
      BY <1>1 DEF Next, vars, AskRun, Toggle, SevenDays, Expire, Ensure, Claim, ModelFails,
         Report, Crash
    <2> QED BY <2>1, <2>2, <2>3, <2>4
  <1>2. CurationInv /\ [Next]_vars =>
          [paused => \A a \in App : app'[a] = "evaluated" => app[a] = "evaluated"]_vars
    BY <1>1
  <1> QED BY <1>2, CurationInvariant, PTL DEF Spec, NothingJudgedWhilePaused

-----------------------------------------------------------------------------
(***************************************************************************)
(* A learned skill.                                                        *)
(***************************************************************************)

SeenRow == [row : Row, left : Nat]
Author == [stage : {"works"}, run : Episode, token : Nat, seen : SeenRow]
Refused == [stage : {"fails"}, run : Episode, token : Nat, again : BOOLEAN]
Judge == [stage : {"works"}, used : Nat, seen : SeenRow]

LearningTypeOK ==
    /\ skill \in Row /\ version \in Seq(VersionRow) /\ skill.active <= Len(version)
    /\ dist \in [Episode -> [state : {"queued", "running", "failed"} \cup Finished,
                             token : Nat, leased : BOOLEAN]]
    /\ bench \in [Distiller -> {AtRest} \cup Author \cup Refused]
    /\ curator \in {AtRest} \cup Judge
    /\ curator.stage = "works" => curator.used \in 1 .. Len(version)
    /\ view \in Row /\ halted \in BOOLEAN
    /\ allowance \in [{"controls", "uses", "toggles", "faults"} -> Nat]

\* Since an author read a row with an active version the revision has grown by at
\* least the commands that people have given.
SeenInv(a) ==
    a.stage = "works" /\ a.seen.row.active # 0 =>
        /\ skill.active # 0
        /\ allowance["controls"] <= a.seen.left
        /\ a.seen.row.rev + (a.seen.left - allowance["controls"]) <= skill.rev

LearningInv ==
    /\ LearningTypeOK
    /\ ~skill.there => skill = NoSkill
    /\ SeenInv(curator)
    /\ \A d \in Distiller : SeenInv(bench[d])

-----------------------------------------------------------------------------
(* What the operators of the model do.                                      *)

LEMMA ChargeFacts ==
    ASSUME LearningTypeOK, NEW what \in {"controls", "uses", "toggles", "faults"}, Charge(what)
    PROVE  /\ allowance' \in [{"controls", "uses", "toggles", "faults"} -> Nat]
           /\ allowance'["controls"] =
                IF what = "controls" THEN allowance["controls"] - 1 ELSE allowance["controls"]
  <1>1. /\ allowance \in [{"controls", "uses", "toggles", "faults"} -> Nat]
        /\ allowance[what] \in Nat /\ allowance[what] > 0
    BY DEF LearningTypeOK, Charge
  <1>2. allowance' = [allowance EXCEPT ![what] = allowance[what] - 1] /\ allowance[what] - 1 \in Nat
    BY <1>1 DEF Charge
  <1> QED BY <1>1, <1>2

LEMMA VersionTyped ==
    ASSUME NEW parent \in Nat, NEW scan \in Scan
    PROVE  Version(parent, scan) \in VersionRow
  <1>1. <<>> \in Seq(Outcomes)
    OBVIOUS
  <1> QED BY <1>1 DEF Version, VersionRow, Qualities

LEMMA AddedFacts ==
    ASSUME skill \in Row, NEW base \in Seq(VersionRow), skill.active <= Len(base),
           NEW parent \in Nat, NEW scan \in Scan, NEW rev \in Nat \ {0},
           Added(base, parent, scan, rev)
    PROVE  /\ version' \in Seq(VersionRow) /\ Len(version') = Len(base) + 1
           /\ skill' \in Row /\ skill'.there /\ skill'.active <= Len(version')
           /\ scan = "pass" => skill'.active # 0 /\ skill'.rev = rev
           /\ scan # "pass" => skill'.active = skill.active /\ skill'.rev = skill.rev
  <1>1. Len(base) \in Nat
    OBVIOUS
  <1>2. version' \in Seq(VersionRow) /\ Len(version') = Len(base) + 1
    BY VersionTyped DEF Added
  <1>3. skill' = [there |-> TRUE, pinned |-> skill.pinned, enabled |-> skill.enabled,
                  archived |-> skill.archived,
                  active |-> IF scan = "pass" THEN Len(base) + 1 ELSE skill.active,
                  rev |-> IF scan = "pass" THEN rev ELSE skill.rev]
    BY DEF Added
  <1>4. skill.active \in Nat /\ skill.rev \in Nat \ {0}
    BY DEF Row
  <1>5. skill' \in Row
    BY <1>1, <1>3, <1>4 DEF Row
  <1> QED BY <1>1, <1>2, <1>3, <1>4, <1>5

LEMMA QualityTyped ==
    ASSUME NEW quality \in Qualities, NEW h
    PROVE  NextQuality(quality, h) \in Qualities
  BY DEF NextQuality, Qualities

LEMMA VersionWritten ==
    ASSUME NEW vs \in Seq(VersionRow), NEW v \in 1 .. Len(vs), NEW w \in VersionRow
    PROVE  /\ [vs EXCEPT ![v] = w] \in Seq(VersionRow)
           /\ Len([vs EXCEPT ![v] = w]) = Len(vs)
  BY ExceptSeq

LEMMA JudgedFacts ==
    ASSUME LearningTypeOK, NEW v \in 1 .. Len(version), NEW outcome \in Outcomes
    PROVE  /\ Judged(v, outcome) \in Seq(VersionRow)
           /\ Len(Judged(v, outcome)) = Len(version)
  <1>1. version \in Seq(VersionRow) /\ version[v] \in VersionRow
    BY DEF LearningTypeOK
  <1> DEFINE h == Append(version[v].history, outcome)
             w == [parent |-> version[v].parent, scan |-> version[v].scan, history |-> h,
                   quality |-> NextQuality(version[v].quality, h)]
  <1>2. h \in Seq(Outcomes)
    BY <1>1 DEF VersionRow
  <1>3. version[v].quality \in Qualities
    BY <1>1 DEF VersionRow
  <1>4. NextQuality(version[v].quality, h) \in Qualities
    BY <1>3, QualityTyped
  <1>5. w \in VersionRow
    <2> HIDE DEF h
    <2> QED BY <1>1, <1>2, <1>4 DEF VersionRow
  <1>6. Judged(v, outcome) = [version EXCEPT ![v] = w]
    BY DEF Judged
  <1> HIDE DEF w
  <1> QED BY <1>1, <1>5, <1>6, VersionWritten

\* What an author takes down is true when it is taken down.
LEMMA SeenTyped ==
    ASSUME LearningTypeOK
    PROVE  /\ Seen \in SeenRow
           /\ \A a : a.seen = Seen => SeenInv(a)
  <1>1. skill \in Row /\ allowance["controls"] \in Nat /\ skill.rev \in Nat
    BY DEF LearningTypeOK, Row
  <1>2. Seen = [row |-> skill, left |-> allowance["controls"]]
    BY DEF Seen
  <1> QED BY <1>1, <1>2 DEF SeenRow, SeenInv

\* A step that does not turn the row back leaves what authors saw in place.
Onward ==
    /\ allowance'["controls"] <= allowance["controls"]
    /\ skill.active # 0 =>
         /\ skill'.active # 0
         /\ skill.rev + (allowance["controls"] - allowance'["controls"]) <= skill'.rev

LEMMA SeenKept ==
    ASSUME LearningTypeOK, LearningTypeOK', Onward,
           NEW a, a.seen \in SeenRow \/ a.stage # "works", SeenInv(a)
    PROVE  SeenInv(a)'
  <1> SUFFICES ASSUME a.stage = "works", a.seen.row.active # 0
               PROVE  /\ skill'.active # 0
                      /\ allowance'["controls"] <= a.seen.left
                      /\ a.seen.row.rev + (a.seen.left - allowance'["controls"]) <= skill'.rev
    BY DEF SeenInv
  <1>1. /\ skill.active # 0 /\ allowance["controls"] <= a.seen.left
        /\ a.seen.row.rev + (a.seen.left - allowance["controls"]) <= skill.rev
    BY DEF SeenInv
  <1>2. /\ skill.rev \in Nat /\ skill'.rev \in Nat /\ allowance["controls"] \in Nat
        /\ allowance'["controls"] \in Nat
    BY DEF LearningTypeOK, Row
  <1>3. a.seen.row.rev \in Nat /\ a.seen.left \in Nat
    BY DEF SeenRow, Row
  <1>4. /\ skill'.active # 0 /\ allowance'["controls"] <= allowance["controls"]
        /\ skill.rev + (allowance["controls"] - allowance'["controls"]) <= skill'.rev
    BY <1>1 DEF Onward
  <1> QED BY <1>1, <1>2, <1>3, <1>4

LEMMA DeskFacts ==
    ASSUME LearningTypeOK
    PROVE  /\ \A d \in Distiller :
                /\ bench[d] \in {AtRest} \cup Author \cup Refused
                /\ bench[d].stage = "works" => bench[d] \in Author
                /\ bench[d].stage = "fails" => bench[d] \in Refused
           /\ curator.stage = "works" => curator \in Judge
           /\ curator # AtRest => curator \in Judge /\ curator.stage = "works"
  BY DEF LearningTypeOK, AtRest, Author, Refused, Judge

\* A step keeps what authors saw if it does not turn the row back, and whoever
\* starts takes down the row as it is.
LEMMA SeenIsKept ==
    ASSUME LearningInv, LearningTypeOK', Onward,
           \A d \in Distiller :
             \/ bench'[d] = bench[d] \/ bench'[d].stage # "works"
             \/ bench'[d].seen = Seen /\ skill' = skill
                  /\ allowance'["controls"] = allowance["controls"],
           \/ curator' = curator \/ curator'.stage # "works"
           \/ curator'.seen = Seen /\ skill' = skill
                /\ allowance'["controls"] = allowance["controls"]
    PROVE  SeenInv(curator)' /\ \A d \in Distiller : SeenInv(bench[d])'
  <1>1. LearningTypeOK
    BY DEF LearningInv
  <1>2. ASSUME NEW a, a.seen = Seen, skill' = skill,
               allowance'["controls"] = allowance["controls"]
        PROVE  SeenInv(a)'
    <2>1. SeenInv(a)
      BY <1>1, <1>2, SeenTyped
    <2> QED BY <1>2, <2>1 DEF SeenInv
  <1>3. ASSUME NEW a, a.stage # "works" PROVE SeenInv(a)'
    BY <1>3 DEF SeenInv
  <1>4. SeenInv(curator)'
    <2>1. CASE curator' = curator
      <3>1. curator.seen \in SeenRow \/ curator.stage # "works"
        BY <1>1, DeskFacts DEF Judge
      <3>2. SeenInv(curator)
        BY DEF LearningInv
      <3>3. PICK a : a = curator
        OBVIOUS
      <3>4. SeenInv(a)'
        BY <1>1, <3>1, <3>2, <3>3, SeenKept
      <3> QED BY <2>1, <3>3, <3>4 DEF SeenInv
    <2>2. CASE curator'.stage # "works"
      BY <2>2 DEF SeenInv
    <2>3. CASE curator'.seen = Seen /\ skill' = skill
                 /\ allowance'["controls"] = allowance["controls"]
      <3>1. PICK a : a = curator'
        OBVIOUS
      <3>2. SeenInv(a)'
        BY <1>2, <2>3, <3>1
      <3> QED BY <3>1, <3>2 DEF SeenInv
    <2> QED BY <2>1, <2>2, <2>3
  <1>5. ASSUME NEW d \in Distiller PROVE SeenInv(bench[d])'
    <2>1. CASE bench'[d] = bench[d]
      <3>1. bench[d].seen \in SeenRow \/ bench[d].stage # "works"
        BY <1>1, DeskFacts DEF Author
      <3>2. SeenInv(bench[d])
        BY DEF LearningInv
      <3>3. PICK a : a = bench[d]
        OBVIOUS
      <3>4. SeenInv(a)'
        BY <1>1, <3>1, <3>2, <3>3, SeenKept
      <3> QED BY <2>1, <3>3, <3>4 DEF SeenInv
    <2>2. CASE bench'[d].stage # "works"
      BY <2>2 DEF SeenInv
    <2>3. CASE bench'[d].seen = Seen /\ skill' = skill
                 /\ allowance'["controls"] = allowance["controls"]
      <3>1. PICK a : a = bench'[d]
        OBVIOUS
      <3>2. SeenInv(a)'
        BY <1>2, <2>3, <3>1
      <3> QED BY <3>1, <3>2 DEF SeenInv
    <2> QED BY <2>1, <2>2, <2>3
  <1> QED BY <1>4, <1>5

\* The row and the commands as they were.
LEMMA NothingDone ==
    ASSUME LearningTypeOK, skill' = skill, allowance'["controls"] = allowance["controls"]
    PROVE  Onward
  <1>1. skill.rev \in Nat /\ allowance["controls"] \in Nat
    BY DEF LearningTypeOK, Row
  <1> QED BY <1>1 DEF Onward

-----------------------------------------------------------------------------
(* The queue of distillation runs.                                          *)

\* A step of the queue, which leaves the skill, its versions and the curator alone.
QueueStep == UNCHANGED <<skill, version, curator, view, halted>>

LEMMA QueueKeeps ==
    ASSUME LearningInv, QueueStep,
           dist' \in [Episode -> [state : {"queued", "running", "failed"} \cup Finished,
                                  token : Nat, leased : BOOLEAN]],
           NEW d \in Distiller, NEW what \in {AtRest} \cup Author \cup Refused,
           bench' = [bench EXCEPT ![d] = what],
           what.stage = "works" => what.seen = Seen,
           allowance' \in [{"controls", "uses", "toggles", "faults"} -> Nat],
           allowance'["controls"] = allowance["controls"]
    PROVE  LearningInv'
  <1>1. LearningTypeOK
    BY DEF LearningInv
  <1>2. LearningTypeOK'
    BY <1>1 DEF LearningTypeOK, QueueStep
  <1>3. Onward
    BY <1>1, NothingDone DEF QueueStep
  <1>4. \A c \in Distiller : bench'[c] = IF c = d THEN what ELSE bench[c]
    BY <1>1 DEF LearningTypeOK
  <1>5. SeenInv(curator)' /\ \A c \in Distiller : SeenInv(bench[c])'
    BY <1>2, <1>3, <1>4, SeenIsKept DEF QueueStep
  <1> QED BY <1>2, <1>5 DEF LearningInv, QueueStep

LEMMA RunFacts ==
    ASSUME LearningTypeOK, NEW e \in Episode
    PROVE  /\ dist[e].token \in Nat /\ dist[e].leased \in BOOLEAN
           /\ dist[e].state \in {"queued", "running", "failed"} \cup Finished
  BY DEF LearningTypeOK

LEMMA ClaimKeeps ==
    ASSUME LearningInv, NEW d \in Distiller, NEW e \in Episode, ClaimEpisode(d, e)
    PROVE  LearningInv'
  <1>1. LearningTypeOK
    BY DEF LearningInv
  <1> DEFINE now == [state |-> "running", token |-> dist[e].token + 1, leased |-> TRUE]
             what == [stage |-> "works", run |-> e, token |-> dist[e].token + 1, seen |-> Seen]
  <1>2. /\ QueueStep /\ allowance' = allowance
        /\ dist' = [dist EXCEPT ![e] = now] /\ bench' = [bench EXCEPT ![d] = what]
    BY DEF ClaimEpisode, Takes, QueueStep
  <1>3. dist[e].token + 1 \in Nat
    BY <1>1, RunFacts
  <1>4. dist' \in [Episode -> [state : {"queued", "running", "failed"} \cup Finished,
                               token : Nat, leased : BOOLEAN]]
    BY <1>1, <1>2, <1>3 DEF LearningTypeOK
  <1>5. what \in Author /\ what.seen = Seen
    BY <1>1, <1>3, SeenTyped DEF Author
  <1> HIDE DEF what
  <1>6. allowance' \in [{"controls", "uses", "toggles", "faults"} -> Nat]
    BY <1>1, <1>2 DEF LearningTypeOK
  <1> QED BY <1>2, <1>4, <1>5, <1>6, QueueKeeps

LEMMA LeaseEndsKeeps ==
    ASSUME LearningInv, NEW e \in Episode, LeaseEnds(e)
    PROVE  LearningInv'
  <1>1. LearningTypeOK
    BY DEF LearningInv
  <1>2. dist' \in [Episode -> [state : {"queued", "running", "failed"} \cup Finished,
                               token : Nat, leased : BOOLEAN]]
    <2>1. dist[e] \in [state : {"queued", "running", "failed"} \cup Finished,
                       token : Nat, leased : BOOLEAN]
      BY <1>1 DEF LearningTypeOK
    <2>2. [dist[e] EXCEPT !.leased = FALSE]
            \in [state : {"queued", "running", "failed"} \cup Finished,
                 token : Nat, leased : BOOLEAN]
      BY <2>1
    <2>3. dist' = [dist EXCEPT ![e] = [dist[e] EXCEPT !.leased = FALSE]]
      BY DEF LeaseEnds
    <2> QED BY <1>1, <2>2, <2>3 DEF LearningTypeOK
  <1>3. /\ allowance' \in [{"controls", "uses", "toggles", "faults"} -> Nat]
        /\ allowance'["controls"] = allowance["controls"]
    BY <1>1, ChargeFacts DEF LeaseEnds, LearningTypeOK
  <1>4. UNCHANGED <<skill, version, bench, curator, view, halted>>
    BY DEF LeaseEnds
  <1>5. LearningTypeOK'
    BY <1>1, <1>2, <1>3, <1>4 DEF LearningTypeOK
  <1>6. Onward
    BY <1>1, <1>3, <1>4, NothingDone
  <1>7. SeenInv(curator)' /\ \A c \in Distiller : SeenInv(bench[c])'
    BY <1>4, <1>5, <1>6, SeenIsKept
  <1> QED BY <1>4, <1>5, <1>7 DEF LearningInv

LEMMA GivenUpTyped ==
    ASSUME LearningTypeOK, NEW e \in Episode, NEW again \in BOOLEAN
    PROVE  GivenUp(e, again) \in [Episode -> [state : {"queued", "running", "failed"} \cup Finished,
                                              token : Nat, leased : BOOLEAN]]
  <1> DEFINE now == [state |-> IF again THEN "queued" ELSE "failed", leased |-> FALSE,
                     token |-> dist[e].token]
  <1>1. now \in [state : {"queued", "running", "failed"} \cup Finished,
                 token : Nat, leased : BOOLEAN]
    BY RunFacts
  <1>2. GivenUp(e, again) = [dist EXCEPT ![e] = now]
    BY DEF GivenUp
  <1> HIDE DEF now
  <1> QED BY <1>1, <1>2 DEF LearningTypeOK

LEMMA ReportKeeps ==
    ASSUME LearningInv, NEW d \in Distiller, ReportFailure(d)
    PROVE  LearningInv'
  <1>1. LearningTypeOK
    BY DEF LearningInv
  <1>2. bench[d] \in Refused
    BY <1>1, DeskFacts DEF ReportFailure
  <1>3. bench[d].run \in Episode /\ bench[d].again \in BOOLEAN
    BY <1>2 DEF Refused
  <1>4. dist' \in [Episode -> [state : {"queued", "running", "failed"} \cup Finished,
                               token : Nat, leased : BOOLEAN]]
    BY <1>1, <1>3, GivenUpTyped DEF ReportFailure, LearningTypeOK
  <1>5. QueueStep /\ allowance' = allowance /\ bench' = [bench EXCEPT ![d] = AtRest]
    BY DEF ReportFailure, Takes, QueueStep
  <1>6. AtRest.stage # "works"
    BY DEF AtRest
  <1>7. allowance' \in [{"controls", "uses", "toggles", "faults"} -> Nat]
    BY <1>1, <1>5 DEF LearningTypeOK
  <1> QED BY <1>4, <1>5, <1>6, <1>7, QueueKeeps

LEMMA FailKeeps ==
    ASSUME LearningInv, QueueStep, NEW d \in Distiller, bench[d].stage = "works",
           NEW again \in BOOLEAN, Fail(d, again), dist' = dist,
           allowance' \in [{"controls", "uses", "toggles", "faults"} -> Nat],
           allowance'["controls"] = allowance["controls"]
    PROVE  LearningInv'
  <1>1. LearningTypeOK
    BY DEF LearningInv
  <1> DEFINE what == [stage |-> "fails", run |-> bench[d].run, token |-> bench[d].token,
                      again |-> again]
  <1>2. bench[d] \in Author
    BY <1>1, DeskFacts
  <1>3. what \in Refused /\ what.stage # "works"
    BY <1>2 DEF Author, Refused
  <1>4. bench' = [bench EXCEPT ![d] = what]
    BY DEF Fail, Takes
  <1> HIDE DEF what
  <1>5. dist' \in [Episode -> [state : {"queued", "running", "failed"} \cup Finished,
                               token : Nat, leased : BOOLEAN]]
    BY <1>1 DEF LearningTypeOK
  <1> QED BY <1>3, <1>4, <1>5, QueueKeeps

LEMMA DistillerFailsKeeps ==
    ASSUME LearningInv, NEW d \in Distiller, DistillerFails(d)
    PROVE  LearningInv'
  <1>1. LearningTypeOK
    BY DEF LearningInv
  <1>2. /\ allowance' \in [{"controls", "uses", "toggles", "faults"} -> Nat]
        /\ allowance'["controls"] = allowance["controls"]
    BY <1>1, ChargeFacts DEF DistillerFails
  <1>3. PICK again \in BOOLEAN : Fail(d, again)
    BY DEF DistillerFails
  <1>4. QueueStep /\ bench[d].stage = "works" /\ dist' = dist
    BY DEF DistillerFails, QueueStep
  <1> QED BY <1>2, <1>3, <1>4, FailKeeps

LEMMA DistillerCrashKeeps ==
    ASSUME LearningInv, NEW d \in Distiller, DistillerCrash(d)
    PROVE  LearningInv'
  <1>1. LearningTypeOK
    BY DEF LearningInv
  <1>2. /\ allowance' \in [{"controls", "uses", "toggles", "faults"} -> Nat]
        /\ allowance'["controls"] = allowance["controls"]
    BY <1>1, ChargeFacts DEF DistillerCrash
  <1>3. QueueStep /\ dist' = dist /\ bench' = [bench EXCEPT ![d] = AtRest]
    BY DEF DistillerCrash, Takes, QueueStep
  <1>4. dist' \in [Episode -> [state : {"queued", "running", "failed"} \cup Finished,
                               token : Nat, leased : BOOLEAN]]
    BY <1>1, <1>3 DEF LearningTypeOK
  <1>5. AtRest.stage # "works"
    BY DEF AtRest
  <1> QED BY <1>2, <1>3, <1>4, <1>5, QueueKeeps

-----------------------------------------------------------------------------
(* Steps that may write the row.                                            *)

DistTyped ==
    dist \in [Episode -> [state : {"queued", "running", "failed"} \cup Finished,
                          token : Nat, leased : BOOLEAN]]

\* Whoever was working goes on or is done, and nobody turns the row back.
LEMMA RowKeeps ==
    ASSUME LearningInv, Onward, DistTyped',
           skill' \in Row, version' \in Seq(VersionRow), Len(version) <= Len(version'),
           skill'.active <= Len(version'), skill'.there \/ skill' = skill,
           bench' = bench \/ \E d \in Distiller : bench' = [bench EXCEPT ![d] = AtRest],
           curator' \in {curator, AtRest}, view' \in Row, halted' \in BOOLEAN,
           allowance' \in [{"controls", "uses", "toggles", "faults"} -> Nat]
    PROVE  LearningInv'
  <1>1. LearningTypeOK
    BY DEF LearningInv
  <1>2. AtRest.stage # "works"
    BY DEF AtRest
  <1>3. /\ bench' \in [Distiller -> {AtRest} \cup Author \cup Refused]
        /\ \A d \in Distiller : bench'[d] = bench[d] \/ bench'[d].stage # "works"
    BY <1>1, <1>2 DEF LearningTypeOK
  <1>4. /\ curator' \in {AtRest} \cup Judge
        /\ curator'.stage = "works" => curator' = curator
    BY <1>1, <1>2 DEF LearningTypeOK
  <1>5. curator'.stage = "works" => curator'.used \in 1 .. Len(version')
    <2>1. curator.stage = "works" => curator.used \in 1 .. Len(version)
      BY <1>1 DEF LearningTypeOK
    <2>2. version \in Seq(VersionRow)
      BY <1>1 DEF LearningTypeOK
    <2>3. Len(version) \in Nat /\ Len(version') \in Nat
      BY <2>2
    <2>4. 1 .. Len(version) \subseteq 1 .. Len(version')
      BY <2>3
    <2> QED BY <1>4, <2>1, <2>4
  <1>6. LearningTypeOK'
    BY <1>3, <1>4, <1>5 DEF LearningTypeOK, DistTyped
  <1>7. SeenInv(curator)' /\ \A d \in Distiller : SeenInv(bench[d])'
    BY <1>2, <1>3, <1>6, SeenIsKept
  <1>8. ~skill'.there => skill' = NoSkill
    BY DEF LearningInv
  <1> QED BY <1>6, <1>7, <1>8 DEF LearningInv

\* A version that is added to what there is, or to what a verdict left of it.
LEMMA AddedKeeps ==
    ASSUME LearningInv, NEW base \in Seq(VersionRow), Len(base) = Len(version),
           NEW parent \in Nat, NEW scan \in Scan, NEW rev \in Nat \ {0},
           Added(base, parent, scan, rev),
           skill.active # 0 => rev = skill.rev + 1,
           \/ allowance'["controls"] = allowance["controls"]
           \/ /\ scan = "pass" /\ rev = skill.rev + 1
              /\ allowance'["controls"] = allowance["controls"] - 1
    PROVE  /\ Onward /\ skill' \in Row /\ version' \in Seq(VersionRow)
           /\ Len(version) <= Len(version') /\ skill'.active <= Len(version') /\ skill'.there
  <1>1. /\ LearningTypeOK /\ skill \in Row /\ skill.active <= Len(base)
        /\ skill.rev \in Nat /\ skill.active \in Nat /\ allowance["controls"] \in Nat
    BY DEF LearningInv, LearningTypeOK, Row
  <1>2. /\ version' \in Seq(VersionRow) /\ Len(version') = Len(base) + 1
        /\ skill' \in Row /\ skill'.there /\ skill'.active <= Len(version')
        /\ scan = "pass" => skill'.active # 0 /\ skill'.rev = rev
        /\ scan # "pass" => skill'.active = skill.active /\ skill'.rev = skill.rev
    BY <1>1, AddedFacts
  <1>3. Len(base) \in Nat
    OBVIOUS
  <1>4. Onward
    <2>1. allowance'["controls"] <= allowance["controls"]
      BY <1>1
    <2>2. ASSUME skill.active # 0
          PROVE  /\ skill'.active # 0
                 /\ skill.rev + (allowance["controls"] - allowance'["controls"]) <= skill'.rev
      <3>1. CASE scan = "pass"
        BY <1>1, <1>2, <2>2, <3>1
      <3>2. CASE scan # "pass"
        BY <1>1, <1>2, <2>2, <3>2
      <3> QED BY <3>1, <3>2
    <2> QED BY <2>1, <2>2 DEF Onward
  <1>5. Len(version) <= Len(version')
    BY <1>2, <1>3
  <1> QED BY <1>2, <1>4, <1>5

LEMMA FinishFacts ==
    ASSUME LearningTypeOK, NEW d \in Distiller, bench[d].stage = "works",
           NEW state \in Finished, Finish(d, state)
    PROVE  DistTyped' /\ bench' = [bench EXCEPT ![d] = AtRest]
  <1>1. bench[d] \in Author
    BY DeskFacts
  <1>2. bench[d].run \in Episode
    BY <1>1 DEF Author
  <1> DEFINE now == [state |-> state, leased |-> FALSE, token |-> dist[bench[d].run].token]
  <1>3. now \in [state : {"queued", "running", "failed"} \cup Finished,
                 token : Nat, leased : BOOLEAN]
    BY <1>2, RunFacts
  <1>4. dist' = [dist EXCEPT ![bench[d].run] = now]
    BY DEF Finish
  <1> HIDE DEF now
  <1>5. DistTyped'
    BY <1>3, <1>4 DEF LearningTypeOK, DistTyped
  <1> QED BY <1>5 DEF Finish, Takes

LEMMA CompleteKeeps ==
    ASSUME LearningInv, NEW d \in Distiller, Complete(d)
    PROVE  LearningInv'
  <1>1. /\ LearningTypeOK /\ skill \in Row /\ version \in Seq(VersionRow)
        /\ skill.rev + 1 \in Nat \ {0} /\ skill.active \in Nat /\ skill.active <= Len(version)
        /\ view \in Row /\ halted \in BOOLEAN
        /\ allowance \in [{"controls", "uses", "toggles", "faults"} -> Nat]
    BY DEF LearningInv, LearningTypeOK, Row
  <1>2. bench[d].stage = "works" /\ UNCHANGED <<curator, view, halted, allowance>>
    BY DEF Complete
  <1>3. CASE Finish(d, "noop") /\ UNCHANGED <<skill, version>>
    <2>1. DistTyped' /\ bench' = [bench EXCEPT ![d] = AtRest]
      BY <1>1, <1>2, <1>3, FinishFacts DEF Finished
    <2>2. Onward
      BY <1>1, <1>2, <1>3, NothingDone
    <2>3. Len(version) <= Len(version')
      BY <1>1, <1>3
    <2> QED BY <1>1, <1>2, <1>3, <2>1, <2>2, <2>3, RowKeeps
  <1>4. ASSUME Creatable, NEW scan \in Scan, Added(version, 0, scan, 1),
               Finish(d, Distilled(scan))
        PROVE  LearningInv'
    <2>1. DistTyped' /\ bench' = [bench EXCEPT ![d] = AtRest]
      BY <1>1, <1>2, <1>4, FinishFacts DEF Finished, Distilled
    <2>2. skill.active = 0
      BY <1>4 DEF Creatable
    <2>3. /\ Onward /\ skill' \in Row /\ version' \in Seq(VersionRow)
          /\ Len(version) <= Len(version') /\ skill'.active <= Len(version') /\ skill'.there
      BY <1>1, <1>2, <1>4, <2>2, AddedKeeps
    <2> QED BY <1>1, <1>2, <2>1, <2>3, RowKeeps
  <1>5. ASSUME NEW scan \in Scan, Added(version, skill.active, scan, skill.rev + 1),
               Finish(d, Distilled(scan))
        PROVE  LearningInv'
    <2>1. DistTyped' /\ bench' = [bench EXCEPT ![d] = AtRest]
      BY <1>1, <1>2, <1>5, FinishFacts DEF Finished, Distilled
    <2>2. /\ Onward /\ skill' \in Row /\ version' \in Seq(VersionRow)
          /\ Len(version) <= Len(version') /\ skill'.active <= Len(version') /\ skill'.there
      BY <1>1, <1>2, <1>5, AddedKeeps
    <2> QED BY <1>1, <1>2, <2>1, <2>2, RowKeeps
  <1>6. CASE Fail(d, FALSE) /\ UNCHANGED <<skill, version, dist>>
    <2>1. QueueStep
      BY <1>2, <1>6 DEF QueueStep
    <2> QED BY <1>1, <1>2, <1>6, <2>1, FailKeeps
  <1> QED BY <1>3, <1>4, <1>5, <1>6 DEF Complete

LEMMA CuratorReadsKeeps ==
    ASSUME LearningInv, CuratorReads
    PROVE  LearningInv'
  <1>1. LearningTypeOK /\ version \in Seq(VersionRow)
    BY DEF LearningInv, LearningTypeOK
  <1>2. PICK v \in DOMAIN version : curator' = [stage |-> "works", used |-> v, seen |-> Seen]
    BY DEF CuratorReads
  <1>3. v \in 1 .. Len(version) /\ v \in Nat
    BY <1>1
  <1>4. curator' \in Judge /\ curator'.seen = Seen /\ curator'.used = v
    BY <1>1, <1>2, <1>3, SeenTyped DEF Judge
  <1>5. /\ allowance' \in [{"controls", "uses", "toggles", "faults"} -> Nat]
        /\ allowance'["controls"] = allowance["controls"]
    BY <1>1, ChargeFacts DEF CuratorReads
  <1>6. UNCHANGED <<skill, version, dist, bench, view, halted>>
    BY DEF CuratorReads
  <1>7. LearningTypeOK'
    BY <1>1, <1>3, <1>4, <1>5, <1>6 DEF LearningTypeOK
  <1>8. Onward
    BY <1>1, <1>5, <1>6, NothingDone
  <1>9. SeenInv(curator)' /\ \A d \in Distiller : SeenInv(bench[d])'
    BY <1>4, <1>5, <1>6, <1>7, <1>8, SeenIsKept
  <1> QED BY <1>6, <1>7, <1>9 DEF LearningInv

LEMMA MoveFacts ==
    ASSUME LearningInv, NEW active \in Nat \ {0}, active <= Len(version),
           NEW enabled \in BOOLEAN, NEW archived \in BOOLEAN,
           Move(active, enabled, archived), skill.there,
           allowance'["controls"] = allowance["controls"]
    PROVE  Onward /\ skill' \in Row /\ skill'.there /\ skill'.active <= Len(version)
  <1>1. skill \in Row /\ skill.rev \in Nat /\ allowance["controls"] \in Nat
    BY DEF LearningInv, LearningTypeOK, Row
  <1>2. skill' = [there |-> skill.there, active |-> active, pinned |-> skill.pinned,
                  enabled |-> enabled, archived |-> archived, rev |-> skill.rev + 1]
    BY DEF Move
  <1>3. skill' \in Row
    BY <1>1, <1>2 DEF Row
  <1> QED BY <1>1, <1>2, <1>3 DEF Onward

LEMMA CuratorDoneKeeps ==
    ASSUME LearningInv, CuratorDone
    PROVE  LearningInv'
  <1>1. /\ LearningTypeOK /\ skill \in Row /\ version \in Seq(VersionRow) /\ DistTyped
        /\ skill.rev + 1 \in Nat \ {0} /\ skill.active \in Nat /\ skill.active <= Len(version)
        /\ view \in Row /\ halted \in BOOLEAN /\ Len(version) \in Nat
        /\ allowance \in [{"controls", "uses", "toggles", "faults"} -> Nat]
    BY DEF LearningInv, LearningTypeOK, Row, DistTyped
  <1>2. /\ curator \in Judge /\ curator.stage = "works" /\ curator' = AtRest
        /\ UNCHANGED <<dist, bench, view, halted, allowance>> /\ DistTyped'
    BY <1>1, DeskFacts DEF CuratorDone, DistTyped
  <1>3. curator.used \in 1 .. Len(version)
    BY <1>1, <1>2 DEF LearningTypeOK
  <1>4. ASSUME Onward, skill' \in Row, version' \in Seq(VersionRow),
               Len(version) <= Len(version'), skill'.active <= Len(version'),
               skill'.there \/ skill' = skill
        PROVE  LearningInv'
    BY <1>1, <1>2, <1>4, RowKeeps
  <1>5. CASE UNCHANGED <<skill, version>>
    <2>1. Onward
      BY <1>1, <1>2, <1>5, NothingDone
    <2> QED BY <1>1, <1>4, <1>5, <2>1
  <1>6. ASSUME NEW outcome \in Outcomes, NEW judged, judged = Judged(curator.used, outcome)
        PROVE  /\ judged \in Seq(VersionRow) /\ Len(judged) = Len(version)
               /\ DOMAIN judged = 1 .. Len(version)
    BY <1>1, <1>3, <1>6, JudgedFacts
  <1>7. ASSUME NEW outcome \in Outcomes, version' = Judged(curator.used, outcome), skill' = skill
        PROVE  LearningInv'
    <2>1. version' \in Seq(VersionRow) /\ Len(version') = Len(version)
      BY <1>6, <1>7
    <2>2. Onward
      BY <1>1, <1>2, <1>7, NothingDone
    <2> QED BY <1>1, <1>4, <1>7, <2>1, <2>2
  <1>8. ASSUME NEW outcome \in Outcomes, NEW judged, judged = Judged(curator.used, outcome),
               Patchable(curator.seen), Remediate(judged)
        PROVE  LearningInv'
    <2>1. /\ judged \in Seq(VersionRow) /\ Len(judged) = Len(version)
          /\ DOMAIN judged = 1 .. Len(version)
      BY <1>6, <1>8
    <2>2. skill.active # 0 /\ skill.there /\ skill.active \in 1 .. Len(version)
      BY <1>1, <1>8 DEF Patchable, Matches
    <2>3. ASSUME NEW scan \in Scan, Added(judged, skill.active, scan, skill.rev + 1)
          PROVE  LearningInv'
      <3>1. /\ Onward /\ skill' \in Row /\ version' \in Seq(VersionRow)
            /\ Len(version) <= Len(version') /\ skill'.active <= Len(version') /\ skill'.there
        BY <1>1, <1>2, <2>1, <2>3, AddedKeeps
      <3> QED BY <1>4, <3>1
    <2>4. ASSUME NEW active \in Nat \ {0}, active <= Len(version),
                 NEW enabled \in BOOLEAN, NEW archived \in BOOLEAN,
                 Move(active, enabled, archived),
                 version' \in Seq(VersionRow), Len(version') = Len(version)
          PROVE  LearningInv'
      <3>1. Onward /\ skill' \in Row /\ skill'.there /\ skill'.active <= Len(version)
        BY <1>2, <2>2, <2>4, MoveFacts
      <3> QED BY <1>1, <1>4, <2>4, <3>1
    <2>5. skill.active \in Nat \ {0} /\ skill.active <= Len(version)
      BY <1>1, <2>2
    <2>6. CASE Move(skill.active, FALSE, FALSE) /\ version' = judged
      BY <2>1, <2>4, <2>5, <2>6
    <2>7. CASE Move(skill.active, TRUE, TRUE) /\ version' = judged
      BY <2>1, <2>4, <2>5, <2>7
    <2>8. ASSUME NEW v \in DOMAIN judged, Move(v, TRUE, FALSE), version' = judged
          PROVE  LearningInv'
      <3>1. v \in Nat \ {0} /\ v <= Len(version)
        BY <1>1, <2>1, <2>8
      <3> QED BY <2>1, <2>4, <2>8, <3>1
    <2>9. CASE /\ Move(skill.active, TRUE, FALSE)
               /\ version' = [judged EXCEPT ![skill.active] = [@ EXCEPT !.quality = "quarantined"]]
      <3> DEFINE w == [judged[skill.active] EXCEPT !.quality = "quarantined"]
      <3>1. skill.active \in 1 .. Len(judged) /\ judged[skill.active] \in VersionRow
        BY <2>1, <2>2
      <3>2. w \in VersionRow
        BY <3>1 DEF VersionRow, Qualities
      <3>3. version' = [judged EXCEPT ![skill.active] = w]
        BY <2>9
      <3> HIDE DEF w
      <3>4. version' \in Seq(VersionRow) /\ Len(version') = Len(version)
        BY <2>1, <3>1, <3>2, <3>3, VersionWritten
      <3> QED BY <2>4, <2>5, <2>9, <3>4
    <2> QED BY <1>8, <2>3, <2>6, <2>7, <2>8, <2>9 DEF Remediate
  <1> QED BY <1>5, <1>7, <1>8 DEF CuratorDone

-----------------------------------------------------------------------------
(* People.                                                                  *)

\* A command leaves an active version and raises the revision.
LEMMA CommandFacts ==
    ASSUME LearningInv, NEW to \in Commands
    PROVE  /\ Commanded(to) \in Row /\ Commanded(to).there = skill.there
           /\ Commanded(to).rev = skill.rev + 1
           /\ Commanded(to).active <= Len(version)
           /\ (skill.active # 0 => Commanded(to).active # 0)
  <1>1. /\ skill \in Row /\ version \in Seq(VersionRow) /\ skill.active <= Len(version)
        /\ skill.rev \in Nat /\ skill.active \in Nat /\ Len(version) \in Nat
    BY DEF LearningInv, LearningTypeOK, Row
  <1>2. /\ to \in Row /\ to.there = skill.there /\ to.rev = skill.rev
        /\ to.active <= Len(version) /\ (skill.active # 0 => to.active # 0)
    <2>1. CASE \E b \in BOOLEAN : to = [skill EXCEPT !.pinned = b]
      BY <1>1, <2>1 DEF Row
    <2>2. CASE \E b \in BOOLEAN : to = [skill EXCEPT !.enabled = b]
      BY <1>1, <2>2 DEF Row
    <2>3. CASE \E b \in BOOLEAN : to = [skill EXCEPT !.archived = b]
      BY <1>1, <2>3 DEF Row
    <2>4. ASSUME NEW v \in DOMAIN version, Sound(version, v), to = [skill EXCEPT !.active = v]
          PROVE  /\ to \in Row /\ to.there = skill.there /\ to.rev = skill.rev
                 /\ to.active <= Len(version) /\ (skill.active # 0 => to.active # 0)
      <3>1. v \in Nat /\ v <= Len(version) /\ v # 0
        BY <1>1, <2>4
      <3> QED BY <1>1, <2>4, <3>1 DEF Row
    <2> QED BY <2>1, <2>2, <2>3, <2>4 DEF Commands
  <1>3. Commanded(to) = [to EXCEPT !.rev = skill.rev + 1] /\ skill.rev + 1 \in Nat \ {0}
    BY <1>1, <1>2 DEF Commanded
  <1>4. /\ Commanded(to) \in Row /\ Commanded(to).rev = skill.rev + 1
        /\ Commanded(to).there = to.there /\ Commanded(to).active = to.active
    BY <1>2, <1>3 DEF Row
  <1> QED BY <1>2, <1>4

LEMMA PeopleKeep ==
    ASSUME LearningInv, Look \/ Control \/ Regeneralize \/ SwitchLearning
    PROVE  LearningInv'
  <1>1. /\ LearningTypeOK /\ skill \in Row /\ version \in Seq(VersionRow) /\ DistTyped
        /\ skill.rev \in Nat /\ skill.rev + 1 \in Nat \ {0}
        /\ skill.active \in Nat /\ skill.active <= Len(version)
        /\ view \in Row /\ halted \in BOOLEAN /\ Len(version) \in Nat
        /\ allowance["controls"] \in Nat
        /\ allowance \in [{"controls", "uses", "toggles", "faults"} -> Nat]
    BY DEF LearningInv, LearningTypeOK, Row, DistTyped
  <1>2. CASE Look
    <2>1. view' = skill /\ UNCHANGED <<skill, version, dist, bench, curator, halted, allowance>>
      BY <1>2 DEF Look
    <2>2. Onward /\ DistTyped' /\ Len(version) <= Len(version')
      BY <1>1, <2>1, NothingDone DEF DistTyped
    <2> QED BY <1>1, <2>1, <2>2, RowKeeps
  <1>3. CASE Control
    <2>1. PICK to \in Commands : skill' = Commanded(to)
      BY <1>3 DEF Control
    <2>2. /\ skill.there /\ Charge("controls")
          /\ UNCHANGED <<version, dist, bench, curator, view, halted>>
      BY <1>3 DEF Control
    <2>3. /\ allowance' \in [{"controls", "uses", "toggles", "faults"} -> Nat]
          /\ allowance'["controls"] = allowance["controls"] - 1
      BY <1>1, <2>2, ChargeFacts
    <2>4. /\ skill' \in Row /\ skill'.there /\ skill'.rev = skill.rev + 1
          /\ skill'.active <= Len(version') /\ (skill.active # 0 => skill'.active # 0)
      BY <2>1, <2>2, CommandFacts
    <2>5. Onward /\ DistTyped' /\ Len(version) <= Len(version')
      BY <1>1, <2>2, <2>3, <2>4 DEF Onward, DistTyped
    <2> QED BY <1>1, <2>2, <2>3, <2>4, <2>5, RowKeeps
  <1>4. CASE Regeneralize
    <2>1. PICK scan \in Scan :
            /\ Added(version, skill.active, scan, skill.rev + 1)
            /\ IF scan = "pass" THEN Charge("controls") ELSE UNCHANGED allowance
      BY <1>4 DEF Regeneralize
    <2>2. UNCHANGED <<dist, bench, curator, view, halted>>
      BY <1>4 DEF Regeneralize
    <2>3. /\ allowance' \in [{"controls", "uses", "toggles", "faults"} -> Nat]
          /\ \/ allowance'["controls"] = allowance["controls"]
             \/ scan = "pass" /\ allowance'["controls"] = allowance["controls"] - 1
      BY <1>1, <2>1, ChargeFacts
    <2>4. /\ Onward /\ skill' \in Row /\ version' \in Seq(VersionRow)
          /\ Len(version) <= Len(version') /\ skill'.active <= Len(version') /\ skill'.there
      BY <1>1, <2>1, <2>3, AddedKeeps
    <2>5. DistTyped'
      BY <1>1, <2>2 DEF DistTyped
    <2> QED BY <1>1, <2>2, <2>3, <2>4, <2>5, RowKeeps
  <1>5. CASE SwitchLearning
    <2>1. /\ Charge("toggles") /\ halted' = ~halted
          /\ UNCHANGED <<skill, version, dist, bench, curator, view>>
      BY <1>5 DEF SwitchLearning
    <2>2. /\ allowance' \in [{"controls", "uses", "toggles", "faults"} -> Nat]
          /\ allowance'["controls"] = allowance["controls"]
      BY <1>1, <2>1, ChargeFacts
    <2>3. Onward /\ DistTyped' /\ Len(version) <= Len(version') /\ halted' \in BOOLEAN
      BY <1>1, <2>1, <2>2, NothingDone DEF DistTyped
    <2> QED BY <1>1, <2>1, <2>2, <2>3, RowKeeps
  <1> QED BY <1>2, <1>3, <1>4, <1>5

-----------------------------------------------------------------------------
LEMMA LearningStarts == LearningInit => LearningInv
  <1> SUFFICES ASSUME LearningInit PROVE LearningInv
    OBVIOUS
  <1>1. PICK s \in Start : skill = s.row /\ version = s.versions
    BY DEF LearningInit
  <1>2. /\ skill \in Row /\ version \in Seq(VersionRow) /\ skill.active <= Len(version)
        /\ ~skill.there => skill = NoSkill
    BY <1>1, LearningAssumption
  <1>3. bench = [d \in Distiller |-> AtRest] /\ curator = AtRest /\ AtRest.stage # "works"
    BY DEF LearningInit, AtRest
  <1>4. DistTyped
    BY DEF LearningInit, DistTyped
  <1>5. allowance \in [{"controls", "uses", "toggles", "faults"} -> Nat]
    <2>1. allowance = [controls |-> MaxControls, uses |-> MaxUses,
                       toggles |-> MaxSwitches, faults |-> MaxFailures]
      BY DEF LearningInit
    <2> QED BY <2>1, LearningAssumption
  <1>6. view \in Row /\ halted \in BOOLEAN
    BY <1>2 DEF LearningInit
  <1>7. LearningTypeOK
    BY <1>2, <1>3, <1>4, <1>5, <1>6 DEF LearningTypeOK, DistTyped
  <1> QED BY <1>2, <1>3, <1>7 DEF LearningInv, SeenInv

LEMMA LearningStep == LearningInv /\ [LearningNext]_learningVars => LearningInv'
  <1> SUFFICES ASSUME LearningInv, [LearningNext]_learningVars PROVE LearningInv'
    OBVIOUS
  <1>1. CASE UNCHANGED learningVars
    <2>1. LearningTypeOK'
      BY <1>1 DEF LearningInv, LearningTypeOK, learningVars
    <2> QED BY <1>1, <2>1 DEF LearningInv, learningVars, SeenInv
  <1>2. CASE \E d \in Distiller, e \in Episode : ClaimEpisode(d, e)
    BY <1>2, ClaimKeeps
  <1>3. CASE \E d \in Distiller : Complete(d)
    BY <1>3, CompleteKeeps
  <1>4. CASE \E d \in Distiller : DistillerFails(d) \/ ReportFailure(d) \/ DistillerCrash(d)
    BY <1>4, DistillerFailsKeeps, ReportKeeps, DistillerCrashKeeps
  <1>5. CASE \E e \in Episode : LeaseEnds(e)
    BY <1>5, LeaseEndsKeeps
  <1>6. CASE CuratorReads \/ CuratorDone
    BY <1>6, CuratorReadsKeeps, CuratorDoneKeeps
  <1>7. CASE Look \/ Control \/ Regeneralize \/ SwitchLearning
    BY <1>7, PeopleKeep
  <1> QED BY <1>1, <1>2, <1>3, <1>4, <1>5, <1>6, <1>7 DEF LearningNext

\* A row that does not exist is the blank one, and whoever read a row with an active
\* version can count the commands that were given since in its revision.
THEOREM LearningInvariant == LearningSpec => []LearningInv
  BY LearningStarts, LearningStep, PTL DEF LearningSpec

-----------------------------------------------------------------------------
(* Who writes the row.                                                      *)

\* The row is written by a command or by somebody whose compare succeeds.
LEMMA WhoWrites ==
    ASSUME LearningInv, LearningNext, skill' # skill
    PROVE  \/ allowance'["controls"] # allowance["controls"]
           \/ ~Controlled /\ skill'.rev <= skill.rev
           \/ \E a \in {curator} \cup {bench[d] : d \in Distiller} :
                a.stage = "works" /\ Patchable(a.seen)
  <1>1. /\ LearningTypeOK /\ allowance["controls"] \in Nat /\ skill.rev \in Nat /\ skill.rev >= 1
        /\ allowance \in [{"controls", "uses", "toggles", "faults"} -> Nat]
    BY DEF LearningInv, LearningTypeOK, Row
  <1>2. ASSUME NEW d \in Distiller, NEW e \in Episode, ClaimEpisode(d, e) PROVE FALSE
    BY <1>2 DEF ClaimEpisode
  <1>3. ASSUME NEW d \in Distiller,
               DistillerFails(d) \/ ReportFailure(d) \/ DistillerCrash(d)
        PROVE  FALSE
    BY <1>3 DEF DistillerFails, ReportFailure, DistillerCrash
  <1>4. ASSUME NEW e \in Episode, LeaseEnds(e) PROVE FALSE
    BY <1>4 DEF LeaseEnds
  <1>5. ASSUME CuratorReads \/ Look \/ SwitchLearning PROVE FALSE
    BY <1>5 DEF CuratorReads, Look, SwitchLearning
  <1>6. ASSUME NEW d \in Distiller, Complete(d)
        PROVE  \/ ~Controlled /\ skill'.rev <= skill.rev
               \/ bench[d].stage = "works" /\ Patchable(bench[d].seen)
    <2>1. bench[d].stage = "works"
      BY <1>6 DEF Complete
    <2>2. ASSUME Creatable, NEW scan \in Scan, Added(version, 0, scan, 1)
          PROVE  ~Controlled /\ skill'.rev <= skill.rev
      <3>1. ~Controlled
        BY <2>2 DEF Creatable, LearningInv, Controlled, NoSkill
      <3>2. skill'.rev = IF scan = "pass" THEN 1 ELSE skill.rev
        BY <2>2 DEF Added
      <3> QED BY <1>1, <3>1, <3>2
    <2> QED BY <1>6, <2>1, <2>2 DEF Complete
  <1>7. ASSUME CuratorDone PROVE curator.stage = "works" /\ Patchable(curator.seen)
    BY <1>1, <1>7, DeskFacts DEF CuratorDone
  <1>8. ASSUME Control \/ Regeneralize
        PROVE  \/ allowance'["controls"] # allowance["controls"]
               \/ ~Controlled /\ skill'.rev <= skill.rev
    <2>1. CASE Charge("controls")
      <3>1. allowance'["controls"] = allowance["controls"] - 1
        BY <1>1, <2>1, ChargeFacts
      <3> QED BY <1>1, <3>1
    <2>2. ASSUME Regeneralize, NEW scan \in Scan, scan # "pass",
                 Added(version, skill.active, scan, skill.rev + 1)
          PROVE  ~Controlled /\ skill'.rev <= skill.rev
      <3>1. ~Controlled
        BY <2>2 DEF Regeneralize, Patchable
      <3>2. skill'.rev = skill.rev
        BY <2>2 DEF Added
      <3> QED BY <1>1, <3>1, <3>2
    <2> QED BY <1>8, <2>1, <2>2 DEF Control, Regeneralize
  <1>9. \A d \in Distiller : bench[d] \in {bench[c] : c \in Distiller}
    OBVIOUS
  <1> QED BY <1>2, <1>3, <1>4, <1>5, <1>6, <1>7, <1>8, <1>9 DEF LearningNext

\* However a person's command falls between a worker's reading and its writing, what
\* it pinned, disabled or archived is changed by people alone.
THEOREM PeopleHaveTheLastWord == LearningSpec => ControlledIsLeftAlone
  <1>1. LearningInv /\ [LearningNext]_learningVars
        => [Controlled /\ allowance'.controls = allowance.controls => skill' = skill]_learningVars
    <2> SUFFICES ASSUME LearningInv, LearningNext, Controlled, skill' # skill,
                        allowance'["controls"] = allowance["controls"]
                 PROVE  FALSE
      OBVIOUS
    <2> QED BY WhoWrites DEF Patchable
  <1> QED BY <1>1, LearningInvariant, PTL DEF LearningSpec, ControlledIsLeftAlone

\* The compare of active version and revision tells that no command came between,
\* for any number of commands, although a recovered slug starts again at revision 1.
THEOREM CompareSuffices == LearningSpec => NothingCameBetween
  <1>1. LearningInv /\ [LearningNext]_learningVars
        => [/\ skill'.rev > skill.rev
            /\ allowance'.controls = allowance.controls
            => \E a \in {curator} \cup {bench[d] : d \in Distiller} :
                 a.stage = "works" /\ a.seen.left = allowance.controls]_learningVars
    <2> SUFFICES ASSUME LearningInv, LearningNext, skill'.rev > skill.rev,
                        allowance'["controls"] = allowance["controls"]
                 PROVE  \E a \in {curator} \cup {bench[d] : d \in Distiller} :
                          a.stage = "works" /\ a.seen.left = allowance["controls"]
      OBVIOUS
    <2>1. LearningTypeOK /\ LearningInv'
      BY LearningStep DEF LearningInv
    <2>2. /\ skill.rev \in Nat /\ skill'.rev \in Nat /\ allowance["controls"] \in Nat
          /\ skill' # skill
      BY <2>1 DEF LearningInv, LearningTypeOK, Row
    <2>3. PICK a \in {curator} \cup {bench[d] : d \in Distiller} :
            a.stage = "works" /\ Patchable(a.seen)
      BY <2>2, WhoWrites
    <2>4. a.seen \in SeenRow /\ SeenInv(a)
      BY <2>1, <2>3, DeskFacts DEF LearningInv, Author, Judge
    <2>5. /\ a.seen.row.active # 0 /\ a.seen.row.rev = skill.rev
          /\ a.seen.left \in Nat
      BY <2>3, <2>4 DEF Patchable, Matches, SeenRow
    <2>6. a.seen.row.rev + (a.seen.left - allowance["controls"]) <= skill.rev
          /\ allowance["controls"] <= a.seen.left
      BY <2>3, <2>4, <2>5 DEF SeenInv
    <2>7. a.seen.left = allowance["controls"]
      BY <2>2, <2>5, <2>6
    <2> QED BY <2>3, <2>7
  <1> QED BY <1>1, LearningInvariant, PTL DEF LearningSpec, NothingCameBetween
=============================================================================
