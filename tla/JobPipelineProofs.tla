-------------------------- MODULE JobPipelineProofs --------------------------
(***************************************************************************)
(* What holds of Core's tool_run rows for any number of jobs, of requests  *)
(* and of callers that poll, and for any number of crashes of Core and     *)
(* stops of the worker.                                                    *)
(***************************************************************************)
EXTENDS JobPipeline, TLAPS

ReqType == {Idle} \union [pc : Waiting, job : Job, corr : Corr, replay : BOOLEAN]
PollType == {Idle} \union [pc : {"query", "write", "reap", "fetch", "freeze"},
                          kind : {"status", "evidence"}, job : Job,
                          open : BOOLEAN, snap : WorkerState]
-----------------------------------------------------------------------------
(* The handlers of POST /jobs.                                              *)

LEMMA SubmitTxStep ==
    ASSUME PipelineInv, NEW r \in Request, NEW j \in Job, NEW c \in Corr, SubmitTx(r, j, c)
    PROVE  PipelineInv'
  <1> USE DEF PipelineInv
  <1>1. /\ req[r] = Idle /\ wire[r] = "none"
        /\ req' = [req EXCEPT ![r] = [pc |-> "committed", job |-> j, corr |-> c,
                                      replay |-> row[j] # "absent"]]
        /\ row' = [row EXCEPT ![j] = IF @ = "absent" THEN "submitted" ELSE @]
        /\ UNCHANGED <<worker, frozen, aged, wire, poll, faults>>
    BY DEF SubmitTx, RequestsAndRows, TypeOK
  <1>2. TypeOK'
    BY <1>1 DEF TypeOK, worker, Waiting, ToolRunState
  <1>3. WorkerIsShown' /\ CarriedIsShown' /\ EvidenceBacked'
    BY <1>1 DEF WorkerIsShown, CarriedIsShown, EvidenceBacked, worker
  <1>4. RequestsAndRows'
    BY <1>1 DEF RequestsAndRows, For, TypeOK, Idle
  <1>5. NoInventedOutcome'
    BY <1>1 DEF NoInventedOutcome, TypeOK, worker, Terminal
  <1>6. ReapedIsGone'
    BY <1>1 DEF ReapedIsGone, For, TypeOK, worker
  <1> QED BY <1>2, <1>3, <1>4, <1>5, <1>6

\* A handler that goes on: its request stays for the same job and is neither begun
\* anew nor forgotten, and the call is under way only if the handler just made it.
LEMMA HandlerStep ==
    ASSUME PipelineInv, NEW r \in Request,
           Dispatch(r) \/ Answered(r) \/ NoAnswer(r) \/ Compensate(r)
    PROVE  PipelineInv'
  <1> USE DEF PipelineInv
  <1>1. /\ req[r] # Idle /\ req[r].pc # "done"
        /\ \E pc \in {"waiting", "failing", "done"} : req' = [req EXCEPT ![r].pc = pc]
        /\ \E w \in {"none", "flying", wire[r]} : wire' = [wire EXCEPT ![r] = w]
        /\ \/ row' = row
           \/ row' = [row EXCEPT ![req[r].job] = IF @ = "submitted" THEN "failed" ELSE @]
        /\ UNCHANGED <<worker, frozen, aged, poll, faults>>
    <2>1. CASE Dispatch(r)
      BY <2>1 DEF Dispatch, Idle, table
    <2>2. CASE Answered(r)
      <3>1. /\ req[r].pc = "waiting" /\ UNCHANGED <<worker, row, frozen, aged, poll, faults>>
            /\ wire' = [wire EXCEPT ![r] = "none"]
            /\ \/ req' = [req EXCEPT ![r].pc = "done"]
               \/ req' = [req EXCEPT ![r].pc = "failing"]
        BY <2>2 DEF Answered, table
      <3> QED BY <3>1 DEF Idle
    <2>3. CASE NoAnswer(r)
      <3>1. /\ req[r].pc = "waiting" /\ UNCHANGED <<worker, row, frozen, aged, poll, faults>>
            /\ req' = [req EXCEPT ![r].pc = "failing"]
            /\ \/ wire' = [wire EXCEPT ![r] = wire[r]]
               \/ wire' = [wire EXCEPT ![r] = "none"]
        BY <2>3 DEF NoAnswer, table
      <3> QED BY <3>1 DEF Idle
    <2>4. CASE Compensate(r)
      <3>1. wire' = [wire EXCEPT ![r] = wire[r]]
        BY <2>4 DEF Compensate, TypeOK
      <3>2. /\ req[r].pc = "failing" /\ UNCHANGED <<worker, frozen, aged, poll, faults>>
            /\ req' = [req EXCEPT ![r].pc = "done"]
            /\ row' = [row EXCEPT ![req[r].job] = IF @ = "submitted" THEN "failed" ELSE @]
        BY <2>4 DEF Compensate
      <3> QED BY <3>1, <3>2 DEF Idle
    <2> QED BY <2>1, <2>2, <2>3, <2>4
  <1>2. req[r] \in [pc : Waiting, job : Job, corr : Corr, replay : BOOLEAN]
    BY <1>1 DEF TypeOK
  <1>3. req' \in [Request -> ReqType] /\ req'[r] = [req[r] EXCEPT !.pc = req'[r].pc]
        /\ req'[r].pc \in Waiting /\ \A q \in Request \ {r} : req'[q] = req[q]
    BY <1>1, <1>2 DEF ReqType, TypeOK, Waiting
  <1>4. \A q \in Request, j \in Job :
            /\ For(q, j)' <=> For(q, j)
            /\ req[q] # Idle => req'[q] # Idle /\ req'[q].replay = req[q].replay
    BY <1>2, <1>3 DEF For, Idle, Waiting
  <1>5. TypeOK'
    BY <1>1, <1>2, <1>3 DEF TypeOK, ReqType, worker, ToolRunState
  <1>6. WorkerIsShown' /\ CarriedIsShown' /\ EvidenceBacked'
    BY <1>1 DEF WorkerIsShown, CarriedIsShown, EvidenceBacked, worker
  <1>7. RequestsAndRows'
    <2>1. \A q \in Request : wire'[q] # "none" => req'[q] # Idle
      BY <1>1, <1>4 DEF RequestsAndRows, TypeOK
    <2>2. \A j \in Job : row[j] # "absent" <=> row'[j] # "absent"
      BY <1>1, <1>2 DEF TypeOK
    <2>3. \A j \in Job : For(r, j) => ~aged[j] \/ req[r].replay
      BY <1>1 DEF RequestsAndRows
    <2> QED BY <1>1, <1>3, <1>4, <2>1, <2>2, <2>3 DEF RequestsAndRows, For, TypeOK
  <1>8. NoInventedOutcome'
    BY <1>1 DEF NoInventedOutcome, TypeOK, worker
  <1>9. ReapedIsGone'
    BY <1>1, <1>4 DEF ReapedIsGone, TypeOK, worker, For
  <1> QED BY <1>5, <1>6, <1>7, <1>8, <1>9
-----------------------------------------------------------------------------
(* The handlers of GET /jobs.                                               *)

\* A handler of a caller that goes on, without touching a row.
LEMMA AskStep ==
    ASSUME PipelineInv, NEW p \in Poller,
           \/ \E j \in Job, kind \in {"status", "evidence"} : Read(p, j, kind)
           \/ Query(p) \/ QueryNotFound(p) \/ QueryFails(p) \/ Fetch(p)
    PROVE  PipelineInv'
  <1> USE DEF PipelineInv
  <1>1. UNCHANGED <<worker, table, req, wire, faults>>
    BY DEF Read, Query, QueryNotFound, QueryFails, Fetch
  <1>2. /\ poll' = [poll EXCEPT ![p] = poll'[p]] /\ poll'[p] \in PollType
        /\ poll'[p].pc = "write" =>
             /\ poll'[p].snap # "absent"
             /\ poll'[p].snap \in Terminal => poll'[p].snap \in shown[poll'[p].job]
        /\ poll'[p].pc = "freeze" => shown[poll'[p].job] \intersect Outcome # {}
        /\ poll'[p].pc = "reap" => aged[poll'[p].job] /\ st[poll'[p].job] = "absent"
    <2>1. CASE \E j \in Job, kind \in {"status", "evidence"} : Read(p, j, kind)
      BY <2>1 DEF Read, TypeOK, PollType, WorkerState
    <2>2. CASE Query(p)
      <3> DEFINE j == poll[p].job
      <3>1. poll[p] \in PollType \ {Idle} /\ j \in Job
        BY <2>2 DEF Query, TypeOK, PollType, Idle
      <3>2. st[j] \in WorkerState \ {"absent"}
        BY <2>2, <3>1 DEF Query, TypeOK
      <3>3. poll'[p] = [poll[p] EXCEPT !.pc = "write", !.snap = st[j]]
            /\ poll' = [poll EXCEPT ![p] = poll'[p]]
        BY <2>2 DEF Query, TypeOK
      <3>4. poll'[p] \in PollType /\ poll'[p].pc = "write" /\ poll'[p].snap = st[j]
            /\ poll'[p].job = j
        BY <3>1, <3>2, <3>3 DEF PollType
      <3>5. st[j] \in Terminal => st[j] \in shown[j]
        <4>1. st[j] \in Terminal => st[j] \in WorkerFinal
          BY <3>2 DEF WorkerState, WorkerFinal, Terminal
        <4> QED BY <3>1, <4>1 DEF WorkerIsShown
      <3> QED BY <3>2, <3>3, <3>4, <3>5
    <2>3. CASE QueryNotFound(p)
      BY <2>3 DEF QueryNotFound, TypeOK, PollType, Idle
    <2>4. CASE QueryFails(p)
      BY <2>4 DEF QueryFails, TypeOK, PollType, Idle
    <2>5. CASE Fetch(p)
      <3>1. poll[p] \in PollType \ {Idle} /\ poll[p].job \in Job
        BY <2>5 DEF Fetch, TypeOK, PollType, Idle
      <3>2. poll' = [poll EXCEPT ![p] = poll'[p]]
            /\ poll'[p] = IF ev[poll[p].job] THEN [poll[p] EXCEPT !.pc = "freeze"] ELSE Idle
        BY <2>5 DEF Fetch, TypeOK
      <3>3. CASE ev[poll[p].job]
        <4>1. poll'[p] \in PollType /\ poll'[p].pc = "freeze" /\ poll'[p].job = poll[p].job
          BY <3>1, <3>2, <3>3 DEF PollType
        <4>2. shown[poll[p].job] \intersect Outcome # {}
          BY <3>1, <3>3 DEF WorkerIsShown
        <4> QED BY <3>2, <4>1, <4>2
      <3>4. CASE ~ev[poll[p].job]
        BY <3>2, <3>4 DEF PollType, Idle
      <3> QED BY <3>3, <3>4
    <2> QED BY <2>1, <2>2, <2>3, <2>4, <2>5
  <1>3. TypeOK'
    BY <1>1, <1>2 DEF TypeOK, PollType, worker, table
  <1>4. CarriedIsShown'
    BY <1>1, <1>2 DEF CarriedIsShown, TypeOK, worker, table
  <1>5. ReapedIsGone'
    BY <1>1, <1>2 DEF ReapedIsGone, TypeOK, For, worker, table
  <1>6. WorkerIsShown' /\ RequestsAndRows' /\ NoInventedOutcome' /\ EvidenceBacked'
    BY <1>1 DEF WorkerIsShown, RequestsAndRows, For, NoInventedOutcome, EvidenceBacked,
                worker, table
  <1> QED BY <1>3, <1>4, <1>5, <1>6

\* A handler that ends, or is not needed any more, of a caller.
LEMMA CallerRests ==
    ASSUME TypeOK, CarriedIsShown, ReapedIsGone, NEW p \in Poller,
           UNCHANGED <<worker, aged, req>>, poll' = [poll EXCEPT ![p] = poll'[p]],
           poll'[p] \in PollType, poll'[p].pc \in {"idle", "fetch"}
    PROVE  CarriedIsShown' /\ ReapedIsGone'
           /\ poll' \in [Poller -> PollType]
  <1>1. \A q \in Poller \ {p} : poll'[q] = poll[q]
    BY DEF TypeOK
  <1>2. CarriedIsShown'
    BY <1>1 DEF CarriedIsShown, worker
  <1>3. ReapedIsGone'
    BY <1>1 DEF ReapedIsGone, For, worker
  <1>4. poll' \in [Poller -> PollType]
    BY DEF TypeOK, PollType
  <1> QED BY <1>2, <1>3, <1>4

LEMMA IdleRests == Idle \in PollType /\ Idle.pc \in {"idle", "fetch"}
  BY DEF PollType, Idle

LEMMA WriteStep ==
    ASSUME PipelineInv, NEW p \in Poller, Write(p)
    PROVE  PipelineInv'
  <1> USE DEF PipelineInv
  <1> DEFINE j == poll[p].job
  <1>1. /\ poll[p].pc = "write" /\ row' = [row EXCEPT ![j] = poll[p].snap]
        /\ UNCHANGED <<worker, frozen, aged, req, wire, faults>>
    BY DEF Write
  <1>2. poll[p] \in PollType \ {Idle} /\ j \in Job /\ poll[p].snap \in WorkerState \ {"absent"}
    BY <1>1 DEF TypeOK, PollType, Idle, CarriedIsShown
  <1>3. poll[p].snap \in Terminal => poll[p].snap \in shown[j]
    BY <1>1 DEF CarriedIsShown
  <1>4. /\ poll' = [poll EXCEPT ![p] = poll'[p]]
        /\ poll'[p] \in PollType /\ poll'[p].pc \in {"idle", "fetch"}
    <2>1. poll' = [poll EXCEPT ![p] = IF poll[p].kind = "evidence" /\ poll[p].snap \in Terminal
                                      THEN [poll[p] EXCEPT !.pc = "fetch"] ELSE Idle]
      BY DEF Write, TypeOK
    <2>2. [poll[p] EXCEPT !.pc = "fetch"] \in PollType
      BY <1>2 DEF PollType
    <2> QED BY <1>2, <2>1, <2>2 DEF TypeOK, PollType, Idle
  <1>5. CarriedIsShown' /\ ReapedIsGone' /\ poll' \in [Poller -> PollType]
    BY <1>1, <1>4, CallerRests
  <1>6. TypeOK'
    <2>1. WorkerState \subseteq ToolRunState \union {"absent"}
      BY DEF WorkerState, WorkerFinal, Terminal, ToolRunState
    <2>2. row' \in [Job -> ToolRunState \union {"absent"}]
      BY <1>1, <1>2, <2>1 DEF TypeOK
    <2> QED BY <1>1, <1>5, <2>2 DEF TypeOK, PollType, worker
  <1>7. RequestsAndRows'
    BY <1>1, <1>2 DEF RequestsAndRows, For, TypeOK
  <1>8. NoInventedOutcome'
    BY <1>1, <1>2, <1>3 DEF NoInventedOutcome, TypeOK, worker
  <1>9. WorkerIsShown' /\ EvidenceBacked'
    BY <1>1 DEF WorkerIsShown, EvidenceBacked, worker
  <1> QED BY <1>5, <1>6, <1>7, <1>8, <1>9

LEMMA ReapStep ==
    ASSUME PipelineInv, NEW p \in Poller, Reap(p)
    PROVE  PipelineInv'
  <1> USE DEF PipelineInv
  <1> DEFINE j == poll[p].job
  <1>1. /\ poll[p].pc = "reap" /\ poll' = [poll EXCEPT ![p] = Idle]
        /\ row' = [row EXCEPT ![j] = IF @ \in {"succeeded", "failed", "cancelled"}
                                     THEN @ ELSE "failed"]
        /\ UNCHANGED <<worker, frozen, aged, req, wire, faults>>
    BY DEF Reap
  <1>2. poll[p] # Idle /\ j \in Job
    BY <1>1 DEF TypeOK, Idle
  <1>3. poll' = [poll EXCEPT ![p] = poll'[p]] /\ poll'[p] = Idle
    BY <1>1 DEF TypeOK
  <1>4. CarriedIsShown' /\ ReapedIsGone' /\ poll' \in [Poller -> PollType]
    BY <1>1, <1>3, IdleRests, CallerRests
  <1>5. TypeOK'
    <2>1. row' \in [Job -> ToolRunState \union {"absent"}]
      BY <1>1 DEF TypeOK, ToolRunState
    <2> QED BY <1>1, <1>4, <2>1 DEF TypeOK, PollType, worker
  <1>6. RequestsAndRows'
    BY <1>1, <1>2 DEF RequestsAndRows, For, TypeOK
  <1>7. NoInventedOutcome'
    BY <1>1, <1>2 DEF NoInventedOutcome, TypeOK, worker
  <1>8. WorkerIsShown' /\ EvidenceBacked'
    BY <1>1 DEF WorkerIsShown, EvidenceBacked, worker
  <1> QED BY <1>4, <1>5, <1>6, <1>7, <1>8

LEMMA FreezeStep ==
    ASSUME PipelineInv, NEW p \in Poller, Freeze(p)
    PROVE  PipelineInv'
  <1> USE DEF PipelineInv
  <1> DEFINE j == poll[p].job
  <1>1. /\ poll[p].pc = "freeze" /\ poll' = [poll EXCEPT ![p] = Idle]
        /\ frozen' = [frozen EXCEPT ![j] = TRUE]
        /\ UNCHANGED <<worker, row, aged, req, wire, faults>>
    BY DEF Freeze
  <1>2. poll' = [poll EXCEPT ![p] = poll'[p]] /\ poll'[p] = Idle
    BY <1>1 DEF TypeOK
  <1>3. CarriedIsShown' /\ ReapedIsGone' /\ poll' \in [Poller -> PollType]
    BY <1>1, <1>2, IdleRests, CallerRests
  <1>4. TypeOK'
    BY <1>1, <1>3 DEF TypeOK, PollType, worker
  <1>5. EvidenceBacked'
    <2>1. shown[j] \intersect Outcome # {}
      BY <1>1 DEF CarriedIsShown
    <2> QED BY <1>1, <2>1 DEF EvidenceBacked, TypeOK, worker
  <1>6. WorkerIsShown' /\ RequestsAndRows' /\ NoInventedOutcome'
    BY <1>1 DEF WorkerIsShown, RequestsAndRows, For, NoInventedOutcome, worker
  <1> QED BY <1>3, <1>4, <1>5, <1>6
-----------------------------------------------------------------------------
(* The call to the worker, the worker itself, time, and crashes of Core.    *)

\* A call that does not reach the worker's registry.
LEMMA CallEndsStep ==
    ASSUME PipelineInv, NEW r \in Request, Refuse(r) \/ Lose(r)
    PROVE  PipelineInv'
  <1> USE DEF PipelineInv
  <1>1. /\ wire[r] = "flying" /\ UNCHANGED <<worker, table, req, poll, faults>>
        /\ \E w \in {"none", "refused"} : wire' = [wire EXCEPT ![r] = w]
    BY DEF Refuse, Lose
  <1>2. TypeOK'
    BY <1>1 DEF TypeOK, worker, table
  <1>3. RequestsAndRows'
    BY <1>1 DEF RequestsAndRows, For, TypeOK, table
  <1>4. WorkerIsShown' /\ CarriedIsShown' /\ EvidenceBacked' /\ NoInventedOutcome'
        /\ ReapedIsGone'
    BY <1>1 DEF WorkerIsShown, CarriedIsShown, EvidenceBacked, NoInventedOutcome,
                ReapedIsGone, For, worker, table
  <1> QED BY <1>2, <1>3, <1>4

\* A call that makes the worker know a job the reaper has in hand is a replay's.
LEMMA DeliverStep ==
    ASSUME PipelineInv, NEW r \in Request, Deliver(r)
    PROVE  PipelineInv'
  <1> USE DEF PipelineInv
  <1> DEFINE j == req[r].job
  <1>1. /\ wire[r] = "flying" /\ UNCHANGED <<shown, table, req, poll, faults>>
        /\ wire' = [wire EXCEPT ![r] = wire'[r]]
        /\ wire'[r] \in {"none", "accepted", "refused"}
    BY DEF Deliver, TypeOK
  <1>2. req[r] # Idle /\ j \in Job /\ req[r].corr \in Corr /\ For(r, j)
    BY <1>1 DEF RequestsAndRows, TypeOK, Idle, For
  <1>3. \/ UNCHANGED <<up, st, ev, rq>>
        \/ /\ st[j] = "absent" /\ st' = [st EXCEPT ![j] = "submitted"]
           /\ rq' = [rq EXCEPT ![j] = req[r].corr] /\ UNCHANGED <<up, ev>>
    BY DEF Deliver, Accept
  <1>4. TypeOK'
    BY <1>1, <1>2, <1>3 DEF TypeOK, table, WorkerState
  <1>5. WorkerIsShown'
    BY <1>1, <1>2, <1>3 DEF WorkerIsShown, TypeOK, WorkerFinal, Terminal
  <1>6. RequestsAndRows'
    BY <1>1 DEF RequestsAndRows, For, TypeOK, table
  <1>7. CarriedIsShown' /\ EvidenceBacked' /\ NoInventedOutcome'
    BY <1>1 DEF CarriedIsShown, EvidenceBacked, NoInventedOutcome, table
  <1>8. ReapedIsGone'
    <2> SUFFICES ASSUME NEW p \in Poller, poll[p].pc = "reap"
                 PROVE  \/ st'[poll[p].job] = "absent"
                        \/ \E q \in Request : For(q, poll[p].job) /\ req[q].replay
      BY <1>1 DEF ReapedIsGone, For
    <2>1. poll[p].job \in Job /\ aged[poll[p].job]
      BY DEF CarriedIsShown, TypeOK, Idle
    <2>2. CASE poll[p].job = j
      BY <1>1, <1>2, <2>1, <2>2 DEF RequestsAndRows
    <2>3. CASE poll[p].job # j
      BY <1>2, <1>3, <2>1, <2>3 DEF ReapedIsGone, TypeOK
    <2> QED BY <2>2, <2>3
  <1> QED BY <1>4, <1>5, <1>6, <1>7, <1>8

\* The worker forgets no job it shows, shows none it has not accepted, and publishes
\* evidence of an outcome only.
LEMMA WorkerGoesOn ==
    ASSUME TypeOK, WorkerStep
    PROVE  /\ up' \in BOOLEAN /\ st' \in [Job -> WorkerState] /\ ev' \in [Job -> BOOLEAN]
           /\ \A j \in Job : /\ st[j] = "absent" => st'[j] = "absent"
                             /\ ev'[j] => ev[j] \/ st'[j] \in Outcome
  <1> DEFINE Fine == /\ up' \in BOOLEAN /\ st' \in [Job -> WorkerState]
                     /\ ev' \in [Job -> BOOLEAN]
                     /\ \A j \in Job : /\ st[j] = "absent" => st'[j] = "absent"
                                       /\ ev'[j] => ev[j] \/ st'[j] \in Outcome
  <1>1. Outcome \subseteq WorkerState /\ "absent" \notin Live \union Outcome
        /\ {"submitted", "running", "cancelling", "cancelled", "failed"} \subseteq WorkerState
    BY DEF Outcome, WorkerState, WorkerFinal, Terminal, Live
  <1>2. ASSUME NEW j \in Job,
               Start(j) \/ Cancel(j) \/ Cancelled(j) \/ FailToStart(j) \/ TakeBack(j)
        PROVE  Fine
    <2>1. /\ st[j] # "absent" /\ UNCHANGED <<up, ev>>
          /\ \E s \in {"submitted", "running", "cancelling", "cancelled", "failed"} :
               st' = [st EXCEPT ![j] = s]
          /\ ev[j] => ev[j]
      BY <1>1, <1>2 DEF Start, Cancel, Cancelled, FailToStart, TakeBack
    <2> QED BY <1>1, <2>1 DEF TypeOK
  <1>3. ASSUME NEW j \in Job, Publish(j)
        PROVE  Fine
    BY <1>3 DEF Publish, TypeOK
  <1>4. ASSUME NEW j \in Job, NEW o \in Results, NEW e \in BOOLEAN, End(j, o, e)
        PROVE  Fine
    <2>1. o \in Outcome
      BY BoundAssumption
    <2> QED BY <1>1, <1>4, <2>1 DEF End, TypeOK
  <1>5. CASE Stop
    BY <1>5 DEF Stop, TypeOK
  <1>6. CASE Resume
    <2>1. \A j \in Job : MayRemember(st[j], ev[j], st'[j], ev'[j])
      BY <1>6 DEF Resume
    <2>2. ASSUME NEW j \in Job
          PROVE  /\ st[j] = "absent" => st'[j] = "absent"
                 /\ ev'[j] => ev[j] \/ st'[j] \in Outcome
      BY <2>1 DEF MayRemember, WorkerFinal, Terminal
    <2> QED BY <1>6, <2>2 DEF Resume
  <1> QED BY <1>2, <1>3, <1>4, <1>5, <1>6 DEF WorkerStep, Ends

LEMMA WorkerStepStep ==
    ASSUME PipelineInv, WorkerStep
    PROVE  PipelineInv'
  <1> USE DEF PipelineInv
  <1>1. /\ shown' = [j \in Job |-> shown[j] \union ({st'[j]} \intersect WorkerFinal)]
        /\ rq' = [j \in Job |-> IF st'[j] = "absent" THEN NoCorr ELSE rq[j]]
        /\ faults' \in {faults, faults + 1}
        /\ UNCHANGED <<table, req, wire, poll>>
    BY DEF WorkerStep
  <1>2. /\ up' \in BOOLEAN /\ st' \in [Job -> WorkerState] /\ ev' \in [Job -> BOOLEAN]
        /\ \A j \in Job : /\ st[j] = "absent" => st'[j] = "absent"
                          /\ ev'[j] => ev[j] \/ st'[j] \in Outcome
    BY WorkerGoesOn
  <1>3. \A j \in Job : shown[j] \subseteq shown'[j]
    BY <1>1
  <1>4. TypeOK'
    <2>1. shown' \in [Job -> SUBSET WorkerFinal] /\ rq' \in [Job -> Corr \union {NoCorr}]
          /\ faults' \in Nat
      BY <1>1 DEF TypeOK
    <2> QED BY <1>1, <1>2, <2>1 DEF TypeOK, table
  <1>5. WorkerIsShown'
    <2>1. Outcome \subseteq WorkerFinal
      BY DEF Outcome, WorkerFinal, Terminal
    <2>2. ASSUME NEW j \in Job
          PROVE  /\ st'[j] \in WorkerFinal => st'[j] \in shown'[j]
                 /\ ev'[j] => shown'[j] \intersect Outcome # {}
      BY <1>1, <1>2, <1>3, <2>1 DEF WorkerIsShown
    <2> QED BY <2>2 DEF WorkerIsShown
  <1>6. CarriedIsShown'
    <2> SUFFICES ASSUME NEW p \in Poller
                 PROVE  /\ poll[p].pc = "write" =>
                             /\ poll[p].snap # "absent"
                             /\ poll[p].snap \in Terminal => poll[p].snap \in shown'[poll[p].job]
                        /\ poll[p].pc = "freeze" => shown'[poll[p].job] \intersect Outcome # {}
                        /\ poll[p].pc = "reap" => aged[poll[p].job]
      BY <1>1 DEF CarriedIsShown, table
    <2>1. poll[p] # Idle => poll[p].job \in Job
      BY DEF TypeOK, Idle
    <2>2. poll[p] = Idle => poll[p].pc \notin {"write", "freeze", "reap"}
      BY DEF Idle
    <2> QED BY <1>3, <2>1, <2>2 DEF CarriedIsShown
  <1>7. RequestsAndRows'
    BY <1>1 DEF RequestsAndRows, For, table
  <1>8. NoInventedOutcome' /\ EvidenceBacked'
    BY <1>1, <1>3 DEF NoInventedOutcome, EvidenceBacked, table
  <1>9. ReapedIsGone'
    <2>1. \A p \in Poller : poll[p].pc = "reap" => poll[p].job \in Job
      BY DEF TypeOK, Idle
    <2> QED BY <1>1, <1>2, <2>1 DEF ReapedIsGone, For
  <1> QED BY <1>4, <1>5, <1>6, <1>7, <1>8, <1>9

LEMMA AgeStep ==
    ASSUME PipelineInv, NEW j \in Job, Age(j)
    PROVE  PipelineInv'
  <1> USE DEF PipelineInv
  <1>1. /\ row[j] # "absent" /\ aged' = [aged EXCEPT ![j] = TRUE]
        /\ \A r \in Request :
             For(r, j) /\ ~req[r].replay => req[r].pc = "done" /\ wire[r] = "none"
        /\ UNCHANGED <<worker, row, frozen, req, wire, poll, faults>>
    BY DEF Age
  <1>2. TypeOK' /\ RequestsAndRows'
    BY <1>1 DEF TypeOK, RequestsAndRows, For, worker
  <1>3. CarriedIsShown'
    <2>1. \A i \in Job : aged[i] => aged'[i]
      BY <1>1 DEF TypeOK
    <2>2. \A p \in Poller : poll[p].pc = "reap" => poll[p].job \in Job
      BY DEF TypeOK, Idle
    <2> QED BY <1>1, <2>1, <2>2 DEF CarriedIsShown, worker
  <1>4. WorkerIsShown' /\ NoInventedOutcome' /\ EvidenceBacked' /\ ReapedIsGone'
    BY <1>1 DEF WorkerIsShown, NoInventedOutcome, EvidenceBacked, ReapedIsGone, For, worker
  <1> QED BY <1>2, <1>3, <1>4

LEMMA CoreCrashStep ==
    ASSUME PipelineInv, CoreCrash
    PROVE  PipelineInv'
  <1> USE DEF PipelineInv
  <1>1. /\ req' = [r \in Request |-> IF InFlight(r) THEN [req[r] EXCEPT !.pc = "done"]
                                     ELSE req[r]]
        /\ wire' = [r \in Request |-> IF wire[r] = "flying" THEN "flying" ELSE "none"]
        /\ poll' = [p \in Poller |-> Idle] /\ faults' = faults + 1
        /\ UNCHANGED <<worker, table>>
    BY DEF CoreCrash
  <1>2. ASSUME NEW r \in Request
        PROVE  /\ req'[r] \in ReqType
               /\ req[r] = Idle => req'[r] = Idle
               /\ req[r] # Idle => /\ req'[r] # Idle /\ req'[r].job = req[r].job
                                   /\ req'[r].replay = req[r].replay
               /\ req[r].pc = "done" => req'[r].pc = "done"
    <2>1. req[r] \in ReqType
      BY DEF TypeOK, ReqType
    <2>2. req'[r] = IF InFlight(r) THEN [req[r] EXCEPT !.pc = "done"] ELSE req[r]
      BY <1>1
    <2>3. InFlight(r) => req[r] # Idle
      BY DEF InFlight, Idle
    <2>4. CASE req[r] = Idle
      BY <2>2, <2>3, <2>4 DEF ReqType
    <2>5. CASE req[r] # Idle
      <3>1. [req[r] EXCEPT !.pc = "done"] \in ReqType \ {Idle}
        BY <2>1, <2>5 DEF ReqType, Waiting, Idle
      <3> QED BY <2>1, <2>2, <2>5, <3>1 DEF ReqType
    <2> QED BY <2>4, <2>5
  <1>3. TypeOK'
    <2>1. req' \in [Request -> ReqType]
      BY <1>1, <1>2
    <2> QED BY <1>1, <2>1 DEF TypeOK, ReqType, worker, table
  <1>4. RequestsAndRows'
    BY <1>1, <1>2 DEF RequestsAndRows, For, table
  <1>5. CarriedIsShown' /\ ReapedIsGone'
    BY <1>1 DEF CarriedIsShown, ReapedIsGone, Idle
  <1>6. WorkerIsShown' /\ NoInventedOutcome' /\ EvidenceBacked'
    BY <1>1 DEF WorkerIsShown, NoInventedOutcome, EvidenceBacked, worker, table
  <1> QED BY <1>3, <1>4, <1>5, <1>6
-----------------------------------------------------------------------------
(* The invariant and what it is for. *)

LEMMA PipelineInvInit == Init => PipelineInv
  <1> SUFFICES ASSUME Init PROVE PipelineInv
    OBVIOUS
  <1>1. TypeOK
    BY DEF Init, ContractInit, TypeOK, WorkerState, ToolRunState
  <1>2. WorkerIsShown
    BY DEF Init, ContractInit, WorkerIsShown, WorkerFinal, Terminal
  <1>3. CarriedIsShown /\ ReapedIsGone /\ EvidenceBacked
    BY DEF Init, CarriedIsShown, ReapedIsGone, EvidenceBacked, Idle
  <1>4. RequestsAndRows
    BY DEF Init, RequestsAndRows, For
  <1>5. NoInventedOutcome
    BY DEF Init, NoInventedOutcome, Terminal
  <1> QED BY <1>1, <1>2, <1>3, <1>4, <1>5 DEF PipelineInv

LEMMA PipelineInvStep == PipelineInv /\ [Next]_vars => PipelineInv'
  <1> SUFFICES ASSUME PipelineInv, [Next]_vars PROVE PipelineInv'
    OBVIOUS
  <1>1. ASSUME NEW r \in Request, Submission(r) PROVE PipelineInv'
    BY <1>1, SubmitTxStep, HandlerStep, DeliverStep, CallEndsStep DEF Submission
  <1>2. ASSUME NEW p \in Poller, NEW j \in Job, NEW kind \in {"status", "evidence"},
               Read(p, j, kind)
        PROVE  PipelineInv'
    BY <1>2, AskStep
  <1>3. ASSUME NEW p \in Poller, PollStep(p) \/ QueryFails(p) PROVE PipelineInv'
    BY <1>3, AskStep, WriteStep, ReapStep, FreezeStep DEF PollStep
  <1>4. CASE WorkerStep
    BY <1>4, WorkerStepStep
  <1>5. ASSUME NEW j \in Job, Age(j) PROVE PipelineInv'
    BY <1>5, AgeStep
  <1>6. CASE CoreCrash
    BY <1>6, CoreCrashStep
  <1>7. CASE UNCHANGED vars
    BY <1>7 DEF vars, worker, table, PipelineInv, TypeOK, WorkerIsShown, CarriedIsShown,
                RequestsAndRows, For, NoInventedOutcome, EvidenceBacked, ReapedIsGone
  <1> QED BY <1>1, <1>2, <1>3, <1>4, <1>5, <1>6, <1>7 DEF Next

\* Core's rows, the handlers under way and the worker agree as PipelineInv says, for
\* any number of jobs, requests and callers and any number of faults.
THEOREM PipelineInvariant == Spec => []PipelineInv
  BY PipelineInvInit, PipelineInvStep, PTL DEF Spec

\* Only "failed" can be Core's own word in tool_run.state: the UPDATEs of the status
\* and evidence handlers write what the worker has really shown.
THEOREM NothingInvented == Spec => []NoInventedOutcome
  <1>1. PipelineInv => NoInventedOutcome
    BY DEF PipelineInv
  <1> QED BY <1>1, PipelineInvariant, PTL

\* tool_run.evidence is only set of a job whose execution ended by itself.
THEOREM FrozenIsBacked == Spec => []EvidenceBacked
  <1>1. PipelineInv => EvidenceBacked
    BY DEF PipelineInv
  <1> QED BY <1>1, PipelineInvariant, PTL

\* The orphan reaper never has in hand a job the worker knows, unless a replay of the
\* submission has brought the job back.
THEOREM ReapsOnlyTheGone == Spec => []ReapedIsGone
  <1>1. PipelineInv => ReapedIsGone
    BY DEF PipelineInv
  <1> QED BY <1>1, PipelineInvariant, PTL
=============================================================================
