--------------------------- MODULE FormalRunProofs ---------------------------
(***************************************************************************)
(* What holds of a formal run for any number of operations, inputs, lost   *)
(* answers, crashes of the runtime, restarts of the connector that forget  *)
(* or lose jobs, and changes of the toolchain: what is frozen as evidence  *)
(* is how the last execution ended, what is submitted for review rests on  *)
(* it, and the flow's memory is true of Core.                              *)
(***************************************************************************)
EXTENDS FormalRun, TLAPS

\* The flow learns of a job at most, or fails.
Modest ==
    /\ progress' \in ProgressType /\ at' \in [pc : Pc, op : Op]
    /\ progress'.input = progress.input /\ progress'.evidence = progress.evidence
    /\ progress'.evaluated = progress.evaluated
    /\ progress'.status \in {progress.status, "failed"}
    /\ progress'.status = "none" => at'.pc = "idle"

-----------------------------------------------------------------------------
(* The flow's answers. *)

LEMMA Ones == 1 \in Op /\ 1 \in Input
  BY FormalAssumption DEF Op, Input

LEMMA Inputs == 0 .. MaxReady = Input \union {0} /\ 0 \notin Input
  BY FormalAssumption DEF Input

LEMMA StaysModest ==
    ASSUME TypeOK, FlowInv, UNCHANGED flow
    PROVE  Modest
  BY DEF TypeOK, FlowInv, Modest, flow

LEMMA FailsModest ==
    ASSUME TypeOK, Fails
    PROVE  Modest
  BY Ones DEF TypeOK, Fails, Modest, Idle, ProgressType, Pc

LEMMA UnansweredModest ==
    ASSUME TypeOK, FlowInv, Unanswered
    PROVE  Modest
  BY StaysModest, FailsModest DEF Unanswered

LEMMA GoesModest ==
    ASSUME TypeOK, progress.status # "none", NEW pc \in Pc, NEW op \in Op,
           Goes(progress, pc, op)
    PROVE  Modest
  BY DEF TypeOK, Goes, Modest, ProgressType

LEMMA LearnsModest ==
    ASSUME TypeOK, progress.status # "none", NEW op \in Op,
           NEW state \in JobState, Learns(op, state)
    PROVE  Modest
  <1> DEFINE p == [progress EXCEPT !.job[op] = TRUE]
             q == [p EXCEPT !.status = "failed"]
  <1>1. /\ p \in ProgressType /\ p.input = progress.input /\ p.evidence = progress.evidence
        /\ p.evaluated = progress.evaluated /\ p.status = progress.status
    BY DEF TypeOK, ProgressType
  <1>2. /\ q \in ProgressType /\ q.input = progress.input /\ q.evidence = progress.evidence
        /\ q.evaluated = progress.evaluated /\ q.status = "failed"
    BY DEF TypeOK, ProgressType
  <1>3. \/ Goes(p, "evidence", op) \/ Goes(q, "idle", 1) \/ Goes(p, "idle", 1)
    BY Zenon DEF Learns
  <1> HIDE DEF p, q
  <1> QED BY <1>1, <1>2, <1>3, Ones DEF Goes, Modest, Pc

-----------------------------------------------------------------------------
(* Jobs. *)

\* A job that is over is not taken up, and what it left is what it was, or is gone.
Lasts(j, k) ==
    j.state \notin {"submitted", "running"} =>
      /\ k.state \notin {"submitted", "running"} /\ k.last = j.last
      /\ k.ev # "none" => j.ev # "none" /\ k.state = j.state

\* A step of the connector with a job.
Steps(j, k) == k \in JobType /\ JobInv(k) /\ Lasts(j, k)

LEMMA ExecutesWell ==
    ASSUME TypeOK, NEW i \in Input, NEW op \in Op, JobInv(job[i][op]), Execute(i, op)
    PROVE  \E k : Steps(job[i][op], k) /\ job' = [job EXCEPT ![i][op] = k]
  <1> DEFINE j == job[i][op]
  <1>1. j \in JobType /\ j.state = "submitted" /\ j.runs <= j.forgets
    BY DEF TypeOK, Execute, JobInv
  <1>2. CASE drift
    <2> DEFINE k == Ends(j, "failed", "failed")
    <2>1. job' = [job EXCEPT ![i][op] = k]
      BY <1>2 DEF Execute, TypeOK
    <2>2. /\ k \in JobType /\ k.state = "failed" /\ k.last = "failed" /\ k.runs = j.runs
          /\ k.forgets = j.forgets
      BY <1>1 DEF Ends, JobType, JobState, Ended, Outcome
    <2>3. k.runs <= 1 + k.forgets
      BY <1>1, <2>2 DEF JobType
    <2>4. Steps(j, k)
      BY <1>1, <2>2, <2>3 DEF Steps, Lasts, JobInv
    <2> QED BY <2>1, <2>4
  <1>3. CASE ~drift
    <2> DEFINE k == [j EXCEPT !.state = "running", !.runs = j.runs + 1]
    <2>1. job' = [job EXCEPT ![i][op] = k]
      BY <1>3 DEF Execute
    <2>2. /\ k \in JobType /\ k.state = "running" /\ k.runs = j.runs + 1
          /\ k.forgets = j.forgets /\ k.ev = j.ev
      <3>1. j.runs + 1 \in Nat
        BY <1>1 DEF JobType
      <3> QED BY <1>1, <3>1 DEF JobType, JobState
    <2>3. j.ev = "none" /\ j.runs \in Nat /\ j.forgets \in Nat
      BY <1>1 DEF JobInv, JobType
    <2>4. Steps(j, k)
      BY <1>1, <2>2, <2>3 DEF Steps, Lasts, JobInv
    <2> QED BY <2>1, <2>4
  <1> QED BY <1>2, <1>3

LEMMA FinishesWell ==
    ASSUME TypeOK, NEW i \in Input, NEW op \in Op, JobInv(job[i][op]), NEW last \in Outcome,
           Finish(i, op, last)
    PROVE  \E k : Steps(job[i][op], k) /\ job' = [job EXCEPT ![i][op] = k]
  <1> DEFINE j == job[i][op]
             state == IF last = "unmet" THEN "succeeded" ELSE last
             k == Ends(j, state, last)
  <1>1. j \in JobType /\ j.state = "running" /\ j.runs <= 1 + j.forgets
    BY DEF TypeOK, Finish, JobInv
  <1>2. job' = [job EXCEPT ![i][op] = k]
    BY DEF Finish, TypeOK
  <1>3. /\ k \in JobType /\ k.state = state /\ k.last = last /\ k.runs = j.runs
        /\ k.forgets = j.forgets
    BY <1>1 DEF Ends, JobType, JobState, Ended, Outcome
  <1>4. Steps(j, k)
    BY <1>1, <1>3 DEF Steps, Lasts, JobInv, Outcome
  <1> QED BY <1>2, <1>4

LEMMA PublishesWell ==
    ASSUME TypeOK, NEW i \in Input, NEW op \in Op, JobInv(job[i][op]), Publish(i, op)
    PROVE  \E k : Steps(job[i][op], k) /\ job' = [job EXCEPT ![i][op] = k]
  <1> DEFINE j == job[i][op]
             k == [j EXCEPT !.ev = "there"]
  <1>1. j \in JobType /\ j.ev = "pending"
    BY DEF TypeOK, Publish
  <1>2. job' = [job EXCEPT ![i][op] = k]
    BY DEF Publish, TypeOK
  <1>3. Steps(j, k)
    BY <1>1 DEF Steps, Lasts, JobInv, JobType
  <1> QED BY <1>2, <1>3

LEMMA BreaksWell ==
    ASSUME TypeOK, NEW i \in Input, NEW op \in Op, JobInv(job[i][op]), Breaks(i, op)
    PROVE  \E k : Steps(job[i][op], k) /\ job' = [job EXCEPT ![i][op] = k]
  <1> DEFINE j == job[i][op]
             k == [j EXCEPT !.state = "failed", !.ev = "none",
                            !.last = IF j.ev = "pending" THEN @ ELSE "failed"]
  <1>1. j \in JobType /\ (j.state \in {"submitted", "running"} \/ j.ev = "pending")
    BY DEF TypeOK, Breaks
  <1>2. job' = [job EXCEPT ![i][op] = k]
    BY DEF Breaks, TypeOK
  <1>3. /\ k \in JobType /\ k.state = "failed" /\ k.ev = "none" /\ k.runs = j.runs
        /\ k.forgets = j.forgets /\ (j.ev = "pending" => k.last = j.last)
    BY <1>1 DEF JobType, JobState, Ended, Outcome
  <1>4. k.runs <= 1 + k.forgets
    BY <1>1, <1>3 DEF JobInv, JobType
  <1>5. Steps(j, k)
    BY <1>1, <1>3, <1>4 DEF Steps, Lasts, JobInv
  <1> QED BY <1>2, <1>5

LEMMA RestoresWell ==
    ASSUME NEW j \in JobType, JobInv(j), NEW k \in Restored(j)
    PROVE  Steps(j, k)
  <1> DEFINE bare == [j EXCEPT !.ev = "none"]
  <1>1. /\ bare \in JobType /\ bare.ev = "none" /\ bare.state = j.state /\ bare.last = j.last
        /\ bare.runs = j.runs /\ bare.forgets = j.forgets
    BY DEF JobType
  <1>2. bare.runs \in Nat /\ bare.forgets \in Nat /\ bare.runs <= 1 + bare.forgets
    BY <1>1 DEF JobInv, JobType
  <1> HIDE DEF bare
  <1>3. CASE k = [bare EXCEPT !.state = "none", !.forgets = bare.forgets + 1]
    <2>0. bare.forgets + 1 \in Nat
      BY <1>2
    <2>1. /\ k \in JobType /\ k.state = "none" /\ k.ev = "none" /\ k.last = j.last
          /\ k.runs = bare.runs /\ k.forgets = bare.forgets + 1
      BY <1>1, <1>3, <2>0 DEF JobType, JobState
    <2> QED BY <1>2, <2>1 DEF Steps, Lasts, JobInv
  <1>4. CASE k = [bare EXCEPT !.state = "lost"] \/ k = [bare EXCEPT !.state = "succeeded"]
    <2>1. /\ k \in JobType /\ k.state \in {"lost", "succeeded"} /\ k.ev = "none"
          /\ k.last = j.last /\ k.runs = bare.runs /\ k.forgets = bare.forgets
      BY <1>1, <1>4 DEF JobType, JobState, Ended
    <2> QED BY <1>2, <2>1 DEF Steps, Lasts, JobInv
  <1>5. CASE k = bare /\ j.state \in Ended
    BY <1>1, <1>2, <1>5 DEF Steps, Lasts, JobInv, Ended
  <1>6. CASE k = j
    BY <1>6 DEF Steps, Lasts
  <1>7. \/ k = [bare EXCEPT !.state = "none", !.forgets = bare.forgets + 1]
        \/ k = [bare EXCEPT !.state = "lost"] \/ k = [bare EXCEPT !.state = "succeeded"]
        \/ k = bare /\ j.state \in Ended
        \/ k = j
    BY DEF Restored, bare
  <1> QED BY <1>3, <1>4, <1>5, <1>6, <1>7

\* What is in Core's books is not executed again.
Settles(i, op) == row[i][op] # "none" => Lasts(job[i][op], job'[i][op])

LEMMA JobsKept ==
    ASSUME TypeOK, BooksInv, \A i \in Input, op \in Op : JobInv(job[i][op]), Next
    PROVE  /\ job' \in [Input -> [Op -> JobType]]
           /\ \A i \in Input, op \in Op : JobInv(job'[i][op]) /\ Settles(i, op)
  <1>0. \A j : Lasts(j, j)
    BY DEF Lasts
  <1>1. CASE UNCHANGED job
    BY <1>0, <1>1 DEF TypeOK, Settles
  <1>2. ASSUME NEW i \in Input, NEW op \in Op, NEW k, k \in JobType, JobInv(k),
               row[i][op] # "none" => Lasts(job[i][op], k),
               job' = [job EXCEPT ![i][op] = k]
        PROVE  /\ job' \in [Input -> [Op -> JobType]]
               /\ \A m \in Input, n \in Op : JobInv(job'[m][n]) /\ Settles(m, n)
    <2>1. job' = [job EXCEPT ![i] = [job[i] EXCEPT ![op] = k]]
      BY <1>2
    <2>2. \A m \in Input, n \in Op : job'[m][n] = IF m = i /\ n = op THEN k ELSE job[m][n]
      BY <2>1 DEF TypeOK
    <2>3. job' \in [Input -> [Op -> JobType]]
      BY <1>2, <2>1 DEF TypeOK
    <2> QED BY <1>0, <1>2, <2>2, <2>3 DEF Settles
  <1>3. CASE SubmitAccept
    <2>0. tx.input \in Input /\ tx.op \in Op /\ job[tx.input][tx.op] \in JobType
      BY DEF TypeOK
    <2> DEFINE j == job[tx.input][tx.op]
    <2>1. CASE j.state = "none"
      <3> DEFINE k == [j EXCEPT !.state = "submitted"]
      <3>1. job' = [job EXCEPT ![tx.input][tx.op] = k]
        BY <1>3, <2>0, <2>1 DEF SubmitAccept, TypeOK
      <3>2. k \in JobType /\ JobInv(k)
        BY <2>0, <2>1 DEF JobType, JobState, JobInv
      <3>3. row[tx.input][tx.op] = "none"
        BY <1>3 DEF SubmitAccept, BooksInv
      <3> QED BY <1>2, <2>0, <3>1, <3>2, <3>3
    <2>2. CASE j.state # "none"
      <3>1. job' = [job EXCEPT ![tx.input][tx.op] = [j EXCEPT !.state = j.state]]
        BY <1>3, <2>0, <2>2 DEF SubmitAccept, TypeOK
      <3>2. [j EXCEPT !.state = j.state] = j
        BY <2>0 DEF JobType
      <3> QED BY <1>1, <2>0, <3>1, <3>2 DEF TypeOK
    <2> QED BY <2>1, <2>2
  <1>4. CASE Connector
    <2>1. PICK i \in Input, op \in Op :
            \/ Execute(i, op) \/ Publish(i, op) \/ Breaks(i, op)
            \/ \E last \in Outcome : Finish(i, op, last)
      BY <1>4 DEF Connector
    <2>2. \E k : Steps(job[i][op], k) /\ job' = [job EXCEPT ![i][op] = k]
      BY <2>1, ExecutesWell, FinishesWell, PublishesWell, BreaksWell
    <2> QED BY <1>2, <2>2 DEF Steps
  <1>5. CASE Restart
    <2>1. PICK now \in [Taken -> UNION {Restored(job[t[1]][t[2]]) : t \in Taken}] :
            /\ \A t \in Taken : now[t] \in Restored(job[t[1]][t[2]])
            /\ job' = [i \in Input |-> [op \in Op |->
                         IF <<i, op>> \in Taken THEN now[<<i, op>>] ELSE job[i][op]]]
      BY <1>5 DEF Restart
    <2>2. ASSUME NEW i \in Input, NEW op \in Op
          PROVE  job'[i][op] \in JobType /\ JobInv(job'[i][op]) /\ Lasts(job[i][op], job'[i][op])
      <3>1. job'[i][op] = IF <<i, op>> \in Taken THEN now[<<i, op>>] ELSE job[i][op]
        BY <2>1
      <3>2. <<i, op>> \in Taken => now[<<i, op>>] \in Restored(job[i][op])
        BY <2>1
      <3>3. job[i][op] \in JobType
        BY DEF TypeOK
      <3> QED BY <1>0, <3>1, <3>2, <3>3, RestoresWell DEF Steps
    <2>3. job' \in [Input -> [Op -> JobType]]
      BY <2>1, <2>2
    <2> QED BY <2>2, <2>3 DEF Settles
  <1>6. UNCHANGED job \/ SubmitAccept \/ Connector \/ Restart
    <2>1. Flow \/ Person \/ SubmitAbort \/ Drift \/ Crash => UNCHANGED job
      BY DEF Flow, Person, Initialize, Advance, GetApproval, SubmitJob, Attach, SubmitBegin,
         GetJob, GetEvidence, AskEvaluation, GoesOn, AskReview, VerifyReleased,
         PrepareReadiness, ConfirmReadiness, Approve, ConfirmInput, Fetch, Freeze,
         SubmitAbort, Drift, Crash
    <2>2. SubmitCommit \/ (\E c \in Caller : Store(c)) => UNCHANGED job
      BY DEF SubmitCommit, Store
    <2> QED BY <2>1, <2>2 DEF Next, Core
  <1> QED BY <1>1, <1>3, <1>4, <1>5, <1>6

-----------------------------------------------------------------------------
(* Rows and the answers that are on their way to them. *)

ReadType == [input : 0 .. MaxReady, op : Op, state : JobState]

\* EndedAs of the next state, for an end of this one or of that.
StaysEnded(i, op, state) ==
    /\ job'[i][op].state \notin {"submitted", "running"}
    /\ job'[i][op].ev # "none" => job'[i][op].state = state

LEMMA EndedStays ==
    ASSUME NEW i \in Input, NEW op \in Op, NEW state, EndedAs(i, op, state),
           row[i][op] # "none", Settles(i, op)
    PROVE  StaysEnded(i, op, state)
  BY DEF EndedAs, Over, StaysEnded, Settles, Lasts

\* Rows and answers stay, but for a row that is inserted, an answer and its storing.
LEMMA BookSteps ==
    ASSUME TypeOK, FlowInv, Next
    PROVE  \/ UNCHANGED <<row, read>>
           \/ SubmitCommit
           \/ /\ UNCHANGED <<row, tx, job>>
              /\ \E c \in Caller, i \in Input, op \in Op : Asked(c, i, op)
           \/ \E c \in Caller : Store(c)
  <1>1. SubmitAbort \/ Drift \/ Crash \/ SubmitAccept \/ Restart => UNCHANGED <<row, read>>
    BY DEF SubmitAbort, Drift, Crash, SubmitAccept, Restart, core
  <1>2. Connector => UNCHANGED <<row, read>>
    BY DEF Connector, Execute, Finish, Publish, Breaks, core
  <1>3. Flow => UNCHANGED <<row, read>> \/ GetJob
    BY DEF Flow, Initialize, Advance, GetApproval, SubmitJob, Attach, SubmitBegin, core,
       GetEvidence, AskEvaluation, GoesOn, AskReview, VerifyReleased
  <1>4. Person => UNCHANGED <<row, read>> \/ \E i \in Input, op \in Op : Fetch(i, op)
    BY DEF Person, PrepareReadiness, ConfirmReadiness, Approve, ConfirmInput, Freeze,
       SubmitBegin, core
  <1>5. ASSUME NEW i \in Input, NEW op \in Op, Fetch(i, op)
        PROVE  UNCHANGED <<row, tx, job>> /\ \E c \in Caller : Asked(c, i, op)
    BY <1>5 DEF Fetch, core, Caller
  <1>6. CASE GetJob
    <2>1. progress.input \in Input /\ at.op \in Op /\ "flow" \in Caller
      BY <1>6, Inputs DEF GetJob, Doing, FlowInv, TypeOK, ProgressType, Caller
    <2>2. UNCHANGED <<row, tx, job>> /\ (Asked("flow", progress.input, at.op) \/ UNCHANGED read)
      BY <1>6 DEF GetJob, core
    <2> QED BY <2>1, <2>2
  <1> QED BY <1>1, <1>2, <1>3, <1>4, <1>5, <1>6 DEF Next, Core

\* The transaction stays, ends, or begins for a run that is not there.
LEMMA TxSteps ==
    ASSUME TypeOK, Next
    PROVE  \/ tx' = NoTx \/ (tx'.by = tx.by /\ tx'.input = tx.input /\ tx'.op = tx.op)
           \/ row' = row /\ row[tx'.input][tx'.op] = "none"
  <1>1. ASSUME \/ SubmitAbort \/ SubmitCommit \/ Drift \/ Crash \/ Restart \/ Connector
               \/ \E c \in Caller : Store(c)
        PROVE  tx' \in {tx, NoTx}
    BY <1>1 DEF SubmitAbort, SubmitCommit, Drift, Crash, Restart, Connector, Execute, Finish,
       Publish, Breaks, Store
  <1>2. SubmitAccept => tx' = [tx EXCEPT !.accepted = TRUE]
    BY DEF SubmitAccept
  <1>3. ASSUME NEW by, NEW i, NEW op, SubmitBegin(by, i, op)
        PROVE  row' = row /\ row[tx'.input][tx'.op] = "none"
    BY <1>3 DEF SubmitBegin, core
  <1>4. Flow => tx' = tx \/ SubmitBegin("flow", progress.input, at.op)
    BY DEF Flow, Initialize, Advance, GetApproval, SubmitJob, Attach, GetJob,
       GetEvidence, AskEvaluation, GoesOn, AskReview, VerifyReleased
  <1>5. Person => tx' = tx \/ \E i \in Input, op \in Op : SubmitBegin("person", i, op)
    BY DEF Person, PrepareReadiness, ConfirmReadiness, Approve, ConfirmInput, Freeze, Fetch
  <1>6. CASE tx' \in {tx, NoTx}
    BY <1>6
  <1>7. CASE tx' = [tx EXCEPT !.accepted = TRUE]
    BY <1>7 DEF TypeOK
  <1>8. CASE Flow \/ Person
    BY <1>3, <1>4, <1>5, <1>6, <1>8
  <1>9. CASE Core
    BY <1>1, <1>2, <1>6, <1>7, <1>9 DEF Core
  <1> QED BY <1>1, <1>6, <1>8, <1>9 DEF Next

LEMMA BooksKept ==
    ASSUME TypeOK, BooksInv, EndsAreTrue, FlowInv, Next, job' \in [Input -> [Op -> JobType]],
           tx' \in [by : Caller \union {"none"}, input : Input, op : Op, accepted : BOOLEAN],
           \A i \in Input, op \in Op : Settles(i, op)
    PROVE  /\ row' \in [Input -> [Op -> JobState]] /\ read' \in [Caller -> ReadType]
           /\ \A i \in Input, op \in Op : row[i][op] # "none" => row'[i][op] # "none"
           /\ BooksInv' /\ EndsAreTrue'
  <1>1. /\ row \in [Input -> [Op -> JobState]] /\ read \in [Caller -> ReadType]
        /\ tx.input \in Input /\ tx.op \in Op
    BY DEF TypeOK, ReadType
  <1>2. \A i \in Input, op \in Op : row[i][op] \in Ended => StaysEnded(i, op, row[i][op])
    BY EndedStays DEF EndsAreTrue, Ended
  <1>3. \A c \in Caller : read[c].state \in Ended =>
          /\ read[c].input \in Input /\ read[c].op \in Op
          /\ StaysEnded(read[c].input, read[c].op, read[c].state)
    <2> SUFFICES ASSUME NEW c \in Caller, read[c].state \in Ended
                 PROVE  /\ read[c].input \in Input /\ read[c].op \in Op
                        /\ StaysEnded(read[c].input, read[c].op, read[c].state)
      OBVIOUS
    <2>1. read[c].input \in Input /\ read[c].op \in Op
      BY <1>1, Inputs DEF BooksInv, Ended, ReadType
    <2>2. row[read[c].input][read[c].op] # "none"
      BY <2>1, Inputs DEF BooksInv
    <2>3. EndedAs(read[c].input, read[c].op, read[c].state)
      BY DEF EndsAreTrue
    <2> DEFINE s == read[c].state
               i == read[c].input
               op == read[c].op
    <2> HIDE DEF s, i, op
    <2>4. StaysEnded(i, op, s)
      BY <2>1, <2>2, <2>3, EndedStays DEF s, i, op
    <2> QED BY <2>1, <2>4 DEF s, i, op
  <1>4. CASE UNCHANGED <<row, read>>
    <2>1. tx'.by # "none" => row'[tx'.input][tx'.op] = "none"
      BY <1>4, TxSteps DEF BooksInv, NoTx
    <2>2. BooksInv'
      BY <1>4, <2>1 DEF BooksInv
    <2>3. EndsAreTrue'
      BY <1>2, <1>3, <1>4 DEF EndsAreTrue, EndedAs, Over, StaysEnded
    <2> QED BY <1>1, <1>4, <2>2, <2>3
  <1>5. CASE SubmitCommit
    <2>1. /\ row' = [row EXCEPT ![tx.input] = [row[tx.input] EXCEPT ![tx.op] = "submitted"]]
          /\ read' = read /\ job' = job /\ tx' = NoTx
      BY <1>5 DEF SubmitCommit
    <2>2. \A i \in Input, op \in Op : row'[i][op] = row[i][op] \/ row'[i][op] = "submitted"
      BY <1>1, <2>1
    <2>3. row' \in [Input -> [Op -> JobState]]
      BY <1>1, <2>1 DEF JobState
    <2>4. \A c \in Caller : read[c].input # 0 => row'[read[c].input][read[c].op] # "none"
      BY <1>1, <2>2, Inputs DEF BooksInv, ReadType
    <2>5. BooksInv'
      BY <2>1, <2>4 DEF BooksInv, NoTx
    <2>6. EndsAreTrue'
      BY <1>2, <1>3, <2>1, <2>2 DEF EndsAreTrue, Ended, EndedAs, Over, StaysEnded
    <2> QED BY <1>1, <2>1, <2>2, <2>3, <2>5, <2>6
  <1>6. ASSUME NEW c \in Caller, NEW i \in Input, NEW op \in Op, Asked(c, i, op),
               UNCHANGED <<row, tx, job>>
        PROVE  read' \in [Caller -> ReadType] /\ BooksInv' /\ EndsAreTrue'
    <2> DEFINE state == job[i][op].state
               r == [input |-> i, op |-> op, state |-> state]
    <2>1. /\ read' = [read EXCEPT ![c] = r] /\ row[i][op] # "none" /\ state # "none"
      BY <1>6 DEF Asked
    <2>2. state \in JobState /\ i \in 0 .. MaxReady /\ i # 0
      BY Inputs DEF TypeOK, JobType
    <2>3. r \in ReadType /\ r.input = i /\ r.op = op /\ r.state = state
      BY <2>2 DEF ReadType
    <2>4. state \in Ended => StaysEnded(i, op, state)
      BY <1>6 DEF StaysEnded, Ended
    <2> HIDE DEF state, r
    <2>5. read' \in [Caller -> ReadType] /\ \A d \in Caller : read'[d] = IF d = c THEN r ELSE read[d]
      BY <1>1, <2>1, <2>3
    <2>6. BooksInv'
      BY <1>6, <2>1, <2>2, <2>3, <2>5 DEF BooksInv
    <2>7. EndsAreTrue'
      BY <1>2, <1>3, <1>6, <2>3, <2>4, <2>5
        DEF EndsAreTrue, EndedAs, Over, StaysEnded
    <2> QED BY <2>5, <2>6, <2>7
  <1>7. ASSUME NEW c \in Caller, Store(c)
        PROVE  /\ row' \in [Input -> [Op -> JobState]] /\ read' \in [Caller -> ReadType]
               /\ \A i \in Input, op \in Op : row[i][op] # "none" => row'[i][op] # "none"
               /\ BooksInv' /\ EndsAreTrue'
    <2> DEFINE r == read[c]
    <2>0. r \in ReadType /\ (r.input = 0 <=> r.state = "none")
      BY <1>1 DEF BooksInv
    <2>1. /\ row' = [row EXCEPT ![r.input] = [row[r.input] EXCEPT ![r.op] = r.state]]
          /\ read' = [read EXCEPT ![c] = NoRead] /\ job' = job /\ tx' = tx
      BY <1>7 DEF Store
    <2>2. row' \in [Input -> [Op -> JobState]]
      BY <1>1, <2>0, <2>1 DEF ReadType
    <2>3. /\ NoRead \in ReadType /\ NoRead.input = 0 /\ NoRead.state = "none"
      BY Ones, Inputs DEF ReadType, NoRead, JobState
    <2>4. /\ read' \in [Caller -> ReadType]
          /\ \A d \in Caller : read'[d] = IF d = c THEN NoRead ELSE read[d]
      BY <1>1, <2>1, <2>3
    <2>5. \A i \in Input, op \in Op :
            row'[i][op] = IF i = r.input /\ op = r.op THEN r.state ELSE row[i][op]
      BY <1>1, <2>0, <2>1 DEF ReadType
    <2>6. r.input # 0 => row[r.input][r.op] # "none" /\ r.state # "none"
      BY <2>0 DEF BooksInv
    <2> DEFINE R == \A i \in Input, op \in Op : row[i][op] # "none" => row'[i][op] # "none"
    <2>7. R
      BY <2>5, <2>6, Inputs
    <2>8. BooksInv'
      <3>1. tx.by # "none" => row'[tx.input][tx.op] = "none"
        BY <1>1, <2>5, <2>6, Inputs DEF BooksInv
      <3>2. \A d \in Caller : read[d].input # 0 =>
              row[read[d].input][read[d].op] # "none" /\ read[d].input \in Input
              /\ read[d].op \in Op
        BY <1>1, Inputs DEF BooksInv, ReadType
      <3>3. \A d \in Caller : read[d].input # 0 => row'[read[d].input][read[d].op] # "none"
        BY <2>7, <3>2
      <3> QED BY <2>1, <2>3, <2>4, <3>1, <3>3 DEF BooksInv
    <2>9. EndsAreTrue'
      <3>1. r.state \in Ended => StaysEnded(r.input, r.op, r.state)
        BY <1>3
      <3> HIDE DEF r
      <3>2. \A i \in Input, op \in Op : row'[i][op] \in Ended => StaysEnded(i, op, row'[i][op])
        BY <1>2, <2>5, <3>1
      <3>3. \A d \in Caller : read'[d].state \in Ended =>
              StaysEnded(read'[d].input, read'[d].op, read'[d].state)
        BY <1>3, <2>3, <2>4 DEF Ended
      <3> QED BY <3>2, <3>3 DEF EndsAreTrue, EndedAs, Over, StaysEnded
    <2> QED BY <2>2, <2>4, <2>7, <2>8, <2>9
  <1> QED BY <1>1, <1>4, <1>5, <1>6, <1>7, BookSteps

-----------------------------------------------------------------------------
(* Evidence. *)

FrozenType == [Input -> [Op -> {"none", "unmet"} \union Ended]]

\* What is frozen of a run is how it ended, for the evidence is of that end.
LEMMA VerdictIsOfTheRun ==
    ASSUME TypeOK, EndsAreTrue, NEW i \in Input, NEW op \in Op, JobInv(job[i][op]),
           row[i][op] \in Ended, job[i][op].ev = "there"
    PROVE  /\ Verdict(i, op) \in {"unmet"} \union Ended /\ Verdict(i, op) = job[i][op].last
           /\ Over(i, op)
  <1>1. job[i][op].state = row[i][op] /\ Over(i, op)
    BY DEF EndsAreTrue, EndedAs
  <1> QED BY <1>1 DEF Verdict, JobInv, Ended

LEMMA FreezeKeeps ==
    ASSUME TypeOK, EndsAreTrue, EvidenceInv, \A i \in Input, op \in Op : JobInv(job[i][op]),
           NEW i \in Input, NEW op \in Op, Freezable(i, op), Frozen(i, op),
           job' = job, row' = row
    PROVE  /\ frozen' \in FrozenType
           /\ \A m \in Input, n \in Op : frozen[m][n] # "none" => frozen'[m][n] = frozen[m][n]
           /\ EvidenceInv'
  <1>1. CASE UNCHANGED frozen
    BY <1>1 DEF TypeOK, EvidenceInv, FrozenType, Over
  <1>2. CASE /\ frozen[i][op] = "none"
             /\ frozen' = [frozen EXCEPT ![i][op] = Verdict(i, op)]
    <2>1. row[i][op] \in Ended /\ row[i][op] # "none" /\ job[i][op].ev = "there"
      BY <1>2 DEF Freezable, Ended
    <2> DEFINE v == Verdict(i, op)
    <2>2. v \in {"unmet"} \union Ended /\ v = job[i][op].last /\ Over(i, op)
      BY <2>1, VerdictIsOfTheRun
    <2> HIDE DEF v
    <2>3. frozen' = [frozen EXCEPT ![i] = [frozen[i] EXCEPT ![op] = v]]
      BY <1>2 DEF v
    <2>4. frozen' \in FrozenType
      BY <2>2, <2>3 DEF TypeOK, FrozenType
    <2>5. \A m \in Input, n \in Op :
            frozen'[m][n] = IF m = i /\ n = op THEN v ELSE frozen[m][n]
      BY <2>3 DEF TypeOK
    <2>6. EvidenceInv'
      BY <2>1, <2>2, <2>5 DEF EvidenceInv, Over
    <2> QED BY <1>2, <2>4, <2>5, <2>6
  <1> QED BY <1>1, <1>2 DEF Frozen

LEMMA EvidenceKept ==
    ASSUME TypeOK, EndsAreTrue, EvidenceInv, \A i \in Input, op \in Op : JobInv(job[i][op]),
           Next, \A i \in Input, op \in Op : Settles(i, op),
           \A i \in Input, op \in Op : row[i][op] # "none" => row'[i][op] # "none"
    PROVE  /\ frozen' \in FrozenType
           /\ \A m \in Input, n \in Op : frozen[m][n] # "none" => frozen'[m][n] = frozen[m][n]
           /\ EvidenceInv'
  <1>1. CASE UNCHANGED frozen
    <2>1. EvidenceInv'
      BY <1>1 DEF EvidenceInv, Settles, Lasts, Over
    <2> QED BY <1>1, <2>1 DEF TypeOK, FrozenType
  <1>2. CASE GetEvidence
    <2>1. \/ UNCHANGED frozen
          \/ /\ progress.input \in Input /\ Freezable(progress.input, at.op)
             /\ Frozen(progress.input, at.op)
      BY <1>2 DEF GetEvidence, Freezable, Live, TypeOK
    <2>2. job' = job /\ row' = row /\ at.op \in Op
      BY <1>2 DEF GetEvidence, TypeOK
    <2> QED BY <1>1, <2>1, <2>2, FreezeKeeps
  <1>3. ASSUME NEW i \in Input, NEW op \in Op, Freeze(i, op)
        PROVE  /\ Freezable(i, op) /\ Frozen(i, op) /\ job' = job /\ row' = row
    BY <1>3 DEF Freeze
  <1>4. \/ UNCHANGED frozen \/ GetEvidence
        \/ \E i \in Input, op \in Op : Freeze(i, op)
    <2>1. Flow \/ SubmitAbort \/ Drift \/ Crash \/ Restart => UNCHANGED frozen \/ GetEvidence
      BY DEF Flow, Initialize, Advance, GetApproval, SubmitJob, Attach, SubmitBegin, core,
         GetJob, AskEvaluation, GoesOn, AskReview, VerifyReleased, SubmitAbort, Drift, Crash,
         Restart
    <2>2. Core \/ Connector => UNCHANGED frozen
      BY DEF Core, Connector, SubmitAccept, SubmitCommit, Store, Execute, Finish, Publish,
         Breaks, core
    <2>3. Person => UNCHANGED frozen \/ \E i \in Input, op \in Op : Freeze(i, op)
      BY DEF Person, PrepareReadiness, ConfirmReadiness, Approve, ConfirmInput, Fetch,
         SubmitBegin, core
    <2> QED BY <2>1, <2>2, <2>3 DEF Next
  <1> QED BY <1>1, <1>2, <1>3, <1>4, FreezeKeeps

-----------------------------------------------------------------------------
(* The submission, and all that lasts. *)

SubType == [state : Passed \union {"preparing", "rejected"}, sealed : 0 .. MaxReady]

LEMMA SubmissionKept ==
    ASSUME TypeOK, SealInv, Next,
           \A i \in Input, op \in Op : frozen[i][op] # "none" => frozen'[i][op] = frozen[i][op]
    PROVE  /\ sub' \in SubType /\ SealInv' /\ confirmed \subseteq confirmed'
           /\ sub.state \in Passed => sub'.state \in Passed /\ sub'.sealed = sub.sealed
           /\ sub.state \in {"in_review", "approved"} => sub'.state \in {"in_review", "approved"}
  <1>0. sub \in SubType
    BY DEF TypeOK, SubType
  <1>1. confirmed \subseteq confirmed'
    <2>1. Flow \/ SubmitAbort \/ Drift \/ Crash => UNCHANGED confirmed
      BY DEF Flow, Initialize, Advance, GetApproval, SubmitJob, Attach, SubmitBegin, core,
         inputs, GetEvidence, GetJob, AskEvaluation, GoesOn, AskReview, VerifyReleased,
         SubmitAbort, Drift, Crash
    <2>2. Connector \/ Core \/ Restart => UNCHANGED confirmed
      BY DEF Connector, Core, SubmitAccept, SubmitCommit, Store, Execute, Finish, Publish, Breaks,
         Restart, core, inputs
    <2>3. Person => confirmed \subseteq confirmed'
      BY DEF Person, PrepareReadiness, ConfirmReadiness, ConfirmInput, Freeze, Fetch, Approve,
         SubmitBegin, core, inputs
    <2> QED BY <2>1, <2>2, <2>3 DEF Next
  <1>2. ASSUME sub'.state = sub.state \/ (sub.state \in Passed /\ sub'.state \in Passed),
               sub'.sealed = sub.sealed
        PROVE  SealInv'
    <2>1. sub.state \in Passed => sub.sealed \in Input
      BY DEF SealInv, TypeOK
    <2> QED BY <1>1, <1>2, <2>1 DEF SealInv
  <1>3. CASE UNCHANGED sub
    BY <1>0, <1>1, <1>2, <1>3
  <1>4. CASE Approve \/ AskReview
    <2>1. \/ sub' = sub
          \/ /\ sub.state \in Passed
             /\ sub' = [sub EXCEPT !.state = "in_review"]
             /\ sub.state \in {"checking", "in_review"}
          \/ /\ sub.state = "in_review"
             /\ sub' = [sub EXCEPT !.state = "approved"]
      BY <1>4 DEF Approve, AskReview, Passed
    <2>2. /\ sub' \in SubType /\ sub'.sealed = sub.sealed
          /\ sub'.state = sub.state \/ (sub.state \in Passed /\ sub'.state \in Passed)
          /\ sub.state \in {"in_review", "approved"} => sub'.state \in {"in_review", "approved"}
      BY <1>0, <2>1 DEF SubType, Passed
    <2> QED BY <1>1, <1>2, <2>2
  <1>5. ASSUME NEW passed \in BOOLEAN, Evaluate(passed), UNCHANGED <<frozen, confirmed>>
        PROVE  sub.state = "preparing" /\ sub' \in SubType /\ SealInv'
    <2>1. CASE passed
      <3>1. sub' = [state |-> "checking", sealed |-> ready.seq] /\ Backed(ready.seq)
        BY <1>5, <2>1 DEF Evaluate
      <3>2. ready.seq \in Input
        BY DEF TypeOK
      <3> QED BY <1>5, <3>1, <3>2, Inputs DEF Evaluate, Backed, Live, SealInv, SubType, Passed
    <2>2. CASE ~passed
      <3>1. sub' = [sub EXCEPT !.state = "rejected"]
        BY <1>5, <2>2 DEF Evaluate
      <3> QED BY <1>0, <1>5, <3>1 DEF Evaluate, SealInv, SubType, Passed
    <2> QED BY <2>1, <2>2
  <1>6. CASE AskEvaluation
    <2>1. UNCHANGED <<frozen, confirmed>>
      BY <1>6 DEF AskEvaluation, inputs
    <2>2. sub' = sub \/ \E passed \in BOOLEAN : Evaluate(passed)
      BY <1>6 DEF AskEvaluation
    <2> QED BY <1>1, <1>3, <1>5, <2>1, <2>2 DEF Passed
  <1>7. \/ UNCHANGED sub \/ Approve \/ AskReview \/ AskEvaluation
    <2>1. Flow \/ SubmitAbort \/ Drift \/ Crash => UNCHANGED sub \/ AskReview \/ AskEvaluation
      BY DEF Flow, Initialize, Advance, GetApproval, SubmitJob, Attach, SubmitBegin, core,
         GetEvidence, GetJob, GoesOn, VerifyReleased, SubmitAbort, Drift, Crash
    <2>2. Connector \/ Core \/ Restart => UNCHANGED sub
      BY DEF Connector, Core, SubmitAccept, SubmitCommit, Store, Execute, Finish, Publish, Breaks,
         Restart, core
    <2>3. Person => UNCHANGED sub \/ Approve
      BY DEF Person, PrepareReadiness, ConfirmReadiness, ConfirmInput, Freeze, Fetch,
         SubmitBegin, core
    <2> QED BY <2>1, <2>2, <2>3 DEF Next
  <1> QED BY <1>1, <1>3, <1>4, <1>6, <1>7

-----------------------------------------------------------------------------
(* What the flow remembers. *)

\* What is frozen and what has passed stays, as far as the flow relies on it.
Reliable ==
    /\ frozen' \in FrozenType
    /\ \A m \in Input, n \in Op : frozen[m][n] # "none" => frozen'[m][n] = frozen[m][n]
    /\ sub.state \in Passed => sub'.state \in Passed /\ sub'.sealed = sub.sealed
    /\ sub.state \in {"in_review", "approved"} => sub'.state \in {"in_review", "approved"}

LEMMA ModestKeeps ==
    ASSUME TypeOK, FlowInv, Reliable, Modest
    PROVE  FlowInv'
  <1>1. \A op \in Op : progress.evidence[op] => progress.input \in Input
    BY Inputs DEF FlowInv, TypeOK, ProgressType
  <1>2. \A op \in Op : progress.evidence[op] =>
          frozen'[progress.input][op] \in {"succeeded", "unmet"}
    BY <1>1 DEF FlowInv, Reliable
  <1>3. progress.status = "released" => sub'.sealed = progress.input
    BY DEF FlowInv, Reliable, Passed
  <1> QED BY <1>1, <1>2, <1>3, Inputs DEF FlowInv, Reliable, Modest

\* The flow as it is after a step that concerns it, or any other.
FlowTyped == progress' \in ProgressType /\ at' \in [pc : Pc, op : Op]

LEMMA Turns ==
    ASSUME TypeOK
    PROVE  \A op \in Op : After(op) \in Pc /\ Following(op) \in Op
  BY FormalAssumption DEF After, Following, Pc, Op

LEMMA FlowKept ==
    ASSUME TypeOK, FlowInv, Reliable, Next
    PROVE  FlowTyped /\ FlowInv'
  <1> USE Ones
  <1>0. Modest => FlowTyped /\ FlowInv'
    BY ModestKeeps DEF Modest, FlowTyped
  <1>1. /\ progress \in ProgressType /\ at \in [pc : Pc, op : Op]
        /\ \A pc : Doing(pc) /\ pc # "idle" =>
             progress.status \notin {"none", "failed"} /\ progress.input \in Input
    BY Inputs DEF Doing, FlowInv, TypeOK, ProgressType
  <1>2. CASE UNCHANGED flow
    BY <1>0, <1>2, StaysModest
  <1>3. CASE Crash
    BY <1>0, <1>3, <1>1 DEF Crash, Idle, Modest, Pc
  <1>4. CASE Initialize
    <2>1. CASE Unanswered \/ Fails
      BY <1>0, <2>1, UnansweredModest, FailsModest
    <2>2. CASE Goes([progress EXCEPT !.input = ready.seq, !.status = "awaiting_input"],
                    "approval", 1)
      <3>1. /\ progress' = [progress EXCEPT !.input = ready.seq, !.status = "awaiting_input"]
            /\ at' = [pc |-> "approval", op |-> 1]
        BY <2>2 DEF Goes
      <3>2. ready.seq \in Input
        BY DEF TypeOK
      <3>3. FlowTyped
        BY <1>1, <3>1, <3>2, Inputs DEF FlowTyped, ProgressType, Pc
      <3>4. \A op \in Op : ~progress'.evidence[op]
        BY <1>1, <1>4, <3>1 DEF Initialize, FlowInv, ProgressType
      <3>5. progress'.status = "awaiting_input" /\ progress'.input = ready.seq
            /\ progress'.evaluated = progress.evaluated
        BY <1>1, <3>1 DEF ProgressType
      <3>6. FlowInv'
        BY <3>2, <3>4, <3>5, Inputs DEF FlowInv, Reliable
      <3> QED BY <3>3, <3>6
    <2> QED BY <1>4, <2>1, <2>2 DEF Initialize
  <1>5. CASE Advance
    <2>1. Goes(progress, "job", 1) \/ Goes(progress, "approval", 1)
      BY <1>5 DEF Advance
    <2>2. progress.status # "none"
      BY <1>5 DEF Advance
    <2> QED BY <1>0, <2>1, <2>2, GoesModest DEF Pc
  <1>6. CASE GetApproval
    <2>1. CASE Goes([progress EXCEPT !.approved = TRUE, !.status = "running"], "job", 1)
      <3>1. /\ progress' = [progress EXCEPT !.approved = TRUE, !.status = "running"]
            /\ at' = [pc |-> "job", op |-> 1]
        BY <2>1 DEF Goes
      <3>2. /\ progress' \in ProgressType /\ progress'.status = "running"
            /\ progress'.input = progress.input /\ progress'.evidence = progress.evidence
            /\ progress'.evaluated = progress.evaluated
        BY <1>1, <3>1 DEF ProgressType
      <3>3. progress.input # 0
        BY <1>1, <1>6, Inputs DEF GetApproval
      <3>4. \A op \in Op : progress.evidence[op] =>
              frozen'[progress.input][op] \in {"succeeded", "unmet"}
        BY <1>1, <1>6 DEF GetApproval, FlowInv, Reliable
      <3>5. FlowInv'
        BY <3>2, <3>3, <3>4 DEF FlowInv, Reliable
      <3> QED BY <3>1, <3>2, <3>5 DEF FlowTyped, Pc
    <2>2. CASE Goes(progress, "idle", 1) \/ Unanswered
      <3>1. progress.status # "none"
        BY <1>1, <1>6 DEF GetApproval
      <3> QED BY <1>0, <2>2, <3>1, GoesModest, UnansweredModest DEF Pc
    <2> QED BY <1>6, <2>1, <2>2 DEF GetApproval
  <1>7. CASE SubmitJob
    <2>1. progress.status # "none" /\ progress.input \in Input /\ at.op \in Op
      BY <1>1, <1>7 DEF SubmitJob
    <2>2. CASE Attach(progress.input, at.op)
      <3>1. row[progress.input][at.op] \in JobState
        BY <2>1 DEF TypeOK
      <3> QED BY <1>0, <2>1, <2>2, <3>1, LearnsModest, UnansweredModest DEF Attach
    <2>3. CASE Fails
      BY <1>0, <2>3, FailsModest
    <2> QED BY <1>2, <1>7, <2>2, <2>3 DEF SubmitJob, SubmitBegin
  <1>8. CASE SubmitCommit \/ SubmitAbort
    <2>1. CASE UNCHANGED flow
      BY <1>2, <2>1
    <2>2. CASE Unanswered
      BY <1>0, <2>2, UnansweredModest
    <2>3. CASE FlowSubmits /\ Learns(tx.op, "submitted")
      <3>1. tx.op \in Op /\ "submitted" \in JobState
        BY DEF TypeOK, JobState
      <3>2. progress.status # "none"
        BY <2>3 DEF FlowSubmits, FlowInv
      <3> QED BY <1>0, <2>3, <3>1, <3>2, LearnsModest
    <2> QED BY <1>8, <2>1, <2>2, <2>3 DEF SubmitCommit, SubmitAbort
  <1>9. ASSUME NEW c \in Caller, Store(c) PROVE FlowTyped /\ FlowInv'
    <2>1. CASE UNCHANGED flow
      BY <1>2, <2>1
    <2>2. CASE at.pc = "asked" /\ Learns(read[c].op, read[c].state)
      <3>1. progress.status # "none" /\ read[c].op \in Op /\ read[c].state \in JobState
        BY <2>2 DEF FlowInv, TypeOK
      <3> QED BY <1>0, <2>2, <3>1, LearnsModest
    <2>3. CASE Fails
      BY <1>0, <2>3, FailsModest
    <2> QED BY <1>9, <2>1, <2>2, <2>3 DEF Store
  <1>10. CASE GetJob
    <2>1. CASE progress' = progress /\ at' = [at EXCEPT !.pc = "asked"]
      <3>1. progress.status # "none"
        BY <1>1, <1>10 DEF GetJob
      <3> QED BY <1>0, <1>1, <2>1, <3>1 DEF Modest, Pc
    <2>2. CASE Fails
      BY <1>0, <2>2, FailsModest
    <2> QED BY <1>10, <2>1, <2>2 DEF GetJob
  <1>11. CASE GetEvidence
    <2> DEFINE p == [progress EXCEPT !.evidence[at.op] = TRUE]
    <2>1. /\ progress.status \notin {"none", "failed"} /\ progress.input \in Input
          /\ at.op \in Op
      BY <1>1, <1>11 DEF GetEvidence
    <2>2. CASE Fails \/ Unanswered
      BY <1>0, <2>2, FailsModest, UnansweredModest
    <2>3. CASE /\ frozen'[progress.input][at.op] \in {"succeeded", "unmet"}
               /\ Goes(p, After(at.op), Following(at.op))
      <3>1. progress' = p /\ at' = [pc |-> After(at.op), op |-> Following(at.op)]
        BY <2>3 DEF Goes
      <3>2. /\ p \in ProgressType /\ p.status = progress.status /\ p.input = progress.input
            /\ p.evaluated = progress.evaluated
            /\ \A op \in Op : p.evidence[op] => op = at.op \/ progress.evidence[op]
        BY <2>1 DEF TypeOK, ProgressType
      <3> HIDE DEF p
      <3>3. \A op \in Op : p.evidence[op] =>
              frozen'[progress.input][op] \in {"succeeded", "unmet"}
        BY <2>1, <2>3, <3>2 DEF FlowInv, Reliable
      <3>4. FlowInv'
        BY <2>1, <3>1, <3>2, <3>3, Inputs DEF FlowInv, Reliable, Passed
      <3> QED BY <2>1, <3>1, <3>2, <3>4, Turns DEF FlowTyped
    <2> QED BY <1>11, <2>2, <2>3 DEF GetEvidence, Keeps
  <1>12. CASE AskEvaluation
    <2> DEFINE p == [progress EXCEPT !.evaluated = TRUE]
    <2>1. progress.status \notin {"none", "failed"} /\ progress.input \in Input
      BY <1>1, <1>12 DEF AskEvaluation
    <2>2. CASE Fails \/ Unanswered
      BY <1>0, <2>2, FailsModest, UnansweredModest
    <2>3. CASE sub'.state = "checking" /\ Goes(p, "submit", 1)
      <3>1. progress' = p /\ at' = [pc |-> "submit", op |-> 1]
        BY <2>3 DEF Goes
      <3>2. /\ p \in ProgressType /\ p.status = progress.status /\ p.input = progress.input
            /\ p.evidence = progress.evidence
        BY DEF TypeOK, ProgressType
      <3> HIDE DEF p
      <3>3. \A op \in Op : progress.evidence[op] =>
              frozen'[progress.input][op] \in {"succeeded", "unmet"}
        BY <2>1 DEF FlowInv, Reliable
      <3>4. FlowInv'
        BY <2>1, <2>3, <3>1, <3>2, <3>3, Inputs DEF FlowInv, Reliable, Passed
      <3> QED BY <3>1, <3>2, <3>4 DEF FlowTyped, Pc
    <2> QED BY <1>12, <2>2, <2>3 DEF AskEvaluation, Notes
  <1>13. CASE GoesOn
    BY <1>0, <1>1, <1>13, GoesModest DEF GoesOn, Pc
  <1>14. ASSUME NEW status \in {"awaiting_gate", "released"},
                Goes([progress EXCEPT !.status = status], "idle", 1),
                progress.status \notin {"none", "failed"},
                sub'.state \in {"in_review", "approved"},
                status = "released" => sub'.sealed = progress.input
         PROVE  FlowTyped /\ FlowInv'
    <2> DEFINE p == [progress EXCEPT !.status = status]
    <2>1. progress' = p /\ at' = [pc |-> "idle", op |-> 1]
      BY <1>14 DEF Goes
    <2>2. /\ p \in ProgressType /\ p.status = status /\ p.input = progress.input
          /\ p.evidence = progress.evidence /\ p.evaluated = progress.evaluated
      BY <1>14 DEF TypeOK, ProgressType
    <2> HIDE DEF p
    <2>3. progress.input \in Input
      BY <1>14, Inputs DEF FlowInv, TypeOK, ProgressType
    <2>4. \A op \in Op : progress.evidence[op] =>
            frozen'[progress.input][op] \in {"succeeded", "unmet"}
      BY <2>3 DEF FlowInv, Reliable
    <2>5. FlowInv'
      BY <1>14, <2>1, <2>2, <2>3, <2>4, Inputs DEF FlowInv, Passed
    <2> QED BY <2>1, <2>2, <2>5 DEF FlowTyped, Pc
  <1>15. CASE AskReview
    <2>1. CASE /\ sub' = [sub EXCEPT !.state = "in_review"]
               /\ Goes([progress EXCEPT !.status = "awaiting_gate"], "idle", 1)
      <3>1. sub'.state = "in_review"
        BY <2>1 DEF TypeOK
      <3>2. progress.status \notin {"none", "failed"}
        BY <1>1, <1>15 DEF AskReview
      <3> QED BY <1>14, <2>1, <3>1, <3>2
    <2>2. CASE Unanswered \/ Fails
      BY <1>0, <2>2, FailsModest, UnansweredModest
    <2> QED BY <1>15, <2>1, <2>2 DEF AskReview
  <1>16. CASE VerifyReleased
    <2>1. CASE /\ sub.sealed = progress.input
               /\ Goes([progress EXCEPT !.status = "released"], "idle", 1)
      <3>1. sub' = sub /\ sub.state = "approved" /\ progress.status = "awaiting_gate"
        BY <1>16 DEF VerifyReleased, core
      <3> QED BY <1>14, <2>1, <3>1
    <2>2. CASE Unanswered \/ Fails
      BY <1>0, <2>2, FailsModest, UnansweredModest
    <2> QED BY <1>16, <2>1, <2>2 DEF VerifyReleased
  <1>17. CASE Person \/ SubmitAccept \/ Connector \/ Drift \/ Restart
    <2>1. UNCHANGED flow
      BY <1>17 DEF Person, PrepareReadiness, ConfirmReadiness, Approve, ConfirmInput,
         SubmitBegin, Fetch, Freeze, SubmitAccept, Connector, Execute, Finish,
         Publish, Breaks, Drift, Restart, flow
    <2> QED BY <1>2, <2>1
  <1> QED BY <1>3, <1>4, <1>5, <1>6, <1>7, <1>8, <1>9, <1>10, <1>11, <1>12, <1>13, <1>15,
             <1>16, <1>17 DEF Next, Flow, Core

-----------------------------------------------------------------------------
(* The invariant. *)

\* The rest of the types.
LEMMA RestTyped ==
    ASSUME TypeOK, Next
    PROVE  /\ ready' \in [seq : Input, state : {"blocked", "ready", "confirmed"}]
           /\ confirmed' \subseteq Input /\ work' \in {"working", "in_review", "released"}
           /\ drift' \in BOOLEAN
           /\ tx' \in [by : Caller \union {"none"}, input : Input, op : Op, accepted : BOOLEAN]
  <1> DEFINE Rest == <<ready, confirmed, work, drift, tx>>
  <1>1. CASE UNCHANGED Rest
    BY <1>1 DEF TypeOK
  <1>2. ASSUME NEW by \in Caller, NEW i \in Input, NEW op \in Op, SubmitBegin(by, i, op)
        PROVE  UNCHANGED <<ready, confirmed, work, drift>>
               /\ tx' \in [by : Caller \union {"none"}, input : Input, op : Op, accepted : BOOLEAN]
    BY <1>2 DEF SubmitBegin, core, inputs
  <1>3. CASE SubmitJob
    <2>1. SubmitBegin("flow", progress.input, at.op) =>
            progress.input \in Input /\ at.op \in Op /\ "flow" \in Caller
      BY DEF SubmitBegin, Live, TypeOK, Caller
    <2> QED BY <1>1, <1>2, <1>3, <2>1 DEF SubmitJob, Attach, core, inputs, TypeOK
  <1>4. CASE SubmitAccept \/ SubmitCommit \/ SubmitAbort
    <2>1. UNCHANGED <<ready, confirmed, work, drift>>
      BY <1>4 DEF SubmitAccept, SubmitCommit, SubmitAbort, core, inputs
    <2>2. tx' = NoTx \/ tx' = [tx EXCEPT !.accepted = TRUE]
      BY <1>4 DEF SubmitAccept, SubmitCommit, SubmitAbort
    <2>3. tx' \in [by : Caller \union {"none"}, input : Input, op : Op, accepted : BOOLEAN]
      <3>1. NoTx \in [by : Caller \union {"none"}, input : Input, op : Op, accepted : BOOLEAN]
        BY Ones DEF NoTx
      <3>2. [tx EXCEPT !.accepted = TRUE]
              \in [by : Caller \union {"none"}, input : Input, op : Op, accepted : BOOLEAN]
        BY DEF TypeOK
      <3> QED BY <2>2, <3>1, <3>2
    <2> QED BY <2>1, <2>3 DEF TypeOK
  <1>5. CASE Flow /\ ~SubmitJob
    BY <1>1, <1>5 DEF Flow, Initialize, Advance, GetApproval, GetJob, GetEvidence,
       AskEvaluation, GoesOn, AskReview, VerifyReleased, core, inputs, TypeOK
  <1>6. CASE Person
    <2>1. ASSUME NEW state \in {"blocked", "ready"}, PrepareReadiness(state)
          PROVE  /\ ready' \in [seq : Input, state : {"blocked", "ready", "confirmed"}]
                 /\ UNCHANGED <<confirmed, work, drift, tx>>
      BY <2>1, FormalAssumption DEF PrepareReadiness, TypeOK, Input
    <2>2. ASSUME ConfirmReadiness \/ Approve \/ \E i \in Input : ConfirmInput(i)
          PROVE  /\ ready' \in [seq : Input, state : {"blocked", "ready", "confirmed"}]
                 /\ confirmed' \subseteq Input /\ work' \in {"working", "in_review", "released"}
                 /\ UNCHANGED <<drift, tx>>
      BY <2>2 DEF ConfirmReadiness, Approve, ConfirmInput, TypeOK, inputs
    <2>3. ASSUME NEW i \in Input, NEW op \in Op, Fetch(i, op) \/ Freeze(i, op)
          PROVE  UNCHANGED Rest
      BY <2>3 DEF Fetch, Freeze, core, inputs
    <2>4. "person" \in Caller
      BY DEF Caller
    <2> QED BY <1>1, <1>2, <1>6, <2>1, <2>2, <2>3, <2>4 DEF Person, TypeOK
  <1>7. CASE Connector \/ Drift \/ Crash \/ Restart \/ \E c \in Caller : Store(c)
    BY <1>1, <1>7 DEF Connector, Execute, Finish, Publish, Breaks, Drift, Crash, Restart,
       Store, core, inputs, TypeOK
  <1> QED BY <1>3, <1>4, <1>5, <1>6, <1>7 DEF Next, Core

LEMMA FormalInvInit == Init => FormalInv
  <1> SUFFICES ASSUME Init PROVE FormalInv
    OBVIOUS
  <1>1. TypeOK
    BY Ones, Inputs DEF Init, TypeOK, JobType, JobState, NoJob, NoTx, NoRead, Idle, ProgressType, Pc,
       Passed, Caller
  <1>2. /\ \A i \in Input, op \in Op : JobInv(job[i][op])
        /\ BooksInv /\ EndsAreTrue /\ EvidenceInv
    BY DEF Init, JobInv, NoJob, BooksInv, EndsAreTrue, EvidenceInv, Ended, NoRead, NoTx
  <1>3. SealInv /\ FlowInv
    BY DEF Init, SealInv, FlowInv, Passed, Idle
  <1> QED BY <1>1, <1>2, <1>3 DEF FormalInv

LEMMA FormalInvStep == FormalInv /\ [Next]_vars => FormalInv'
  <1> SUFFICES ASSUME FormalInv, [Next]_vars PROVE FormalInv'
    OBVIOUS
  <1> USE DEF FormalInv
  <1>1. CASE Next
    <2>0. tx' \in [by : Caller \union {"none"}, input : Input, op : Op, accepted : BOOLEAN]
      BY <1>1, RestTyped
    <2>1. /\ job' \in [Input -> [Op -> JobType]]
          /\ \A i \in Input, op \in Op : JobInv(job'[i][op]) /\ Settles(i, op)
      BY <1>1, JobsKept
    <2>2. /\ row' \in [Input -> [Op -> JobState]] /\ read' \in [Caller -> ReadType]
          /\ \A i \in Input, op \in Op : row[i][op] # "none" => row'[i][op] # "none"
          /\ BooksInv' /\ EndsAreTrue'
      BY <1>1, <2>0, <2>1, BooksKept
    <2>3. /\ frozen' \in FrozenType /\ EvidenceInv'
          /\ \A i \in Input, op \in Op :
               frozen[i][op] # "none" => frozen'[i][op] = frozen[i][op]
      BY <1>1, <2>1, <2>2, EvidenceKept
    <2>4. /\ sub' \in SubType /\ SealInv'
          /\ sub.state \in Passed => sub'.state \in Passed /\ sub'.sealed = sub.sealed
          /\ sub.state \in {"in_review", "approved"} => sub'.state \in {"in_review", "approved"}
      BY <1>1, <2>3, SubmissionKept
    <2>5. FlowTyped /\ FlowInv'
      BY <1>1, <2>3, <2>4, FlowKept DEF Reliable
    <2>6. TypeOK'
      BY <1>1, <2>1, <2>2, <2>3, <2>4, <2>5, RestTyped
         DEF TypeOK, SubType, FlowTyped, ReadType, FrozenType
    <2> QED BY <2>1, <2>2, <2>3, <2>4, <2>5, <2>6
  <1>2. CASE UNCHANGED vars
    BY <1>2 DEF vars, core, inputs, flow, TypeOK, BooksInv, EndsAreTrue, EndedAs, Over,
       EvidenceInv, SealInv, FlowInv
  <1> QED BY <1>1, <1>2

\* The types, the jobs, what Core was told of them, the evidence, the submission and
\* the flow's memory hold together through every step of Core, of the connector, of
\* the runtime and of the person.
THEOREM FormalInvariant == Spec => []FormalInv
  BY FormalInvInit, FormalInvStep, PTL DEF Spec

\* A run is executed once more than the connector forgot it, and the manifest frozen for
\* it says for good how the last execution ended (freezeP4EvidenceHandler).
THEOREM EvidenceIsTrue == Spec => []EvidenceIsOfTheRun
  <1>1. ASSUME NEW j \in JobType, JobInv(j)
        PROVE  j.runs <= 1 + j.forgets
    BY <1>1 DEF JobType, JobInv
  <1>2. FormalInv => NoRunTwice
    BY <1>1 DEF FormalInv, TypeOK, NoRunTwice
  <1>3. FormalInv => EvidenceIsOfTheRun
    BY <1>2 DEF FormalInv, EvidenceInv, EvidenceIsOfTheRun
  <1> QED BY <1>3, FormalInvariant, PTL

\* What stands in review or is approved rests on one confirmed input on which every
\* operation did succeed when it was executed last (buildG4Facts, revalidateEvaluation).
THEOREM SubmissionIsBacked == Spec => []SealedIsBacked
  <1>1. FormalInv => SealedIsBacked
    BY DEF FormalInv, TypeOK, EvidenceInv, SealInv, SealedIsBacked
  <1> QED BY <1>1, FormalInvariant, PTL

\* What the orchestrator has persisted is true of Core, whenever it was begun anew
\* (FormalFlowOrchestrator).
THEOREM FlowKnowsTheTruth == Spec => []ProgressIsTrue
  <1>1. FormalInv => ProgressIsTrue
    BY Inputs DEF FormalInv, TypeOK, ProgressType, EvidenceInv, FlowInv, ProgressIsTrue
  <1> QED BY <1>1, FormalInvariant, PTL
=============================================================================
