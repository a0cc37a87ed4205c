------------------------ MODULE EngineeringRunProofs ------------------------
(***************************************************************************)
(* What holds of an engineering run for any number of gates, failures,     *)
(* crashes, aborts and resumes: work follows the approvals, the file is    *)
(* not ahead of Core, and a run that has ended begins no work.             *)
(***************************************************************************)
EXTENDS EngineeringRun, SequenceTheorems, TLAPS

LEMMA Gates ==
    /\ Last \in Nat /\ Last \in Gate /\ Gate \subseteq Nat \ {0} /\ 1 \in Gate
    /\ 0 \in 0 .. Last /\ Gate \subseteq 0 .. Last
  BY RunAssumption DEF Gate

LEMMA SubsAreNumbers ==
    ASSUME TypeOK
    PROVE  /\ DOMAIN subs = 1 .. Len(subs) /\ Len(subs) \in Nat
           /\ \A s \in DOMAIN subs : subs[s] \in SubType
  BY LenProperties DEF TypeOK

LEMMA Written ==
    ASSUME TypeOK, NEW s \in DOMAIN subs, NEW v \in SubType, subs' = [subs EXCEPT ![s] = v]
    PROVE  /\ subs' \in Seq(SubType) /\ DOMAIN subs' = DOMAIN subs /\ subs'[s] = v
           /\ \A t \in DOMAIN subs : t # s => subs'[t] = subs[t]
  <1>1. subs \in Seq(SubType) /\ s \in 1 .. Len(subs)
    BY SubsAreNumbers DEF TypeOK
  <1>2. /\ subs' \in Seq(SubType) /\ Len(subs') = Len(subs)
        /\ \A t \in 1 .. Len(subs) : subs'[t] = IF t = s THEN v ELSE subs[t]
    BY <1>1, ExceptSeq
  <1>3. DOMAIN subs' = 1 .. Len(subs')
    BY <1>2, LenProperties
  <1> QED BY <1>1, <1>2, <1>3, SubsAreNumbers

-----------------------------------------------------------------------------
(* What a step does to Core's side: submissions go forward only. *)

Grows ==
    /\ subs' \in Seq(SubType) /\ DOMAIN subs \subseteq DOMAIN subs'
    /\ core' \in CoreType /\ core.gate <= core'.gate
    /\ SubsInv'
    /\ \A s \in DOMAIN subs :
         /\ subs'[s].gate = subs[s].gate
         /\ subs[s].passed = "yes" => subs'[s].passed = "yes"
         /\ subs[s].state \in Decided \cup {"in_review"} =>
              subs'[s].state \in Decided \cup {"in_review"}

LEMMA CoreKept ==
    ASSUME RunInv, core' \in CoreType, core'.gate = core.gate, UNCHANGED subs
    PROVE  Grows
  <1>1. core.gate \in Nat
    BY Gates DEF RunInv, TypeOK, CoreType
  <1> QED BY <1>1 DEF RunInv, TypeOK, SubsInv, Grows

\* One submission is written.
LEMMA OneWritten ==
    ASSUME RunInv, NEW s \in DOMAIN subs, NEW v \in SubType, subs' = [subs EXCEPT ![s] = v],
           core' \in CoreType, core.gate <= core'.gate,
           v.gate = subs[s].gate, subs[s].passed = "yes" => v.passed = "yes",
           subs[s].state \in Decided \cup {"in_review"} =>
             v.state \in Decided \cup {"in_review"},
           v.state = "approved" => v.gate < core'.gate,
           v.passed = "yes" => v.state # "preparing",
           v.state \in {"checking", "in_review"} => v.passed = "yes"
    PROVE  Grows
  <1>1. /\ subs' \in Seq(SubType) /\ DOMAIN subs' = DOMAIN subs /\ subs'[s] = v
        /\ \A t \in DOMAIN subs : t # s => subs'[t] = subs[t]
    BY Written DEF RunInv
  <1>2. core.gate \in Nat /\ core'.gate \in Nat /\ \A t \in DOMAIN subs : subs[t].gate \in Nat
    BY Gates, SubsAreNumbers DEF RunInv, TypeOK, CoreType, SubType
  <1>3. SubsInv'
    BY <1>1, <1>2 DEF RunInv, SubsInv
  <1> QED BY <1>1, <1>3 DEF Grows

LEMMA CreatedGrows ==
    ASSUME RunInv, NEW g \in Gate, subs' = Created(g), UNCHANGED core
    PROVE  /\ Grows /\ Len(subs) + 1 \in DOMAIN subs'
           /\ subs'[Len(subs) + 1].gate = g
  <1> DEFINE v == [gate |-> g, state |-> "preparing", passed |-> "none"]
  <1>1. v \in SubType /\ v.gate = g /\ v.state = "preparing" /\ v.passed = "none"
    BY DEF SubType, Decided
  <1>2. subs' = Append(subs, v) /\ subs \in Seq(SubType)
    BY DEF Created, RunInv, TypeOK
  <1> HIDE DEF v
  <1>3. /\ subs' \in Seq(SubType) /\ Len(subs') = Len(subs) + 1
        /\ subs'[Len(subs) + 1] = v /\ \A t \in 1 .. Len(subs) : subs'[t] = subs[t]
    BY <1>1, <1>2, AppendProperties
  <1>4. DOMAIN subs' = 1 .. Len(subs) + 1 /\ DOMAIN subs = 1 .. Len(subs) /\ Len(subs) \in Nat
    BY <1>3, LenProperties, SubsAreNumbers DEF RunInv
  <1>5. \A t \in DOMAIN subs' : (t \in DOMAIN subs /\ subs'[t] = subs[t]) \/ subs'[t] = v
    BY <1>3, <1>4
  <1>6. SubsInv'
    BY <1>1, <1>5 DEF RunInv, SubsInv
  <1>7. core' \in CoreType /\ core.gate <= core'.gate
    BY Gates DEF RunInv, TypeOK, CoreType
  <1> QED BY <1>1, <1>3, <1>4, <1>6, <1>7 DEF Grows

LEMMA EvaluatedGrows ==
    ASSUME RunInv, NEW s \in DOMAIN subs, subs[s].state = "preparing", NEW passed \in BOOLEAN,
           subs' = Evaluated(s, passed), UNCHANGED core
    PROVE  Grows /\ subs'[s].passed = IF passed THEN "yes" ELSE "no"
  <1> DEFINE st == IF passed THEN "checking" ELSE "rejected"
             ps == IF passed THEN "yes" ELSE "no"
             v == [subs[s] EXCEPT !.state = st, !.passed = ps]
  <1>1. subs[s] \in SubType
    BY SubsAreNumbers DEF RunInv
  <1>2. subs' = [subs EXCEPT ![s] = v]
    BY <1>1 DEF Evaluated, SubType
  <1>3. /\ st \in {"checking", "rejected"} /\ ps \in {"yes", "no"}
        /\ st = "checking" <=> ps = "yes"
    OBVIOUS
  <1> HIDE DEF st, ps
  <1>4. v \in SubType /\ v.gate = subs[s].gate /\ v.state = st /\ v.passed = ps
    BY <1>1, <1>3 DEF SubType, Decided
  <1> HIDE DEF v
  <1>5. core' \in CoreType /\ core.gate <= core'.gate
    BY Gates DEF RunInv, TypeOK, CoreType
  <1>6. subs[s].passed # "yes"
    BY DEF RunInv, SubsInv
  <1>7. Grows
    BY <1>2, <1>3, <1>4, <1>5, <1>6, OneWritten DEF Decided
  <1>8. subs'[s] = v
    BY <1>2, <1>4, Written DEF RunInv
  <1> QED BY <1>4, <1>7, <1>8 DEF ps

LEMMA SubmittedGrows ==
    ASSUME RunInv, NEW s \in DOMAIN subs, subs[s].state = "checking",
           subs' = Submitted(s), UNCHANGED core
    PROVE  Grows /\ subs'[s].state = "in_review"
  <1> DEFINE v == [subs[s] EXCEPT !.state = "in_review"]
  <1>1. subs[s] \in SubType
    BY SubsAreNumbers DEF RunInv
  <1>2. subs' = [subs EXCEPT ![s] = v]
    BY <1>1 DEF Submitted, SubType
  <1>3. /\ v \in SubType /\ v.gate = subs[s].gate /\ v.state = "in_review"
        /\ v.passed = subs[s].passed
    BY <1>1 DEF SubType
  <1>4. core' \in CoreType /\ core.gate <= core'.gate
    BY Gates DEF RunInv, TypeOK, CoreType
  <1>5. subs[s].passed = "yes"
    BY DEF RunInv, SubsInv
  <1> HIDE DEF v
  <1>6. Grows
    BY <1>2, <1>3, <1>4, <1>5, OneWritten DEF Decided
  <1> QED BY <1>2, <1>3, <1>6, Written DEF RunInv

\* A request that lands, whether the run still waits for it or not.
LEMMA LandsGrows ==
    ASSUME RunInv, NEW r \in [op : {"none", "create", "evaluate", "submit"}, gate : Gate, sub : Nat],
           r.op \in {"evaluate", "submit"} => r.sub \in DOMAIN subs, Lands(r), UNCHANGED core
    PROVE  Grows
  <1>1. CASE UNCHANGED subs
    BY <1>1, CoreKept DEF RunInv, TypeOK
  <1>2. CASE r.op = "create" /\ subs' = Created(r.gate)
    BY <1>2, CreatedGrows
  <1>3. CASE r.op = "evaluate" /\ subs[r.sub].state = "preparing"
             /\ \E passed \in BOOLEAN : subs' = Evaluated(r.sub, passed)
    BY <1>3, EvaluatedGrows
  <1>4. CASE r.op = "submit" /\ subs[r.sub].state = "checking" /\ subs' = Submitted(r.sub)
    BY <1>4, SubmittedGrows
  <1> QED BY <1>1, <1>2, <1>3, <1>4 DEF Lands

LEMMA RequestTyped ==
    ASSUME RunInv
    PROVE  /\ Request \in [op : {"none", "create", "evaluate", "submit"}, gate : Gate, sub : Nat]
           /\ NoRequest \in [op : {"none", "create", "evaluate", "submit"}, gate : Gate, sub : Nat]
           /\ NoRequest.op = "none"
           /\ Request.op \in {"evaluate", "submit"} => Request.sub \in DOMAIN subs
  BY Gates DEF RunInv, TypeOK, LoopType, LoopInv, Bound, Request, NoRequest

-----------------------------------------------------------------------------
(* Steps that write nothing the run goes by. *)

SameFile ==
    /\ state' \in FileType
    /\ state'.sub = state.sub /\ state'.flow = state.flow /\ state'.gate = state.gate
    /\ state'.awaiting \in {0, state.awaiting}

LEMMA FileGrown ==
    ASSUME RunInv, Grows, SameFile,
           "succeeded" \in {state'.status, handle'.status, loop'.result} => core.gate > Last
    PROVE  FileInv'
  <1> USE DEF RunInv
  <1>1. core.gate \in Nat /\ core'.gate \in Nat /\ core.gate <= core'.gate /\ Last \in Nat
    BY Gates DEF TypeOK, CoreType, Grows
  <1>2. state.gate \in Nat
    BY Gates DEF TypeOK, FileType
  <1>3. /\ state'.gate <= core'.gate
        /\ "succeeded" \in {state'.status, handle'.status, loop'.result} => core'.gate > Last
    BY <1>1, <1>2 DEF FileInv, SameFile
  <1>4. state'.flow[Last] = NoFlow
    BY DEF FileInv, SameFile
  <1>5. state'.awaiting # 0 => state'.flow[state'.awaiting].sub # 0
    BY DEF FileInv, SameFile
  <1>6. ASSUME NEW g \in Gate
        PROVE  /\ state'.sub[g] # 0 => state'.sub[g] \in DOMAIN subs' /\ subs'[state'.sub[g]].gate = g
               /\ state'.flow[g] # NoFlow => state'.flow[g].sub # 0
               /\ state'.flow[g].sub # 0 =>
                    state'.flow[g].sub \in DOMAIN subs' /\ state'.sub[g] # 0
               /\ state'.flow[g].evaluated => subs'[state'.flow[g].sub].passed = "yes"
               /\ state'.flow[g].submitted =>
                    subs'[state'.flow[g].sub].state \in Decided \cup {"in_review"}
    <2>1. state.flow[g].evaluated \/ state.flow[g].submitted => state.flow[g].sub \in DOMAIN subs
      BY DEF FileInv, NoFlow
    <2> QED BY <2>1 DEF FileInv, SameFile, Grows, InReviewOrPast
  <1> QED BY <1>3, <1>4, <1>5, <1>6 DEF FileInv, InReviewOrPast

\* The executor stays where it is, or comes to a point at which it holds nothing.
Quiet == {"idle", "announce", "context", "formal", "settle", "report", "close"}

LEMMA QuietKept ==
    ASSUME RunInv, Grows, SameFile,
           "succeeded" \in {state'.status, handle'.status, loop'.result} => core.gate > Last,
           handle' \in HandleType, loop' \in LoopType, UNCHANGED kind,
           at' \in Quiet \/ (at' = at /\ loop' = loop),
           late' \in {late, NoRequest, Request}
    PROVE  RunInv'
  <1> USE DEF RunInv
  <1>1. FileInv' /\ SubsInv'
    BY FileGrown DEF Grows
  <1>2. TypeOK'
    BY RequestTyped DEF TypeOK, Grows, SameFile, Quiet, Guarded
  <1>3. LateInv'
    BY RequestTyped DEF LateInv, Grows
  <1>4. core.gate \in Nat /\ core'.gate \in Nat /\ core.gate <= core'.gate
    BY Gates DEF TypeOK, CoreType, Grows
  <1>7. loop.gate \in Nat
    BY Gates DEF TypeOK, LoopType
  <1>5. CASE at' \in Quiet
    <2>1. at' \notin {"stage", "work", "poll", "note", "bind"} \cup Bound
      BY <1>5 DEF Quiet, Bound
    <2>2. LoopInv'
      BY <2>1 DEF LoopInv, Bound
    <2> QED BY <1>1, <1>2, <1>3, <2>2
  <1>6. CASE at' = at /\ loop' = loop
    <2>1. at \in {"stage", "work"} => loop.gate <= core'.gate
      <3>1. at \in {"stage", "work"} => loop.gate <= core.gate
        BY DEF LoopInv
      <3> QED BY <1>4, <1>7, <3>1
    <2>2. state'.sub = state.sub /\ state'.flow = state.flow
      BY DEF SameFile
    <2>3. \A s \in DOMAIN subs :
            /\ s \in DOMAIN subs' /\ subs'[s].gate = subs[s].gate
            /\ subs[s].passed = "yes" => subs'[s].passed = "yes"
            /\ subs[s].state \in Decided \cup {"in_review"} =>
                 subs'[s].state \in Decided \cup {"in_review"}
      BY DEF Grows
    <2>4. LoopInv'
      BY <1>6, <2>1, <2>2, <2>3 DEF LoopInv, InReviewOrPast, Bound
    <2> QED BY <1>1, <1>2, <1>3, <2>4
  <1> QED BY <1>5, <1>6

-----------------------------------------------------------------------------
(* Events to Core, and steps that persist the file. *)

LEMMA EventKept ==
    ASSUME TypeOK, NEW status \in Terminal \cup {"running", "awaiting"},
           Heard(status) \/ Unheard(status)
    PROVE  core' \in CoreType /\ core'.gate = core.gate
  <1>1. RowOf(status) \in Open \cup Terminal
    BY DEF RowOf, Open
  <1>2. WithStatus(status) \in CoreType /\ WithStatus(status).gate = core.gate
    <2> DEFINE row == RowOf(status)
    <2>1. row \in Open \cup Terminal
      BY <1>1
    <2> HIDE DEF row
    <2>2. [core EXCEPT !.row = row] \in CoreType /\ [core EXCEPT !.row = row].gate = core.gate
      BY <2>1 DEF TypeOK, CoreType
    <2> QED BY <2>2 DEF WithStatus, row
  <1> QED BY <1>2 DEF Heard, Unheard, TypeOK

\* Whatever becomes of a step that persists the file f, the file is f.
LEMMA Persisted ==
    ASSUME TypeOK, NEW f \in FileType, NEW pc, NEW l, Persist(f, pc, l)
    PROVE  /\ state' = f /\ subs' = subs /\ core' \in CoreType /\ core'.gate = core.gate
           /\ late' = late /\ kind' = kind
           /\ handle' \in HandleType /\ handle'.status = handle.status
           /\ \/ at' = pc /\ loop' = l
              \/ /\ at' = "settle" /\ loop' \in LoopType /\ loop'.result = "failed"
  <1>1. core' \in CoreType /\ core'.gate = core.gate
    BY EventKept DEF Persist, FileType
  <1>2. state' = f /\ subs' = subs /\ late' = late /\ kind' = kind
    BY DEF Persist
  <1>3. handle' \in HandleType /\ handle'.status = handle.status
    <2> DEFINE a == IF f.awaiting > 0 THEN f.awaiting ELSE handle.awaiting
    <2>1. a \in 0 .. Last
      BY DEF TypeOK, FileType, HandleType
    <2>2. handle' = [handle EXCEPT !.awaiting = a]
      BY DEF Persist
    <2> HIDE DEF a
    <2> QED BY <2>1, <2>2 DEF TypeOK, HandleType
  <1>4. Ends("failed", "execution_error") =>
          /\ at' = "settle" /\ loop' \in LoopType /\ loop'.result = "failed"
    BY DEF TypeOK, Ends, LoopType, Terminal, Cause
  <1> QED BY <1>1, <1>2, <1>3, <1>4 DEF Persist

\* The file f is no further than Core's submissions.
FileKept(f) ==
    /\ f.gate <= core.gate /\ f.flow[Last] = NoFlow
    /\ f.awaiting # 0 => f.flow[f.awaiting].sub # 0
    /\ \A g \in Gate :
         /\ f.sub[g] # 0 => f.sub[g] \in DOMAIN subs /\ subs[f.sub[g]].gate = g
         /\ f.flow[g] # NoFlow => f.flow[g].sub # 0
         /\ f.flow[g].sub # 0 => f.flow[g].sub \in DOMAIN subs /\ f.sub[g] # 0
         /\ f.flow[g].evaluated => subs[f.flow[g].sub].passed = "yes"
         /\ f.flow[g].submitted => InReviewOrPast(f.flow[g].sub)

\* What remains to be shown of a step that persists.
LEMMA PersistKept ==
    ASSUME RunInv, NEW f \in FileType, NEW pc, NEW l, Persist(f, pc, l), l \in LoopType,
           "succeeded" \in {f.status, l.result} => core.gate > Last,
           pc \in Guarded,
           FileKept(f),
           at' = pc /\ loop' = l => LoopInv'
    PROVE  RunInv'
  <1> USE DEF RunInv
  <1>1. /\ state' = f /\ subs' = subs /\ core' \in CoreType /\ core'.gate = core.gate
        /\ late' = late /\ kind' = kind
        /\ handle' \in HandleType /\ handle'.status = handle.status
    BY Persisted
  <1>2. \/ at' = pc /\ loop' = l
        \/ at' = "settle" /\ loop' \in LoopType /\ loop'.result = "failed"
    BY Persisted
  <1>3. TypeOK'
    BY <1>1, <1>2 DEF TypeOK, Guarded
  <1>4. SubsInv'
    BY <1>1 DEF SubsInv
  <1>5. FileInv'
    <2>1. handle'.status = "succeeded" => core'.gate > Last
      BY <1>1 DEF FileInv
    <2>2. "succeeded" \in {state'.status, loop'.result} => core'.gate > Last
      BY <1>1, <1>2
    <2> QED BY <1>1, <2>1, <2>2 DEF FileInv, FileKept, InReviewOrPast
  <1>6. LoopInv'
    <2>1. CASE at' = "settle"
      BY <2>1 DEF LoopInv, Bound
    <2> QED BY <1>2, <2>1
  <1>7. LateInv'
    BY <1>1 DEF LateInv
  <1> QED BY <1>3, <1>4, <1>5, <1>6, <1>7

-----------------------------------------------------------------------------
(* The steps at which the run holds nothing, or that are not the run's. *)

LEMMA SameFileAgain == ASSUME TypeOK, UNCHANGED state PROVE SameFile
  BY DEF TypeOK, SameFile

LEMMA NotTold ==
    ASSUME RunInv, UNCHANGED <<core, subs>> PROVE Grows
  BY CoreKept DEF RunInv, TypeOK

LEMMA ExecuteKept ==
    ASSUME RunInv, NEW resume \in BOOLEAN, Execute(resume),
           UNCHANGED <<kind, core, subs, state, late>>
    PROVE  RunInv'
  <1> USE DEF RunInv
  <1>1. handle' \in HandleType /\ handle'.status = "running"
    BY Gates DEF TypeOK, HandleType, Execute, Cause
  <1>2. loop' \in LoopType /\ loop'.result = "none"
    BY Gates DEF TypeOK, LoopType, NoLoop, Execute, Cause
  <1>3. at' = "announce"
    BY DEF Execute
  <1>4. Grows /\ SameFile
    BY NotTold, SameFileAgain
  <1> QED BY <1>1, <1>2, <1>3, <1>4, QuietKept DEF Quiet, FileInv

LEMMA AnnounceKept == ASSUME RunInv, Announce PROVE RunInv'
  <1> USE DEF RunInv
  <1>1. core' \in CoreType /\ core'.gate = core.gate
    BY EventKept DEF Announce
  <1>2. UNCHANGED <<kind, subs, state, handle, loop, late>> /\ at' \in Quiet
    BY DEF Announce, Quiet
  <1>3. Grows /\ SameFile
    BY <1>1, <1>2, CoreKept, SameFileAgain
  <1>4. handle' \in HandleType /\ loop' \in LoopType
    BY <1>2 DEF TypeOK
  <1> QED BY <1>2, <1>3, <1>4, QuietKept DEF FileInv

\* The run ends, or asks people to wait no more.
LEMMA EndsKept ==
    ASSUME RunInv, NEW result \in Terminal \cup {"none", "awaiting"}, NEW cause \in Cause,
           Ends(result, cause), result = "succeeded" => core.gate > Last,
           Grows, UNCHANGED <<kind, state, handle, late>>
    PROVE  RunInv'
  <1> USE DEF RunInv
  <1>1. loop' \in LoopType /\ loop'.result = result /\ at' = "settle"
    BY DEF TypeOK, Ends, LoopType
  <1>2. SameFile /\ handle' \in HandleType
    BY SameFileAgain DEF TypeOK
  <1> QED BY <1>1, <1>2, QuietKept DEF Quiet, FileInv

LEMMA ContextKept == ASSUME RunInv, Context PROVE RunInv'
  <1> USE DEF RunInv
  <1>1. UNCHANGED <<kind, core, subs, state, handle, late>>
    BY DEF Context
  <1>2. Grows
    BY <1>1, NotTold
  <1>3. CASE Ends("fail_closed", "execution_error")
    BY <1>1, <1>2, <1>3, EndsKept DEF Terminal, Cause
  <1>4. CASE Completed /\ Ends("succeeded", "none")
    <2>1. core.gate > Last
      BY <1>4 DEF Completed
    <2> QED BY <1>1, <1>2, <1>4, <2>1, EndsKept DEF Terminal, Cause
  <1>5. CASE /\ ~Completed /\ at' = "stage"
             /\ loop' = [loop EXCEPT !.gate = IF loop.resume THEN state.gate ELSE core.gate]
    <2> DEFINE gate == IF loop.resume THEN state.gate ELSE core.gate
    <2>1. gate \in Gate /\ gate <= core.gate
      BY <1>5, Gates DEF TypeOK, FileType, CoreType, Completed, FileInv, Gate
    <2> HIDE DEF gate
    <2>2. loop' \in LoopType /\ loop'.gate = gate /\ loop'.result = loop.result
      BY <1>5, <2>1 DEF TypeOK, LoopType, gate
    <2>3. TypeOK' /\ SubsInv' /\ LateInv'
      BY <1>1, <1>5, <2>2 DEF TypeOK, Guarded, SubsInv, LateInv
    <2>4. FileInv'
      BY <1>1, <2>2 DEF FileInv, InReviewOrPast
    <2>5. LoopInv'
      BY <1>1, <1>5, <2>1, <2>2 DEF LoopInv, Bound
    <2> QED BY <2>3, <2>4, <2>5
  <1>6. CASE /\ ~Completed /\ state.awaiting # 0
             /\ LET f == state.flow[state.awaiting] IN
                  /\ at' = IF f.submitted THEN "poll"
                           ELSE IF f.evaluated THEN "submit" ELSE "evaluate"
                  /\ loop' = [loop EXCEPT !.gate = state.awaiting, !.sub = f.sub]
    <2> DEFINE g == state.awaiting
               f == state.flow[g]
    <2>1. g \in Gate /\ f \in FlowType /\ f.sub # 0
      BY <1>6, Gates DEF TypeOK, FileType, FileInv, Gate
    <2>2. g # Last /\ f.sub \in DOMAIN subs /\ state.sub[g] # 0
      BY <2>1 DEF FileInv, NoFlow
    <2>3. /\ f.evaluated => subs[f.sub].passed = "yes"
      BY <2>1 DEF FileInv
    <2>4. loop' = [loop EXCEPT !.gate = g, !.sub = f.sub]
      BY <1>6
    <2>5. /\ at' \in {"poll", "submit", "evaluate"}
          /\ at' = "submit" => f.evaluated
      BY <1>6
    <2> HIDE DEF f, g
    <2>6. /\ loop' \in LoopType /\ loop'.gate = g /\ loop'.sub = f.sub
          /\ loop'.result = loop.result
      BY <2>1, <2>4 DEF TypeOK, LoopType, FlowType
    <2>7. TypeOK' /\ SubsInv' /\ LateInv'
      BY <1>1, <2>5, <2>6 DEF TypeOK, Guarded, SubsInv, LateInv
    <2>8. FileInv'
      BY <1>1, <2>6 DEF FileInv, InReviewOrPast
    <2>9. state.flow[g].sub = f.sub
      BY DEF f
    <2>10. LoopInv'
      BY <1>1, <2>2, <2>3, <2>5, <2>6, <2>9 DEF LoopInv, Bound
    <2> QED BY <2>7, <2>8, <2>10
  <1> QED BY <1>3, <1>4, <1>5, <1>6 DEF Context

LEMMA QuietStepsKept ==
    ASSUME RunInv, AskRest \/ Formal \/ BindingDiverges
    PROVE  RunInv'
  <1>1. UNCHANGED <<kind, core, subs, state, handle, late>>
    BY DEF AskRest, Formal, BindingDiverges
  <1>2. \E result \in {"failed", "fail_closed", "awaiting"}, cause \in Cause : Ends(result, cause)
    BY DEF AskRest, Formal, BindingDiverges, Cause
  <1> QED BY <1>1, <1>2, NotTold, EndsKept DEF Terminal

LEMMA RequestFailsKept == ASSUME RunInv, RequestFails PROVE RunInv'
  <1>1. UNCHANGED <<kind, core, state, handle, late>>
    BY DEF RequestFails
  <1>2. Grows
    BY <1>1, LandsGrows, RequestTyped DEF RequestFails
  <1>3. \E result \in {"failed", "fail_closed"} : Ends(result, "execution_error")
    BY DEF RequestFails
  <1> QED BY <1>1, <1>2, <1>3, EndsKept DEF Terminal, Cause

LEMMA LateLandsKept == ASSUME RunInv, LateLands PROVE RunInv'
  <1> USE DEF RunInv
  <1>1. UNCHANGED <<kind, core, state, handle, at, loop>> /\ late' = NoRequest
    BY DEF LateLands
  <1>2. Grows
    BY <1>1, LandsGrows DEF LateLands, TypeOK, LateInv
  <1>3. SameFile /\ handle' \in HandleType /\ loop' \in LoopType
    BY <1>1, SameFileAgain DEF TypeOK
  <1> QED BY <1>1, <1>2, <1>3, QuietKept DEF FileInv

\* What an end that is announced or forced writes.
LEMMA ClosedKept ==
    ASSUME RunInv, NEW cause \in Cause, Closed(cause), UNCHANGED <<kind, subs, loop, late>>,
           handle' \in HandleType, handle'.status # "succeeded",
           at' \in Quiet \/ at' = at
    PROVE  RunInv'
  <1> USE DEF RunInv
  <1>1. core' \in CoreType /\ core'.gate = core.gate
    BY EventKept DEF Closed, Terminal
  <1>2. Grows
    BY <1>1, CoreKept
  <1>3. SameFile /\ state'.status # "succeeded"
    BY Gates DEF Closed, SameFile, TypeOK, FileType, Terminal
  <1>4. loop' \in LoopType /\ loop' = loop
    BY DEF TypeOK
  <1> QED BY <1>2, <1>3, <1>4, QuietKept DEF FileInv

LEMMA CloseKept == ASSUME RunInv, Close PROVE RunInv'
  <1>1. handle' \in HandleType /\ handle'.status # "succeeded"
    BY DEF RunInv, TypeOK, HandleType, Close, Cause, Terminal
  <1> QED BY <1>1, ClosedKept DEF Close, Quiet, Cause

LEMMA PollRefusedKept == ASSUME RunInv, PollRefused PROVE RunInv'
  <1>1. handle' \in HandleType /\ handle'.status # "succeeded"
    BY Gates DEF RunInv, TypeOK, HandleType, PollRefused, Cause, Terminal
  <1> QED BY <1>1, ClosedKept DEF PollRefused, Cause

LEMMA RecoverOwnedKept == ASSUME RunInv, RecoverOwned PROVE RunInv'
  <1>1. handle' \in HandleType /\ handle'.status # "succeeded"
    BY Gates DEF RunInv, TypeOK, HandleType, RecoverOwned, Cause, Terminal
  <1> QED BY <1>1, ClosedKept DEF RecoverOwned, Cause

\* The registry entry and the file are written, Core is not.
LEMMA EntryKept ==
    ASSUME RunInv, UNCHANGED <<kind, core, subs>>, SameFile, handle' \in HandleType,
           "succeeded" \in {state'.status, handle'.status} => core.gate > Last,
           loop' = loop, at' \in Quiet \/ at' = at, late' \in {late, NoRequest, Request}
    PROVE  RunInv'
  <1> USE DEF RunInv
  <1>1. Grows
    BY NotTold
  <1>2. loop' \in LoopType
    BY DEF TypeOK
  <1> QED BY <1>1, <1>2, QuietKept DEF FileInv

LEMMA PauseKept == ASSUME RunInv, Pause PROVE RunInv'
  <1> USE DEF RunInv
  <1>1. handle' \in HandleType /\ handle'.status = "awaiting"
    BY Gates DEF TypeOK, HandleType, LoopType, Pause
  <1>2. SameFile
    BY SameFileAgain DEF Pause
  <1> QED BY <1>1, <1>2, EntryKept DEF Pause, Quiet, FileInv

LEMMA SettleKept == ASSUME RunInv, Settle PROVE RunInv'
  <1> USE DEF RunInv
  <1>1. loop.result \in Terminal /\ loop.cause \in Cause /\ state \in FileType
    BY DEF TypeOK, LoopType, Settle
  <1>2. handle' \in HandleType /\ handle'.status = loop.result
    BY <1>1, Gates DEF TypeOK, HandleType, Settle
  <1>3. SameFile /\ state'.status = loop.result
    <2> DEFINE cause == IF loop.cause = "none" THEN state.cause ELSE loop.cause
    <2>1. cause \in Cause
      BY <1>1 DEF FileType
    <2>2. state' = [state EXCEPT !.status = loop.result, !.awaiting = 0, !.cause = cause]
      BY <1>1 DEF Settle, FileType
    <2> HIDE DEF cause
    <2> QED BY <1>1, <2>1, <2>2, Gates DEF SameFile, FileType
  <1> QED BY <1>1, <1>2, <1>3, EntryKept DEF Settle, Quiet, FileInv

LEMMA ReportKept == ASSUME RunInv, Report PROVE RunInv'
  <1> USE DEF RunInv
  <1>1. core' \in CoreType /\ core'.gate = core.gate
    BY EventKept DEF Report, TypeOK, FileType
  <1>2. Grows /\ SameFile
    BY <1>1, CoreKept, SameFileAgain DEF Report
  <1>3. handle' \in HandleType /\ handle'.status = handle.status
    BY DEF TypeOK, HandleType, Report
  <1>4. at' \in Quiet /\ loop' = loop /\ loop' \in LoopType
    BY DEF TypeOK, Report, Quiet
  <1> QED BY <1>2, <1>3, <1>4, QuietKept DEF Report, FileInv

LEMMA BreakKept == ASSUME RunInv, Break PROVE RunInv'
  <1> USE DEF RunInv
  <1>1. handle' \in HandleType /\ handle'.status = "failed"
    BY Gates DEF TypeOK, HandleType, Break, Terminal
  <1>2. SameFile /\ state'.status = "failed"
    BY Gates DEF TypeOK, FileType, SameFile, Break, Terminal
  <1> QED BY <1>1, <1>2, EntryKept DEF Break, Quiet

LEMMA CrashKept == ASSUME RunInv, Crash PROVE RunInv'
  <1> USE DEF RunInv
  <1>1. handle' \in HandleType /\ handle'.status = handle.status
    BY DEF TypeOK, HandleType, Crash
  <1>2. SameFile
    BY SameFileAgain DEF Crash
  <1> QED BY <1>1, <1>2, EntryKept DEF Crash, Quiet, FileInv

LEMMA RecoverKept == ASSUME RunInv, RecoverLoose \/ RecoverRest PROVE RunInv'
  <1> USE DEF RunInv
  <1>1. CASE RecoverLoose
    <2>1. handle' \in HandleType /\ handle'.status = "interrupted"
      BY <1>1, Gates DEF TypeOK, HandleType, FileType, RecoverLoose
    <2>2. SameFile /\ state'.status = "failed"
      BY <1>1 DEF TypeOK, FileType, SameFile, RecoverLoose, Terminal, Cause
    <2> QED BY <1>1, <2>1, <2>2, EntryKept DEF RecoverLoose
  <1>2. CASE RecoverRest
    <2>1. handle' \in HandleType /\ handle'.status = state.status
      BY <1>2 DEF TypeOK, HandleType, FileType, RecoverRest
    <2>2. SameFile
      BY <1>2, SameFileAgain DEF RecoverRest
    <2> QED BY <1>2, <2>1, <2>2, EntryKept DEF RecoverRest, FileInv
  <1> QED BY <1>1, <1>2

\* The monitor, a person or Core sets an execution off, or only asks.
LEMMA MonitorKept ==
    ASSUME RunInv, Start \/ PollAsk \/ PollRead \/ PollApproved \/ Resume
    PROVE  RunInv'
  <1>1. UNCHANGED <<kind, core, subs, state, late>>
    BY DEF Start, PollAsk, PollRead, PollApproved, Resume
  <1>2. CASE \E resume \in BOOLEAN : Execute(resume)
    BY <1>1, <1>2, ExecuteKept
  <1>3. CASE UNCHANGED <<handle, at, loop>>
    <2>1. handle' \in HandleType /\ SameFile
      BY <1>1, <1>3, SameFileAgain DEF RunInv, TypeOK
    <2> QED BY <1>1, <1>3, <2>1, EntryKept DEF RunInv, FileInv
  <1> QED BY <1>2, <1>3 DEF Start, PollAsk, PollRead, PollApproved, Resume

LEMMA AbortKept == ASSUME RunInv, AbortCall \/ AbortEnds PROVE RunInv'
  <1> USE DEF RunInv
  <1>1. UNCHANGED <<kind, subs, state, handle, at, loop, late>>
    BY DEF AbortCall, AbortEnds
  <1>2. core' \in CoreType /\ core'.gate = core.gate
    <2>1. CASE AbortCall
      BY <2>1 DEF TypeOK, CoreType, AbortCall, Owned
    <2>2. CASE AbortEnds
      <3> DEFINE row == IF Owned /\ abort = "confirmed" THEN "cancelled" ELSE core.row
      <3>1. row \in Open \cup Terminal \cup {"none", "cancelled"}
        BY DEF TypeOK, CoreType
      <3>2. core' = [core EXCEPT !.locked = FALSE, !.row = row]
        BY <2>2 DEF AbortEnds, TypeOK, CoreType
      <3> HIDE DEF row
      <3> QED BY <3>1, <3>2 DEF TypeOK, CoreType
    <2> QED BY <2>1, <2>2
  <1>3. Grows /\ SameFile
    BY <1>1, <1>2, CoreKept, SameFileAgain
  <1>4. handle' \in HandleType /\ loop' \in LoopType
    BY <1>1 DEF TypeOK
  <1> QED BY <1>1, <1>3, <1>4, QuietKept DEF FileInv

LEMMA PeopleKept ==
    ASSUME RunInv,
           Release \/ \E s \in DOMAIN subs : Approve(s) \/ Reject(s) \/ Withdraw(s)
    PROVE  RunInv'
  <1> USE DEF RunInv
  <1>1. UNCHANGED <<kind, state, handle, at, loop, late>>
    BY DEF Release, Approve, Reject, Withdraw
  <1>2. Grows
    <2>1. core.gate \in Nat /\ core \in CoreType
      BY Gates DEF TypeOK, CoreType
    <2>2. CASE Release
      <3>1. core' \in CoreType /\ core'.gate = core.gate + 1
        BY <2>2, <2>1, Gates DEF Release, Creatable, CoreType
      <3>2. SubsInv'
        BY <2>1, <2>2, <3>1, SubsAreNumbers, Gates DEF SubsInv, Release, SubType
      <3> QED BY <2>1, <2>2, <3>1, <3>2 DEF Grows, Release, TypeOK
    <2>3. ASSUME NEW s \in DOMAIN subs, Approve(s) PROVE Grows
      <3> DEFINE v == [subs[s] EXCEPT !.state = "approved"]
      <3>1. subs[s] \in SubType
        BY SubsAreNumbers
      <3>2. /\ v \in SubType /\ v.gate = subs[s].gate /\ v.state = "approved"
            /\ v.passed = subs[s].passed
        BY <3>1 DEF SubType, Decided
      <3>3. subs' = [subs EXCEPT ![s] = v]
        BY <2>3, <3>1 DEF Approve, SubType
      <3>4. core' \in CoreType /\ core'.gate = core.gate + 1 /\ subs[s].gate = core.gate
        BY <2>3, <2>1, <3>1, Gates DEF Approve, CoreType, SubType, Gate
      <3>5. core.gate <= core'.gate /\ subs[s].gate < core'.gate
        BY <2>1, <3>4
      <3> HIDE DEF v
      <3> QED BY <3>2, <3>3, <3>4, <3>5, OneWritten DEF Decided
    <2>4. ASSUME NEW s \in DOMAIN subs, Reject(s) \/ Withdraw(s) PROVE Grows
      <3>1. PICK st \in {"rejected", "withdrawn"} : subs' = [subs EXCEPT ![s].state = st]
        BY <2>4 DEF Reject, Withdraw
      <3> DEFINE v == [subs[s] EXCEPT !.state = st]
      <3>2. subs[s] \in SubType
        BY SubsAreNumbers
      <3>3. /\ v \in SubType /\ v.gate = subs[s].gate /\ v.state = st
            /\ v.passed = subs[s].passed
        BY <3>2 DEF SubType, Decided
      <3>4. subs' = [subs EXCEPT ![s] = v]
        BY <3>1, <3>2 DEF SubType
      <3>5. core' \in CoreType /\ core.gate <= core'.gate
        BY <2>1, <2>4 DEF Reject, Withdraw
      <3>6. v.state # "approved" /\ v.state # "preparing" /\ v.state \in Decided
            /\ v.state \notin {"checking", "in_review"}
        BY <3>3 DEF Decided
      <3> HIDE DEF v
      <3> QED BY <3>3, <3>4, <3>5, <3>6, OneWritten
    <2> QED BY <2>2, <2>3, <2>4
  <1>3. SameFile /\ handle' \in HandleType /\ loop' \in LoopType
    BY <1>1, SameFileAgain DEF TypeOK
  <1> QED BY <1>1, <1>2, <1>3, QuietKept DEF FileInv
-----------------------------------------------------------------------------
(* The steps of the work. *)

LEMMA AskApprovedKept == ASSUME RunInv, AskApproved PROVE RunInv'
  <1> USE DEF RunInv
  <1> DEFINE f == [state EXCEPT !.status = "running", !.awaiting = 0]
             l == [loop EXCEPT !.gate = @ + 1]
  <1>1. at = "poll" /\ Awaited = "approved" /\ Persist(f, "stage", l)
    BY DEF AskApproved
  <1>2. /\ f \in FileType /\ f.status = "running" /\ f.awaiting = 0
        /\ f.gate = state.gate /\ f.sub = state.sub /\ f.flow = state.flow
    BY Gates DEF TypeOK, FileType
  <1>3. loop.gate \in Gate /\ loop.gate # Last /\ state.sub[loop.gate] # 0
    BY <1>1 DEF TypeOK, LoopType, LoopInv
  <1>4. loop.gate + 1 \in Gate
    BY <1>3, Gates DEF Gate
  <1>5. l \in LoopType /\ l.gate = loop.gate + 1 /\ l.result = loop.result
    BY <1>4 DEF TypeOK, LoopType
  <1>6. loop.gate < core.gate
    BY <1>1, <1>3 DEF Awaited, FileInv, SubsInv
  <1>7. core.gate \in Nat
    BY Gates DEF TypeOK, CoreType
  <1>8. loop.gate + 1 <= core.gate
    <2>1. loop.gate \in Nat
      BY <1>3, Gates
    <2> HIDE DEF RunInv
    <2> QED BY <1>6, <1>7, <2>1
  <1> HIDE DEF f, l
  <1>9. core'.gate = core.gate
    BY <1>1, <1>2, Persisted
  <1>10. ASSUME at' = "stage", loop' = l PROVE LoopInv'
    <2>1. loop'.gate <= core'.gate
      BY <1>5, <1>8, <1>9, <1>10
    <2> QED BY <1>10, <2>1 DEF LoopInv, Bound
  <1>11. "succeeded" \in {f.status, l.result} => core.gate > Last
    BY <1>2, <1>5 DEF FileInv
  <1>12. FileKept(f)
    BY <1>2 DEF FileKept, FileInv
  <1> QED BY <1>1, <1>2, <1>5, <1>10, <1>11, <1>12, PersistKept DEF Guarded

LEMMA StageKept == ASSUME RunInv, Stage PROVE RunInv'
  <1> USE DEF RunInv
  <1> DEFINE f == [state EXCEPT !.status = "running", !.gate = loop.gate]
  <1>1. at = "stage" /\ Persist(f, "work", loop)
    BY DEF Stage
  <1>2. loop \in LoopType /\ loop.gate \in Gate /\ loop.gate <= core.gate
    BY <1>1 DEF TypeOK, LoopType, LoopInv
  <1>3. /\ f \in FileType /\ f.status = "running" /\ f.gate = loop.gate
        /\ f.sub = state.sub /\ f.flow = state.flow /\ f.awaiting = state.awaiting
    BY <1>2 DEF TypeOK, FileType
  <1> HIDE DEF f
  <1>4. core'.gate = core.gate
    BY <1>1, <1>3, Persisted
  <1>5. at' = "work" /\ loop' = loop => LoopInv'
    BY <1>2, <1>4 DEF LoopInv, Bound
  <1>6. "succeeded" \in {f.status, loop.result} => core.gate > Last
    BY <1>3 DEF FileInv
  <1>7. FileKept(f)
    BY <1>2, <1>3 DEF FileKept, FileInv
  <1> QED BY <1>1, <1>2, <1>3, <1>5, <1>6, <1>7, PersistKept DEF Guarded

LEMMA NoteKept == ASSUME RunInv, Note PROVE RunInv'
  <1> USE DEF RunInv
  <1> DEFINE f == [state EXCEPT !.sub[loop.gate] = loop.sub]
             pc == IF loop.gate = Last THEN "formal" ELSE "bind"
  <1>1. at = "note" /\ Persist(f, pc, loop)
    BY DEF Note
  <1>2. /\ loop \in LoopType /\ loop.gate \in Gate /\ loop.sub \in DOMAIN subs
        /\ subs[loop.sub].gate = loop.gate
    BY <1>1 DEF TypeOK, LoopType, LoopInv
  <1>3. loop.sub \in Nat /\ loop.sub # 0
    BY <1>2, SubsAreNumbers
  <1>4. /\ f \in FileType /\ f.status = state.status /\ f.gate = state.gate
        /\ f.flow = state.flow /\ f.awaiting = state.awaiting
        /\ \A g \in Gate : f.sub[g] = IF g = loop.gate THEN loop.sub ELSE state.sub[g]
    BY <1>2, <1>3 DEF TypeOK, FileType
  <1>5. pc \in {"formal", "bind"} /\ (pc = "bind" => loop.gate # Last)
    OBVIOUS
  <1> HIDE DEF f, pc
  <1>6. state' = f /\ subs' = subs
    BY <1>1, <1>4, Persisted
  <1>7. at' = pc /\ loop' = loop => LoopInv'
    BY <1>2, <1>3, <1>4, <1>5, <1>6 DEF LoopInv, Bound
  <1>8. FileKept(f)
    BY <1>2, <1>3, <1>4 DEF FileKept, FileInv
  <1>9. "succeeded" \in {f.status, loop.result} => core.gate > Last
    BY <1>4 DEF FileInv
  <1> QED BY <1>1, <1>2, <1>4, <1>5, <1>7, <1>8, <1>9, PersistKept DEF Guarded

\* What onProgress writes of the gate the run waits at.
LEMMA KeepKept ==
    ASSUME RunInv, NEW flow \in FlowType, NEW pc \in {"evaluate", "submit", "settle"},
           NEW l \in LoopType, Keep(flow, pc, l),
           flow.sub = loop.sub, loop.sub \in DOMAIN subs,
           loop.gate # Last, state.sub[loop.gate] # 0,
           flow.evaluated \/ pc = "submit" => subs[loop.sub].passed = "yes",
           flow.submitted => InReviewOrPast(loop.sub),
           l.gate = loop.gate, l.sub = loop.sub, l.result = "succeeded" => core.gate > Last
    PROVE  RunInv'
  <1> USE DEF RunInv
  <1> DEFINE f == [state EXCEPT !.status = "awaiting", !.awaiting = loop.gate,
                                !.flow[loop.gate] = flow]
  <1>1. Persist(f, pc, l) /\ loop.gate \in Gate
    BY DEF Keep, TypeOK, LoopType
  <1>2. /\ f \in FileType /\ f.status = "awaiting" /\ f.gate = state.gate
        /\ f.sub = state.sub /\ f.awaiting = loop.gate
        /\ \A g \in Gate : f.flow[g] = IF g = loop.gate THEN flow ELSE state.flow[g]
    BY <1>1, Gates DEF TypeOK, FileType
  <1>3. loop.sub # 0
    BY SubsAreNumbers
  <1> HIDE DEF f
  <1>4. state' = f /\ subs' = subs
    BY <1>1, <1>2, Persisted
  <1>5. at' = pc /\ loop' = l => LoopInv'
    BY <1>1, <1>2, <1>4 DEF LoopInv, Bound
  <1>6. FileKept(f)
    <2>1. f.flow[Last] = NoFlow /\ f.gate <= core.gate /\ f.flow[f.awaiting].sub # 0
      BY <1>1, <1>2, <1>3, Gates DEF FileInv
    <2>2. ASSUME NEW g \in Gate
          PROVE  /\ f.sub[g] # 0 => f.sub[g] \in DOMAIN subs /\ subs[f.sub[g]].gate = g
                 /\ f.flow[g] # NoFlow => f.flow[g].sub # 0
                 /\ f.flow[g].sub # 0 => f.flow[g].sub \in DOMAIN subs /\ f.sub[g] # 0
                 /\ f.flow[g].evaluated => subs[f.flow[g].sub].passed = "yes"
                 /\ f.flow[g].submitted => InReviewOrPast(f.flow[g].sub)
      BY <1>2, <1>3 DEF FileInv
    <2> QED BY <2>1, <2>2 DEF FileKept
  <1> QED BY <1>1, <1>2, <1>5, <1>6, PersistKept DEF Guarded

LEMMA BindKept == ASSUME RunInv, Bind PROVE RunInv'
  <1> USE DEF RunInv
  <1> DEFINE flow == [NoFlow EXCEPT !.sub = loop.sub]
  <1>1. at = "bind" /\ Keep(flow, "evaluate", loop)
    BY DEF Bind
  <1>2. /\ loop \in LoopType /\ loop.gate # Last /\ loop.sub \in DOMAIN subs
        /\ state.sub[loop.gate] # 0
    BY <1>1 DEF TypeOK, LoopInv, Bound
  <1>3. flow \in FlowType /\ flow.sub = loop.sub /\ ~flow.evaluated /\ ~flow.submitted
    BY <1>2 DEF FlowType, NoFlow, LoopType
  <1> HIDE DEF flow
  <1> QED BY <1>1, <1>2, <1>3, KeepKept DEF FileInv

\* At these points the gate is bound to the submission.
LEMMA BoundFlow ==
    ASSUME RunInv, at \in Bound
    PROVE  /\ loop \in LoopType /\ loop.gate # Last /\ loop.sub \in DOMAIN subs
           /\ state.sub[loop.gate] # 0 /\ loop.gate \in Gate
           /\ state.flow[loop.gate] \in FlowType /\ state.flow[loop.gate].sub = loop.sub
           /\ state.flow[loop.gate].evaluated => subs[loop.sub].passed = "yes"
           /\ state.flow[loop.gate].submitted => InReviewOrPast(loop.sub)
  <1> USE DEF RunInv
  <1>1. /\ loop \in LoopType /\ loop.gate # Last /\ loop.sub \in DOMAIN subs
        /\ loop.gate \in Gate /\ state.flow[loop.gate].sub = loop.sub
    BY DEF TypeOK, LoopType, LoopInv, Bound
  <1>2. loop.sub # 0 /\ state.flow[loop.gate] \in FlowType
    BY <1>1, SubsAreNumbers DEF TypeOK, FileType
  <1> QED BY <1>1, <1>2 DEF FileInv

LEMMA KeepEvaluationKept == ASSUME RunInv, KeepEvaluation PROVE RunInv'
  <1> DEFINE flow == [state.flow[loop.gate] EXCEPT !.evaluated = TRUE]
  <1>1. at = "keep evaluation" /\ Keep(flow, "submit", loop)
    BY DEF KeepEvaluation
  <1>2. subs[loop.sub].passed = "yes"
    BY <1>1 DEF RunInv, LoopInv, Bound
  <1>3. /\ flow \in FlowType /\ flow.sub = loop.sub
        /\ flow.submitted => InReviewOrPast(loop.sub)
    BY <1>1, BoundFlow DEF FlowType, Bound
  <1> HIDE DEF flow
  <1> QED BY <1>1, <1>2, <1>3, BoundFlow, KeepKept DEF Bound, RunInv, FileInv

LEMMA KeepSubmissionKept == ASSUME RunInv, KeepSubmission PROVE RunInv'
  <1> DEFINE flow == [state.flow[loop.gate] EXCEPT !.submitted = TRUE]
             l == [loop EXCEPT !.result = "awaiting"]
  <1>1. at = "keep submission" /\ Keep(flow, "settle", l)
    BY DEF KeepSubmission
  <1>2. InReviewOrPast(loop.sub)
    BY <1>1 DEF RunInv, LoopInv
  <1>3. /\ flow \in FlowType /\ flow.sub = loop.sub
        /\ flow.evaluated => subs[loop.sub].passed = "yes"
    BY <1>1, BoundFlow DEF FlowType, Bound
  <1>4. l \in LoopType /\ l.gate = loop.gate /\ l.sub = loop.sub /\ l.result = "awaiting"
    BY <1>1, BoundFlow DEF LoopType, Bound
  <1> HIDE DEF flow, l
  <1> QED BY <1>1, <1>2, <1>3, <1>4, BoundFlow, KeepKept DEF Bound

\* A request that the run waits for has an answer.
LEMMA AnsweredKept ==
    ASSUME RunInv, Grows, UNCHANGED <<kind, core, state, handle, late>>,
           at' \in Guarded, loop' \in LoopType, loop'.result = loop.result, LoopInv'
    PROVE  RunInv'
  <1> USE DEF RunInv
  <1>1. SameFile
    BY SameFileAgain
  <1>2. FileInv' /\ SubsInv'
    BY <1>1, FileGrown DEF FileInv, Grows
  <1>3. TypeOK'
    BY DEF TypeOK, Grows
  <1>4. LateInv'
    BY DEF LateInv, Grows
  <1> QED BY <1>2, <1>3, <1>4

LEMMA WorkKept == ASSUME RunInv, Work PROVE RunInv'
  <1>1. /\ UNCHANGED <<kind, core, subs, state, handle, loop, late>>
        /\ at' = "create" /\ loop' \in LoopType /\ Grows
    BY NotTold DEF Work, RunInv, TypeOK
  <1>2. LoopInv'
    BY <1>1 DEF LoopInv, Bound
  <1> QED BY <1>1, <1>2, AnsweredKept DEF Guarded

LEMMA CreateKept == ASSUME RunInv, Create PROVE RunInv'
  <1>1. UNCHANGED <<kind, core, state, handle, late>>
    BY DEF Create
  <1>2. CASE subs' = Created(loop.gate) /\ at' = "note"
             /\ loop' = [loop EXCEPT !.sub = Len(subs) + 1]
    <2>1. loop.gate \in Gate /\ loop \in LoopType /\ Len(subs) + 1 \in Nat
      BY SubsAreNumbers DEF RunInv, TypeOK, LoopType
    <2>2. /\ loop' \in LoopType /\ loop'.sub = Len(subs) + 1
          /\ loop'.gate = loop.gate /\ loop'.result = loop.result
      BY <1>2, <2>1 DEF LoopType
    <2>3. /\ Grows /\ loop'.sub \in DOMAIN subs'
          /\ subs'[loop'.sub].gate = loop'.gate
      BY <1>1, <1>2, <2>1, <2>2, CreatedGrows
    <2>4. LoopInv'
      BY <1>2, <2>3 DEF LoopInv, Bound
    <2> QED BY <1>1, <1>2, <2>2, <2>3, <2>4, AnsweredKept DEF Guarded
  <1>3. CASE UNCHANGED subs /\ Ends("failed", "execution_error")
    BY <1>1, <1>3, NotTold, EndsKept DEF Terminal, Cause
  <1> QED BY <1>2, <1>3 DEF Create

LEMMA EvaluateKept == ASSUME RunInv, Evaluate PROVE RunInv'
  <1>1. UNCHANGED <<kind, core, state, handle, late>> /\ at = "evaluate"
    BY DEF Evaluate
  <1>2. Grows
    BY <1>1, BoundFlow, EvaluatedGrows, NotTold DEF Evaluate, Bound
  <1>3. \/ at' = "keep evaluation" /\ UNCHANGED loop /\ subs'[loop.sub].passed = "yes"
        \/ Ends("fail_closed", "execution_error") \/ Ends("failed", "execution_error")
    BY DEF Evaluate
  <1>4. CASE at' = "keep evaluation" /\ UNCHANGED loop /\ subs'[loop.sub].passed = "yes"
    <2>1. LoopInv'
      BY <1>1, <1>2, <1>4, BoundFlow DEF LoopInv, Bound, Grows
    <2> QED BY <1>1, <1>2, <1>4, <2>1, AnsweredKept DEF Guarded, RunInv, TypeOK
  <1>5. CASE Ends("fail_closed", "execution_error") \/ Ends("failed", "execution_error")
    BY <1>1, <1>2, <1>5, EndsKept DEF Terminal, Cause
  <1> QED BY <1>3, <1>4, <1>5

LEMMA SubmitKept == ASSUME RunInv, Submit PROVE RunInv'
  <1>1. /\ UNCHANGED <<kind, core, state, handle, loop, late>> /\ at = "submit"
        /\ at' = "keep submission"
    BY DEF Submit
  <1>2. loop.sub \in DOMAIN subs /\ subs[loop.sub].passed = "yes"
    BY <1>1, BoundFlow DEF RunInv, LoopInv, Bound
  <1>3. Grows
    BY <1>1, <1>2, SubmittedGrows, NotTold DEF Submit
  <1>4. InReviewOrPast(loop.sub)'
    <2>1. CASE subs[loop.sub].state = "checking"
      BY <1>1, <1>2, <2>1, SubmittedGrows DEF Submit, InReviewOrPast
    <2>2. CASE subs[loop.sub].state # "checking"
      <3>1. subs[loop.sub].state \in Decided \cup {"in_review"}
        BY <1>2, <2>2, SubsAreNumbers DEF RunInv, SubsInv, SubType
      <3> QED BY <1>1, <1>2, <1>3, <3>1 DEF Grows, InReviewOrPast
    <2> QED BY <2>1, <2>2
  <1>5. LoopInv'
    BY <1>1, <1>2, <1>3, <1>4, BoundFlow DEF LoopInv, Bound, Grows
  <1> QED BY <1>1, <1>3, <1>5, AnsweredKept DEF Guarded, RunInv, TypeOK

-----------------------------------------------------------------------------
LEMMA RunInvInit == Init => RunInv
  <1> SUFFICES ASSUME Init PROVE RunInv
    OBVIOUS
  <1> USE DEF Init
  <1>1. subs \in Seq(SubType) /\ DOMAIN subs = {}
    OBVIOUS
  <1>2. core \in CoreType /\ core.gate = 1
    BY RunAssumption DEF CoreType, Open, Owned
  <1>3. state \in FileType
    BY Gates DEF FileType, FlowType, NoFlow, Cause
  <1>4. handle \in HandleType /\ loop \in LoopType
    BY Gates DEF HandleType, LoopType, NoLoop, Cause
  <1>5. TypeOK
    <2>1. kind \in {"owned", "loose"} /\ at = "idle"
      BY RunAssumption
    <2>2. late \in [op : {"none", "create", "evaluate", "submit"}, gate : Gate, sub : Nat]
      BY Gates DEF NoRequest
    <2> QED BY <1>1, <1>2, <1>3, <1>4, <2>1, <2>2 DEF TypeOK
  <1>6. SubsInv
    BY <1>1 DEF SubsInv
  <1>7. FileInv
    BY Gates DEF FileInv, NoFlow, NoLoop
  <1>8. LoopInv /\ LateInv
    BY DEF LoopInv, LateInv, Bound, NoRequest
  <1> QED BY <1>5, <1>6, <1>7, <1>8 DEF RunInv

LEMMA RunInvStep == RunInv /\ [Next]_vars => RunInv'
  <1> SUFFICES ASSUME RunInv, [Next]_vars PROVE RunInv'
    OBVIOUS
  <1>1. CASE UNCHANGED vars
    <2> USE <1>1 DEF vars, RunInv
    <2>1. TypeOK' /\ SubsInv' /\ LateInv'
      BY DEF TypeOK, SubsInv, LateInv
    <2>2. FileInv'
      BY DEF FileInv, InReviewOrPast
    <2>3. LoopInv'
      BY DEF LoopInv, InReviewOrPast, Bound
    <2> QED BY <2>1, <2>2, <2>3
  <1>2. CASE Step
    BY <1>2, MonitorKept, AnnounceKept, ContextKept, AskApprovedKept, QuietStepsKept,
       StageKept, WorkKept, CreateKept, NoteKept, BindKept, EvaluateKept,
       KeepEvaluationKept, SubmitKept, KeepSubmissionKept, PauseKept, SettleKept,
       ReportKept, CloseKept, BreakKept DEF Step
  <1>3. CASE Monitor \/ People
    BY <1>3, MonitorKept, PollRefusedKept, PeopleKept DEF Monitor, People
  <1>4. CASE RequestFails \/ LateLands \/ AbortCall \/ AbortEnds \/ Crash \/ Restart
    BY <1>4, RequestFailsKept, LateLandsKept, AbortKept, CrashKept, RecoverOwnedKept,
       RecoverKept DEF Restart
  <1> QED BY <1>1, <1>2, <1>3, <1>4 DEF Next

\* The inductive invariant of the run holds in every reachable state.
THEOREM RunInvariant == Spec => []RunInv
  <1> QED BY RunInvInit, RunInvStep, PTL DEF Spec

\* Over any number of gates, crashes and aborts, the stages of a gate are worked on
\* only when people have approved every gate before it.
THEOREM ApprovalComesFirst == Spec => []WorkFollowsApproval
  <1>1. RunInv => WorkFollowsApproval
    BY DEF RunInv, LoopInv, FileInv, WorkFollowsApproval
  <1> QED BY <1>1, RunInvariant, PTL

\* Over any losses of answers and late requests, the run's file is not ahead of Core.
THEOREM FileIsNotAhead == Spec => []ProgressIsCores
  <1>1. RunInv => ProgressIsCores
    BY DEF RunInv, FileInv, InReviewOrPast, ProgressIsCores
  <1> QED BY <1>1, RunInvariant, PTL

\* A run whose row in Core has ended begins no work, whoever resumes it.
THEOREM EndedRunsRest == Spec => EndedNeverWorks
  <1> DEFINE Q == Owned /\ core.row \notin Open /\ at # "work" => at' # "work"
  <1>1. RunInv /\ [Next]_vars => [Q]_vars
    <2> SUFFICES ASSUME RunInv, Next, Owned, core.row \notin Open, at # "work",
                        at' = "work"
                 PROVE  FALSE
      BY DEF Q
    <2>1. Stage
      BY DEF Next, Step, Monitor, People, Start, Announce, Context, AskApproved, AskRest,
         Work, Create, Note, Formal, BindingDiverges, Bind, Evaluate, KeepEvaluation,
         Submit, KeepSubmission, Pause, Settle, Report, Close, Break, PollAsk, PollRead,
         PollApproved, PollRefused, Resume, Release, Approve, Reject, Withdraw, Execute,
         RequestFails, LateLands, AbortCall, AbortEnds, Crash, Restart, RecoverOwned,
         RecoverLoose, RecoverRest, Persist, Keep, Ends
    <2>2. core.row = "running"
      BY <2>1 DEF Stage, Persist, Heard, Takes, RowOf, Ends
    <2> QED BY <2>2 DEF Open
  <1> QED BY <1>1, RunInvariant, PTL DEF Spec, EndedNeverWorks
=============================================================================
