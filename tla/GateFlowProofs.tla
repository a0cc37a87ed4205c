---------------------------- MODULE GateFlowProofs ----------------------------
(***************************************************************************)
(* What holds of the gates for any number of work versions, submissions,   *)
(* readiness rows, formal inputs, edits and handlers that open changes:    *)
(* the tables agree, history is in order, and a release delivers what was  *)
(* evaluated and reviewed.                                                 *)
(***************************************************************************)
EXTENDS GateFlow, SequenceTheorems, TLAPS

LEMMA Added ==
    ASSUME NEW S, NEW seq \in Seq(S), NEW v \in S
    PROVE  /\ Append(seq, v) \in Seq(S) /\ Len(Append(seq, v)) = Len(seq) + 1
           /\ Len(seq) \in Nat /\ DOMAIN seq = 1 .. Len(seq)
           /\ DOMAIN Append(seq, v) = DOMAIN seq \cup {Len(seq) + 1}
           /\ Append(seq, v)[Len(seq) + 1] = v
           /\ \A i \in DOMAIN seq : Append(seq, v)[i] = seq[i]
  <1>1. /\ Append(seq, v) \in Seq(S) /\ Len(Append(seq, v)) = Len(seq) + 1
        /\ Append(seq, v)[Len(seq) + 1] = v
        /\ \A i \in 1 .. Len(seq) : Append(seq, v)[i] = seq[i]
    BY AppendProperties
  <1>2. Len(seq) \in Nat /\ DOMAIN seq = 1 .. Len(seq)
    BY LenProperties
  <1>3. DOMAIN Append(seq, v) = 1 .. Len(seq) + 1
    BY <1>1, LenProperties
  <1> QED BY <1>1, <1>2, <1>3

LEMMA Written ==
    ASSUME NEW S, NEW seq \in Seq(S), NEW i \in DOMAIN seq, NEW v \in S
    PROVE  /\ [seq EXCEPT ![i] = v] \in Seq(S) /\ Len([seq EXCEPT ![i] = v]) = Len(seq)
           /\ Len(seq) \in Nat /\ DOMAIN seq = 1 .. Len(seq)
           /\ DOMAIN [seq EXCEPT ![i] = v] = DOMAIN seq
           /\ [seq EXCEPT ![i] = v][i] = v
           /\ \A j \in DOMAIN seq : j # i => [seq EXCEPT ![i] = v][j] = seq[j]
  <1>1. Len(seq) \in Nat /\ DOMAIN seq = 1 .. Len(seq)
    BY LenProperties
  <1>2. /\ [seq EXCEPT ![i] = v] \in Seq(S) /\ Len([seq EXCEPT ![i] = v]) = Len(seq)
        /\ \A j \in 1 .. Len(seq) : [seq EXCEPT ![i] = v][j] = IF j = i THEN v ELSE seq[j]
    BY <1>1, ExceptSeq
  <1> QED BY <1>1, <1>2

LEMMA CandidateTyped ==
    ASSUME TypeOK, NEW w
    PROVE  Candidate(w) \in Candidates /\ <<Candidate(w)>> \in Seq(Candidates)
  <1>1. DOMAIN formal = 1 .. Len(formal) /\ Len(formal) \in Nat /\ Len(releases) \in Nat
    BY LenProperties DEF TypeOK
  <1>2. Latest(ValidFormal(w)) \subseteq Nat
    BY <1>1 DEF ValidFormal, Latest
  <1>3. Candidate(w) \in Candidates
    BY <1>1, <1>2 DEF TypeOK, Candidate, Candidates
  <1> QED BY <1>3

LEMMA RowsAreNumbers ==
    ASSUME TypeOK
    PROVE  /\ DOMAIN work = 1 .. Len(work) /\ Len(work) \in Nat
           /\ DOMAIN subs = 1 .. Len(subs) /\ Len(subs) \in Nat
           /\ DOMAIN ready = 1 .. Len(ready) /\ Len(ready) \in Nat
           /\ DOMAIN releases = 1 .. Len(releases) /\ Len(releases) \in Nat
           /\ DOMAIN change = 1 .. Len(work)
           /\ \A w \in DOMAIN work : work[w] \in WorkType
           /\ \A s \in DOMAIN subs : subs[s] \in SubType
           /\ \A r \in DOMAIN ready : ready[r] \in ReadyType
  BY LenProperties DEF TypeOK

-----------------------------------------------------------------------------
(* What most steps leave alone. *)

\* A step that writes inputs, facts or an opening only.
LEMMA OnlyInputs ==
    ASSUME GateInv, UNCHANGED <<work, change, subs, active, releases, proc>>,
           TypeOK', ReviewKeepsFormalInput'
    PROVE  GateInv'
  <1>1. ProjectIsConsistent' /\ SubmissionInv'
    BY DEF GateInv, ProjectIsConsistent, SubmissionInv, ActiveWork, AtGate
  <1>2. GatesInOrder' /\ BaselineIsLatest'
    BY DEF GateInv, GatesInOrder, BaselineIsLatest
  <1>3. ReleasesFormALine' /\ ReleaseIsWhatWasEvaluated'
    BY DEF GateInv, ReleasesFormALine, ReleaseIsWhatWasEvaluated, ActiveWork
  <1> QED BY <1>1, <1>2, <1>3 DEF GateInv

\* While a work version is worked on, nothing is in review at G4.
LEMMA NoReviewAtWork ==
    ASSUME GateInv, NEW w \in ActiveWork, Working(w), NEW s \in DOMAIN subs
    PROVE  ~(subs[s].gate = 4 /\ subs[s].state = "in_review")
  <1> SUFFICES ASSUME subs[s].gate = 4, subs[s].state = "in_review" PROVE FALSE
    OBVIOUS
  <1>1. subs[s].work \in ActiveWork /\ work[subs[s].work].state = "in_review"
    BY DEF GateInv, ProjectIsConsistent, SubmissionInv, OpenSub, AtGate
  <1>2. subs[s].work = w
    BY <1>1 DEF GateInv, ProjectIsConsistent
  <1> QED BY <1>1, <1>2 DEF Working

\* A submission under way is written, and is not approved.
LEMMA SubWritten ==
    ASSUME GateInv, NEW s \in DOMAIN subs, subs[s].state \in OpenSub,
           NEW v \in SubType, v.work = subs[s].work, v.gate = subs[s].gate,
           v.state # "approved", v.state = "in_review" => v.gate # 4,
           subs' = [subs EXCEPT ![s] = v],
           UNCHANGED <<work, change, inputs, active, releases, proc, facts, opening>>
    PROVE  GateInv'
  <1> USE DEF GateInv
  <1>1. /\ subs' \in Seq(SubType) /\ DOMAIN subs' = DOMAIN subs /\ Len(subs') = Len(subs)
        /\ subs'[s] = v /\ \A t \in DOMAIN subs : t # s => subs'[t] = subs[t]
    BY Written DEF TypeOK
  <1>2. TypeOK'
    BY <1>1 DEF TypeOK, inputs
  <1>3. subs[s].state # "approved"
    BY DEF OpenSub
  <1>4. ProjectIsConsistent'
    BY <1>1 DEF ProjectIsConsistent, ActiveWork, AtGate
  <1>5. SubmissionInv'
    BY <1>1, <1>3 DEF SubmissionInv, TypeOK
  <1>6. GatesInOrder'
    BY <1>1, <1>3 DEF GatesInOrder
  <1>7. BaselineIsLatest'
    <2> SUFFICES ASSUME NEW g \in BaselineGate
                 PROVE  {t \in DOMAIN subs' : subs'[t].gate = g /\ subs'[t].state = "approved"}
                      = {t \in DOMAIN subs : subs[t].gate = g /\ subs[t].state = "approved"}
      BY DEF BaselineIsLatest
    <2> QED BY <1>1, <1>3
  <1>8. ReleasesFormALine'
    BY DEF ReleasesFormALine, ActiveWork
  <1>9. ReleaseIsWhatWasEvaluated'
    BY <1>1, <1>3 DEF ReleaseIsWhatWasEvaluated, SubmissionInv, TypeOK
  <1>10. ReviewKeepsFormalInput'
    <2>1. ASSUME NEW w PROVE ValidFormal(w)' = ValidFormal(w)
      BY DEF ValidFormal, IsLast, ReadyOf, inputs
    <2>2. ASSUME NEW t \in DOMAIN subs', subs'[t].gate = 4, subs'[t].state = "in_review"
          PROVE  t \in DOMAIN subs /\ subs'[t] = subs[t]
      BY <1>1, <2>2
    <2> QED BY <2>1, <2>2 DEF ReviewKeepsFormalInput, Latest
  <1> QED BY <1>2, <1>4, <1>5, <1>6, <1>7, <1>8, <1>9, <1>10

-----------------------------------------------------------------------------
(* Inputs. *)

LEMMA PrepareKept ==
    ASSUME GateInv, NEW w \in DOMAIN work, NEW ok \in BOOLEAN, PrepareReadiness(w, ok)
    PROVE  GateInv'
  <1> DEFINE v == [work |-> w, ok |-> ok, tree |-> facts.tree, confirmed |-> FALSE]
  <1>1. v \in ReadyType
    BY RowsAreNumbers DEF GateInv, TypeOK, ReadyType
  <1>2. ready' = Append(ready, v)
    BY DEF PrepareReadiness
  <1> HIDE DEF v
  <1>3. ready' \in Seq(ReadyType)
    BY <1>1, <1>2, Added DEF GateInv, TypeOK
  <1>4. TypeOK'
    BY <1>3 DEF GateInv, TypeOK, PrepareReadiness
  <1>5. ReviewKeepsFormalInput'
    BY NoReviewAtWork DEF ReviewKeepsFormalInput, PrepareReadiness
  <1> QED BY <1>4, <1>5, OnlyInputs DEF PrepareReadiness

LEMMA ConfirmFormalKept ==
    ASSUME GateInv, NEW w \in DOMAIN work, NEW r \in DOMAIN ready, ConfirmFormalInput(w, r)
    PROVE  GateInv'
  <1>1. PICK b \in active[3] : formal' = Append(formal, [work |-> w, ready |-> r, b1 |-> b])
    BY DEF ConfirmFormalInput
  <1> DEFINE v == [work |-> w, ready |-> r, b1 |-> b]
  <1>2. v \in [work : Nat, ready : Nat, b1 : Nat]
    BY RowsAreNumbers DEF GateInv, TypeOK, BaselineGate
  <1>3. formal' = Append(formal, v)
    BY <1>1
  <1> HIDE DEF v
  <1>4. formal' \in Seq([work : Nat, ready : Nat, b1 : Nat])
    BY <1>2, <1>3, Added DEF GateInv, TypeOK
  <1>5. TypeOK'
    BY <1>4 DEF GateInv, TypeOK, ConfirmFormalInput
  <1>6. ReviewKeepsFormalInput'
    BY NoReviewAtWork DEF ReviewKeepsFormalInput, ConfirmFormalInput
  <1> QED BY <1>5, <1>6, OnlyInputs DEF ConfirmFormalInput

LEMMA OthersKept ==
    ASSUME GateInv,
           \/ \E kind \in {"tree", "results"} : Edit(kind)
           \/ \E o \in Opener, base \in DOMAIN releases : OpenCheck(o, base)
           \/ \E o \in Opener : OpenFails(o)
    PROVE  GateInv'
  <1>1. UNCHANGED <<work, change, inputs, subs, active, releases, proc>>
    BY DEF Edit, OpenCheck, OpenFails
  <1>2. facts' \in [tree : Nat, results : Nat]
    <2>1. ASSUME NEW kind \in {"tree", "results"}, Edit(kind)
          PROVE  facts' \in [tree : Nat, results : Nat]
      <3>1. /\ facts \in [tree : Nat, results : Nat]
            /\ facts' = [facts EXCEPT ![kind] = facts[kind] + 1]
        BY <2>1 DEF GateInv, TypeOK, Edit
      <3>2. facts[kind] + 1 \in Nat
        BY <3>1
      <3> QED BY <3>1, <3>2
    <2> QED BY <2>1 DEF GateInv, TypeOK, OpenCheck, OpenFails
  <1>3. opening' \in [Opener -> Nat]
    <2>1. opening \in [Opener -> Nat]
      BY DEF GateInv, TypeOK
    <2>2. DOMAIN releases \subseteq Nat
      BY RowsAreNumbers DEF GateInv
    <2> QED BY <2>1, <2>2 DEF Edit, OpenCheck, OpenFails
  <1>4. TypeOK'
    BY <1>1, <1>2, <1>3 DEF GateInv, TypeOK, inputs
  <1>5. ReviewKeepsFormalInput'
    BY <1>1 DEF GateInv, ReviewKeepsFormalInput, ValidFormal, IsLast, ReadyOf, inputs
  <1> QED BY <1>1, <1>4, <1>5, OnlyInputs DEF inputs

\* At G4, what is in review holds the last readiness confirmed: there is none to confirm.
LEMMA ConfirmKept ==
    ASSUME GateInv, NEW w \in DOMAIN work, NEW r \in DOMAIN ready, ConfirmReadiness(w, r)
    PROVE  GateInv'
  <1> USE DEF GateInv
  <1> DEFINE v == [ready[r] EXCEPT !.confirmed = TRUE]
             u == [work[w] EXCEPT !.gate = IF work[w].gate = 0 THEN 1 ELSE work[w].gate]
  <1>1. /\ v \in ReadyType
        /\ u \in WorkType /\ u.base = work[w].base /\ u.start = work[w].start
        /\ u.state = work[w].state /\ u.gate = IF work[w].gate = 0 THEN 1 ELSE work[w].gate
    <2>1. ready[r] \in ReadyType /\ work[w] \in WorkType
      BY RowsAreNumbers
    <2>2. v \in ReadyType
      BY <2>1 DEF ReadyType
    <2> DEFINE gate == IF work[w].gate = 0 THEN 1 ELSE work[w].gate
    <2>3. gate \in Gate
      BY <2>1 DEF WorkType, Gate
    <2> HIDE DEF gate
    <2>4. /\ [work[w] EXCEPT !.gate = gate] \in WorkType
          /\ [work[w] EXCEPT !.gate = gate].base = work[w].base
          /\ [work[w] EXCEPT !.gate = gate].start = work[w].start
          /\ [work[w] EXCEPT !.gate = gate].state = work[w].state
          /\ [work[w] EXCEPT !.gate = gate].gate = gate
      BY <2>1, <2>3 DEF WorkType
    <2> QED BY <2>2, <2>4 DEF gate
  <1>2. ready' = [ready EXCEPT ![r] = v] /\ work' = [work EXCEPT ![w] = u]
    BY RowsAreNumbers DEF ConfirmReadiness, ReadyType, WorkType
  <1> HIDE DEF v, u
  <1>3. ready' \in Seq(ReadyType) /\ DOMAIN ready' = DOMAIN ready
    BY <1>1, <1>2, Written DEF TypeOK
  <1>4. /\ work' \in Seq(WorkType) /\ DOMAIN work' = DOMAIN work /\ Len(work') = Len(work)
        /\ work'[w] = u /\ \A x \in DOMAIN work : x # w => work'[x] = work[x]
    BY <1>1, <1>2, Written DEF TypeOK
  <1>5. proc' = IF work[w].gate = 0 THEN 1 ELSE proc
    BY DEF ConfirmReadiness
  <1>6. UNCHANGED <<change, formal, subs, active, releases, facts, opening>>
    BY DEF ConfirmReadiness
  <1>7. w \in ActiveWork /\ ActiveWork' = ActiveWork
    BY <1>1, <1>4 DEF ConfirmReadiness, ActiveWork
  <1>8. TypeOK'
    BY <1>3, <1>4, <1>5, <1>6 DEF TypeOK, Gate
  <1>9. \A s \in DOMAIN subs : subs[s].gate # 0
    BY RowsAreNumbers DEF SubType
  <1>10. ProjectIsConsistent'
    BY <1>1, <1>4, <1>5, <1>6, <1>7, <1>9, RowsAreNumbers DEF ProjectIsConsistent, AtGate
  <1>11. SubmissionInv'
    BY <1>1, <1>4, <1>6 DEF SubmissionInv, TypeOK
  <1>12. GatesInOrder'
    <2> SUFFICES ASSUME NEW x \in DOMAIN work, NEW g \in 1 .. 4, work'[x].start <= g,
                        g < work'[x].gate \/ work'[x].state = "released"
                 PROVE  \E s \in DOMAIN subs :
                          subs[s].work = x /\ subs[s].gate = g /\ subs[s].state = "approved"
      BY <1>4, <1>6 DEF GatesInOrder
    <2>1. work[x].start = work'[x].start /\ work[x].state = work'[x].state
      BY <1>1, <1>4
    <2>2. work'[x].gate = work[x].gate \/ work'[x].gate = 1
      BY <1>1, <1>4
    <2>3. g < work'[x].gate => g < work[x].gate
      BY <2>2
    <2> QED BY <2>1, <2>3 DEF GatesInOrder
  <1>13. BaselineIsLatest'
    BY <1>6 DEF BaselineIsLatest
  <1>14. ReleasesFormALine'
    BY <1>1, <1>4, <1>6, <1>7 DEF ReleasesFormALine, TypeOK, ActiveWork
  <1>15. ReleaseIsWhatWasEvaluated'
    BY <1>6 DEF ReleaseIsWhatWasEvaluated
  <1>16. ReviewKeepsFormalInput'
    <2> SUFFICES ASSUME NEW s \in DOMAIN subs, subs[s].gate = 4, subs[s].state = "in_review"
                 PROVE  FALSE
      BY <1>6 DEF ReviewKeepsFormalInput
    <2>1. subs[s].work = w
      BY <1>7 DEF ProjectIsConsistent, OpenSub, AtGate
    <2>2. PICK f \in ValidFormal(w) : TRUE
      BY <2>1 DEF ReviewKeepsFormalInput
    <2>3. IsLast(w, formal[f].ready) /\ ready[formal[f].ready].confirmed
      BY <2>2 DEF ValidFormal
    <2>4. IsLast(w, r) /\ ~ready[r].confirmed
      BY DEF ConfirmReadiness
    <2> QED BY <2>3, <2>4, RowsAreNumbers DEF IsLast, ReadyOf
  <1> QED BY <1>8, <1>10, <1>11, <1>12, <1>13, <1>14, <1>15, <1>16

-----------------------------------------------------------------------------
(* Submissions. *)

LEMMA CreateKept ==
    ASSUME GateInv, NEW w \in DOMAIN work, CreateSubmission(w)
    PROVE  GateInv'
  <1> USE DEF GateInv
  <1> DEFINE v == [work |-> w, gate |-> work[w].gate, state |-> "preparing", sealed |-> <<>>]
             n == Len(subs) + 1
  <1>1. v \in SubType
    BY RowsAreNumbers, EmptySeq DEF CreateSubmission, SubType, WorkType, OpenSub
  <1>2. subs' = Append(subs, v) /\ v.work = w /\ v.gate = work[w].gate /\ v.state = "preparing"
    BY DEF CreateSubmission
  <1> HIDE DEF v
  <1>3. /\ subs' \in Seq(SubType) /\ Len(subs') = n /\ DOMAIN subs' = DOMAIN subs \cup {n}
        /\ n \notin DOMAIN subs /\ subs'[n] = v
        /\ \A s \in DOMAIN subs : subs'[s] = subs[s]
    BY <1>1, <1>2, Added DEF TypeOK
  <1>4. UNCHANGED <<work, change, inputs, active, releases, proc, facts, opening>>
    BY DEF CreateSubmission
  <1>5. TypeOK'
    BY <1>2, <1>3, <1>4 DEF TypeOK, inputs
  <1>6. w \in ActiveWork /\ OpenSubs(w) = {}
    BY DEF CreateSubmission
  <1>7. \A s \in DOMAIN subs : subs[s].state \notin OpenSub
    BY <1>6 DEF ProjectIsConsistent, AtGate, OpenSubs
  <1>8. ProjectIsConsistent'
    BY <1>2, <1>3, <1>4, <1>6, <1>7 DEF ProjectIsConsistent, ActiveWork, AtGate
  <1>9. SubmissionInv'
    BY <1>2, <1>3, <1>4, <1>7 DEF SubmissionInv, TypeOK
  <1>10. GatesInOrder'
    BY <1>3, <1>4 DEF GatesInOrder
  <1>11. BaselineIsLatest'
    <2> SUFFICES ASSUME NEW g \in BaselineGate
                 PROVE  {t \in DOMAIN subs' : subs'[t].gate = g /\ subs'[t].state = "approved"}
                      = {t \in DOMAIN subs : subs[t].gate = g /\ subs[t].state = "approved"}
      BY <1>4 DEF BaselineIsLatest
    <2> QED BY <1>2, <1>3
  <1>12. ReleasesFormALine'
    BY <1>4 DEF ReleasesFormALine, ActiveWork
  <1>13. ReleaseIsWhatWasEvaluated'
    BY <1>3, <1>4 DEF ReleaseIsWhatWasEvaluated, TypeOK
  <1>14. ReviewKeepsFormalInput'
    BY <1>2, <1>3, <1>7 DEF ReviewKeepsFormalInput, OpenSub
  <1> QED BY <1>5, <1>8, <1>9, <1>10, <1>11, <1>12, <1>13, <1>14

LEMMA EvaluateKept ==
    ASSUME GateInv, NEW s \in DOMAIN subs, NEW passed \in BOOLEAN,
           Evaluate(subs[s].work, s, passed)
    PROVE  GateInv'
  <1> USE DEF GateInv
  <1> DEFINE w == subs[s].work
             state == IF passed THEN "checking" ELSE "rejected"
             sealed == IF passed /\ subs[s].gate = 4 THEN <<Candidate(w)>> ELSE subs[s].sealed
             v == [subs[s] EXCEPT !.state = state, !.sealed = sealed]
  <1>1. subs[s] \in SubType
    BY RowsAreNumbers
  <1>2. state \in {"checking", "rejected"} /\ sealed \in Seq(Candidates)
    BY <1>1, CandidateTyped DEF SubType
  <1>3. subs' = [subs EXCEPT ![s] = v] /\ subs[s].state = "preparing"
    BY <1>1 DEF Evaluate, SubType
  <1> HIDE DEF state, sealed
  <1>4. v \in SubType /\ v.work = subs[s].work /\ v.gate = subs[s].gate /\ v.state = state
    BY <1>1, <1>2 DEF SubType, OpenSub
  <1> HIDE DEF v
  <1> QED BY <1>2, <1>3, <1>4, SubWritten DEF Evaluate, OpenSub

LEMMA TakenBackKept ==
    ASSUME GateInv, NEW s \in DOMAIN subs, Withdraw(s) \/ Reject(s)
    PROVE  GateInv'
  <1> USE DEF GateInv
  <1>1. PICK state \in {"withdrawn", "rejected"} : subs' = [subs EXCEPT ![s].state = state]
    BY DEF Withdraw, Reject
  <1> DEFINE v == [subs[s] EXCEPT !.state = state]
  <1>2. subs[s] \in SubType
    BY RowsAreNumbers
  <1>3. subs' = [subs EXCEPT ![s] = v]
    BY <1>1, <1>2 DEF SubType
  <1>4. v \in SubType /\ v.work = subs[s].work /\ v.gate = subs[s].gate /\ v.state = state
    BY <1>2 DEF SubType
  <1>5. subs[s].state \in OpenSub
    BY DEF Withdraw, Reject, OpenSub
  <1>6. UNCHANGED <<work, change, inputs, active, releases, proc, facts, opening>>
    BY DEF Withdraw, Reject
  <1> HIDE DEF v
  <1> QED BY <1>3, <1>4, <1>5, <1>6, SubWritten

\* A release goes to review with its work version.
LEMMA ReviewBegins ==
    ASSUME GateInv, NEW s \in DOMAIN subs, subs[s].gate = 4, subs[s].state = "checking",
           NEW w \in ActiveWork, w = subs[s].work,
           NEW v \in SubType, v.work = w, v.gate = 4, v.state = "in_review",
           v.sealed = <<Candidate(w)>>, ValidFormal(w) # {},
           NEW u \in WorkType, u.base = work[w].base, u.start = work[w].start,
           u.gate = work[w].gate, u.state = "in_review",
           subs' = [subs EXCEPT ![s] = v], work' = [work EXCEPT ![w] = u],
           UNCHANGED <<change, inputs, active, releases, proc, facts, opening>>
    PROVE  GateInv'
  <1> USE DEF GateInv
  <1>0. w \in DOMAIN work /\ work[w].state \in {"working", "in_review"}
    BY DEF ActiveWork
  <1>1. /\ subs' \in Seq(SubType) /\ DOMAIN subs' = DOMAIN subs /\ Len(subs') = Len(subs)
        /\ subs'[s] = v /\ \A t \in DOMAIN subs : t # s => subs'[t] = subs[t]
    BY Written DEF TypeOK
  <1>2. /\ work' \in Seq(WorkType) /\ DOMAIN work' = DOMAIN work /\ Len(work') = Len(work)
        /\ work'[w] = u /\ \A x \in DOMAIN work : x # w => work'[x] = work[x]
    BY <1>0, Written DEF TypeOK
  <1>3. ActiveWork' = ActiveWork
    BY <1>0, <1>2 DEF ActiveWork
  <1>4. TypeOK'
    BY <1>0, <1>1, <1>2 DEF TypeOK, inputs
  <1>5. ProjectIsConsistent'
    <2>1. \A x \in DOMAIN work : work'[x].gate = work[x].gate
      BY <1>2
    <2>2. \A x \in 2 .. Len(work) :
            /\ work'[x].state = "released" <=> work[x].state = "released"
            /\ work'[x].state = "abandoned" <=> work[x].state = "abandoned"
      BY <1>0, <1>2, RowsAreNumbers
    <2>3. \A t \in DOMAIN subs : /\ subs'[t].state \in OpenSub <=> subs[t].state \in OpenSub
                                 /\ subs'[t].gate = subs[t].gate
                                 /\ subs'[t].work = subs[t].work
      BY <1>1 DEF OpenSub
    <2>4. ActiveWork \subseteq DOMAIN work
      BY DEF ActiveWork
    <2>5. /\ \A x, y \in ActiveWork' : x = y
          /\ \A x \in ActiveWork' : proc' = work'[x].gate
          /\ ActiveWork' = {} => proc' = 4
      BY <1>3, <2>1, <2>4 DEF ProjectIsConsistent
    <2>6. \A t \in DOMAIN subs' : subs'[t].state \in OpenSub =>
            /\ subs'[t].work \in ActiveWork' /\ subs'[t].gate = work'[subs'[t].work].gate
            /\ \A q \in DOMAIN subs' : subs'[q].state \in OpenSub => t = q
      BY <1>1, <1>3, <2>1, <2>3, <2>4 DEF ProjectIsConsistent, AtGate
    <2>7. \A x \in 2 .. Len(work') :
            change'[x] = CASE work'[x].state = "released" -> "released"
                           [] work'[x].state = "abandoned" -> "withdrawn"
                           [] OTHER -> "open"
      BY <1>2, <2>2 DEF ProjectIsConsistent
    <2> QED BY <2>5, <2>6, <2>7 DEF ProjectIsConsistent, AtGate
  <1>6. SubmissionInv'
    BY <1>0, <1>1, <1>2 DEF SubmissionInv, OpenSub, TypeOK
  <1>7. GatesInOrder'
    BY <1>0, <1>1, <1>2 DEF GatesInOrder
  <1>8. BaselineIsLatest'
    <2> SUFFICES ASSUME NEW g \in BaselineGate
                 PROVE  {t \in DOMAIN subs' : subs'[t].gate = g /\ subs'[t].state = "approved"}
                      = {t \in DOMAIN subs : subs[t].gate = g /\ subs[t].state = "approved"}
      BY DEF BaselineIsLatest
    <2> QED BY <1>1
  <1>9. ReleasesFormALine'
    <2>1. \A x \in DOMAIN work : work'[x].base = work[x].base
      BY <1>2
    <2>2. ActiveWork \subseteq DOMAIN work
      BY DEF ActiveWork
    <2> QED BY <1>3, <2>1, <2>2 DEF ReleasesFormALine, TypeOK
  <1>10. ReleaseIsWhatWasEvaluated'
    BY <1>1 DEF ReleaseIsWhatWasEvaluated, SubmissionInv, TypeOK
  <1>11. ReviewKeepsFormalInput'
    <2>1. ASSUME NEW x PROVE ValidFormal(x)' = ValidFormal(x)
      BY DEF ValidFormal, IsLast, ReadyOf, inputs
    <2>2. v.sealed[1].formal = Latest(ValidFormal(w))
      BY DEF Candidate
    <2> QED BY <1>1, <2>1, <2>2 DEF ReviewKeepsFormalInput, Latest
  <1> QED BY <1>4, <1>5, <1>6, <1>7, <1>8, <1>9, <1>10, <1>11

LEMMA SubmitKept ==
    ASSUME GateInv, NEW s \in DOMAIN subs, Submit(subs[s].work, s)
    PROVE  GateInv'
  <1> USE DEF GateInv
  <1> DEFINE w == subs[s].work
             v == [subs[s] EXCEPT !.state = "in_review"]
             u == [work[w] EXCEPT !.state = "in_review"]
  <1>1. subs[s] \in SubType /\ w \in DOMAIN work /\ work[w] \in WorkType
    BY RowsAreNumbers DEF TypeOK
  <1>2. /\ v \in SubType /\ v.work = w /\ v.gate = subs[s].gate /\ v.state = "in_review"
        /\ v.sealed = subs[s].sealed
    BY <1>1 DEF SubType, OpenSub
  <1>3. subs' = [subs EXCEPT ![s] = v]
    BY <1>1 DEF Submit, SubType
  <1>4. subs[s].state = "checking" /\ w \in ActiveWork
    BY DEF Submit, AtGate
  <1>5. UNCHANGED <<change, inputs, active, releases, proc, facts, opening>>
    BY DEF Submit
  <1>6. CASE subs[s].gate # 4
    <2>1. work[w] = [work[w] EXCEPT !.state = work[w].state]
      BY <1>1 DEF WorkType
    <2>2. work' = [work EXCEPT ![w] = [work[w] EXCEPT !.state = work[w].state]]
      BY <1>1, <1>6 DEF Submit, WorkType
    <2>3. work \in [1 .. Len(work) -> WorkType]
      BY LenProperties DEF TypeOK
    <2>4. work' = work
      BY <2>1, <2>2, <2>3
    <2> HIDE DEF v
    <2> QED BY <1>2, <1>3, <1>4, <1>5, <1>6, <2>4, SubWritten DEF OpenSub
  <1>7. CASE subs[s].gate = 4
    <2>1. /\ u \in WorkType /\ u.base = work[w].base /\ u.start = work[w].start
          /\ u.gate = work[w].gate /\ u.state = "in_review"
      BY <1>1 DEF WorkType
    <2>2. work' = [work EXCEPT ![w] = u]
      BY <1>1, <1>7 DEF Submit, WorkType
    <2>3. ValidFormal(w) # {} /\ subs[s].sealed = <<Candidate(w)>>
      BY <1>7 DEF Submit, Revalidated
    <2> HIDE DEF v, u
    <2> QED BY <1>2, <1>3, <1>4, <1>5, <1>7, <2>1, <2>2, <2>3, ReviewBegins
  <1> QED BY <1>6, <1>7

-----------------------------------------------------------------------------
(* Approvals. *)

\* The approved submission is the last one, so its baseline is the latest.
LEMMA BaselineApproved ==
    ASSUME GateInv, NEW s \in DOMAIN subs, subs[s].state = "in_review",
           NEW v \in SubType, v.gate = subs[s].gate, v.state = "approved",
           subs' = [subs EXCEPT ![s] = v], active' = NewBaseline(s)
    PROVE  BaselineIsLatest' /\ active' \in [BaselineGate -> SUBSET Nat]
  <1> USE DEF GateInv
  <1> DEFINE Approved(g) == {t \in DOMAIN subs : subs[t].gate = g /\ subs[t].state = "approved"}
  <1>1. /\ DOMAIN subs' = DOMAIN subs /\ subs'[s] = v
        /\ \A t \in DOMAIN subs : t # s => subs'[t] = subs[t]
    BY Written DEF TypeOK
  <1>2. s = Len(subs)
    BY DEF SubmissionInv, OpenSub
  <1>3. DOMAIN subs \subseteq Nat /\ \A t \in DOMAIN subs : t <= s
    BY <1>2, RowsAreNumbers
  <1>4. active \in [BaselineGate -> SUBSET Nat]
    BY DEF TypeOK
  <1>5. active' \in [BaselineGate -> SUBSET Nat]
    BY <1>3, <1>4 DEF NewBaseline
  <1>6. ASSUME NEW g \in BaselineGate
        PROVE  active'[g] = Latest({t \in DOMAIN subs' : subs'[t].gate = g
                                                      /\ subs'[t].state = "approved"})
    <2>1. CASE g = subs[s].gate
      <3>1. active'[g] = {s}
        BY <1>4, <2>1 DEF NewBaseline
      <3>2. {t \in DOMAIN subs' : subs'[t].gate = g /\ subs'[t].state = "approved"}
            = Approved(g) \cup {s}
        BY <1>1, <2>1
      <3>3. Latest(Approved(g) \cup {s}) = {s}
        BY <1>3 DEF Latest
      <3> QED BY <3>1, <3>2, <3>3
    <2>2. CASE g # subs[s].gate
      <3>1. active'[g] = active[g]
        BY <1>4, <2>2 DEF NewBaseline
      <3>2. {t \in DOMAIN subs' : subs'[t].gate = g /\ subs'[t].state = "approved"}
            = Approved(g)
        BY <1>1, <2>2
      <3> QED BY <3>1, <3>2 DEF BaselineIsLatest
    <2> QED BY <2>1, <2>2
  <1> QED BY <1>5, <1>6 DEF BaselineIsLatest

\* What an approval does to the submissions: nothing is under way any more, and what
\* was approved stays so.
Approves(s) ==
    /\ subs' \in Seq(SubType) /\ DOMAIN subs' = DOMAIN subs
    /\ subs'[s].work = subs[s].work /\ subs'[s].gate = subs[s].gate
    /\ subs'[s].state = "approved" /\ subs'[s].sealed = subs[s].sealed
    /\ \A t \in DOMAIN subs : t # s => subs'[t] = subs[t]
    /\ \A t \in DOMAIN subs : subs'[t].state \notin OpenSub
    /\ active' \in [BaselineGate -> SUBSET Nat] /\ BaselineIsLatest' /\ ReviewKeepsFormalInput'

LEMMA ApprovalWrites ==
    ASSUME GateInv, NEW s \in DOMAIN subs, Approvable(subs[s].work, s)
    PROVE  Approves(s)
  <1> USE DEF GateInv
  <1> DEFINE v == [subs[s] EXCEPT !.state = "approved"]
  <1>1. subs[s] \in SubType
    BY RowsAreNumbers
  <1>2. /\ v \in SubType /\ v.work = subs[s].work /\ v.gate = subs[s].gate
        /\ v.state = "approved" /\ v.sealed = subs[s].sealed
    BY <1>1 DEF SubType
  <1>3. subs' = [subs EXCEPT ![s] = v] /\ active' = NewBaseline(s)
    BY <1>1 DEF Approvable, SubType
  <1>4. subs[s].state = "in_review"
    BY DEF Approvable
  <1> HIDE DEF v
  <1>5. /\ subs' \in Seq(SubType) /\ DOMAIN subs' = DOMAIN subs /\ subs'[s] = v
        /\ \A t \in DOMAIN subs : t # s => subs'[t] = subs[t]
    BY <1>2, <1>3, Written DEF TypeOK
  <1>6. \A t \in DOMAIN subs : subs'[t].state \notin OpenSub
    BY <1>2, <1>4, <1>5 DEF ProjectIsConsistent, OpenSub
  <1>7. BaselineIsLatest' /\ active' \in [BaselineGate -> SUBSET Nat]
    BY <1>2, <1>3, <1>4, BaselineApproved
  <1>8. ReviewKeepsFormalInput'
    BY <1>5, <1>6 DEF ReviewKeepsFormalInput, OpenSub
  <1> QED BY <1>2, <1>5, <1>6, <1>7, <1>8 DEF Approves

LEMMA ApproveGateKept ==
    ASSUME GateInv, NEW s \in DOMAIN subs, NEW w, w = subs[s].work, ApproveGate(w, s)
    PROVE  GateInv'
  <1> USE DEF GateInv
  <1> DEFINE g == work[w].gate
             u == [work[w] EXCEPT !.gate = g + 1]
  <1>1. /\ w \in ActiveWork /\ w \in DOMAIN work /\ work[w] \in WorkType
        /\ subs[s].gate = g /\ g \in 1 .. 3
    BY RowsAreNumbers DEF ApproveGate, Approvable, AtGate, ActiveWork, SubType, Gate
  <1>2. /\ u \in WorkType /\ u.base = work[w].base /\ u.start = work[w].start
        /\ u.gate = g + 1 /\ u.state = work[w].state
    BY <1>1 DEF WorkType, Gate
  <1>3. work' = [work EXCEPT ![w] = u] /\ proc' = g + 1
    BY <1>1 DEF ApproveGate, WorkType
  <1>4. UNCHANGED <<change, inputs, releases, facts, opening>>
    BY DEF ApproveGate
  <1>5. Approves(s)
    BY ApprovalWrites DEF ApproveGate
  <1> HIDE DEF u, g
  <1>6. /\ work' \in Seq(WorkType) /\ DOMAIN work' = DOMAIN work /\ Len(work') = Len(work)
        /\ work'[w] = u /\ \A x \in DOMAIN work : x # w => work'[x] = work[x]
    BY <1>1, <1>2, <1>3, Written DEF TypeOK
  <1>7. ActiveWork' = ActiveWork
    BY <1>1, <1>2, <1>6 DEF ActiveWork
  <1>8. TypeOK'
    <2>1. proc' \in Gate
      BY <1>1, <1>3 DEF Gate
    <2> QED BY <1>4, <1>5, <1>6, <2>1 DEF TypeOK, Approves, inputs
  <1>9. ProjectIsConsistent'
    <2>1. \A x \in 2 .. Len(work) : work'[x].state = work[x].state
      BY <1>2, <1>6, RowsAreNumbers
    <2>2. \A x \in ActiveWork : x = w
      BY <1>1 DEF ProjectIsConsistent
    <2>3. /\ \A x, y \in ActiveWork' : x = y
          /\ \A x \in ActiveWork' : proc' = work'[x].gate
          /\ ActiveWork' # {}
      BY <1>1, <1>2, <1>3, <1>6, <1>7, <2>2
    <2>4. \A x \in 2 .. Len(work') :
            change'[x] = CASE work'[x].state = "released" -> "released"
                           [] work'[x].state = "abandoned" -> "withdrawn"
                           [] OTHER -> "open"
      BY <1>4, <1>6, <2>1 DEF ProjectIsConsistent
    <2>5. \A t \in DOMAIN subs' : subs'[t].state \notin OpenSub
      BY <1>5 DEF Approves
    <2> QED BY <2>3, <2>4, <2>5 DEF ProjectIsConsistent
  <1>10. SubmissionInv'
    BY <1>4, <1>5 DEF SubmissionInv, Approves, OpenSub, TypeOK
  <1>11. GatesInOrder'
    <2> SUFFICES ASSUME NEW x \in DOMAIN work, NEW h \in 1 .. 4, work'[x].start <= h,
                        h < work'[x].gate \/ work'[x].state = "released"
                 PROVE  \E t \in DOMAIN subs' :
                          subs'[t].work = x /\ subs'[t].gate = h /\ subs'[t].state = "approved"
      BY <1>6 DEF GatesInOrder
    <2>1. work'[x].start = work[x].start /\ work'[x].state = work[x].state
      BY <1>2, <1>6
    <2>2. CASE x = w /\ h = g
      BY <1>1, <1>5, <2>2 DEF Approves, g
    <2>3. CASE ~(x = w /\ h = g)
      <3>1. h < work'[x].gate => h < work[x].gate
        BY <1>1, <1>2, <1>6, <2>3 DEF g
      <3>2. PICK t \in DOMAIN subs :
              subs[t].work = x /\ subs[t].gate = h /\ subs[t].state = "approved"
        BY <2>1, <3>1 DEF GatesInOrder
      <3>3. subs'[t].work = x /\ subs'[t].gate = h /\ subs'[t].state = "approved"
        BY <1>5, <3>2 DEF Approves
      <3> QED BY <1>5, <3>2, <3>3 DEF Approves
    <2> QED BY <2>2, <2>3
  <1>12. ReleasesFormALine'
    <2>1. \A x \in DOMAIN work : work'[x].base = work[x].base
      BY <1>2, <1>6
    <2>2. ActiveWork \subseteq DOMAIN work
      BY DEF ActiveWork
    <2> QED BY <1>4, <1>7, <2>1, <2>2 DEF ReleasesFormALine, TypeOK
  <1>13. ReleaseIsWhatWasEvaluated'
    BY <1>4, <1>5 DEF ReleaseIsWhatWasEvaluated, Approves, TypeOK
  <1> QED BY <1>5, <1>8, <1>9, <1>10, <1>11, <1>12, <1>13 DEF Approves

LEMMA ApproveReleaseKept ==
    ASSUME GateInv, NEW s \in DOMAIN subs, NEW w, w = subs[s].work, ApproveRelease(w, s)
    PROVE  GateInv'
  <1> USE DEF GateInv
  <1> DEFINE u == [work[w] EXCEPT !.state = "released"]
             n == Len(releases) + 1
             rel == [work |-> w, sub |-> s, content |-> Candidate(w)]
             c == IF change[w] = "open" THEN "released" ELSE change[w]
             States == {"none", "open", "released", "withdrawn"}
  <1>1. /\ w \in ActiveWork /\ w \in DOMAIN work /\ work[w] \in WorkType
        /\ work[w].gate = 4 /\ subs[s].gate = 4 /\ work[w].state = "in_review"
    BY RowsAreNumbers DEF ApproveRelease, Approvable, AtGate, ActiveWork
  <1>2. /\ u \in WorkType /\ u.base = work[w].base /\ u.start = work[w].start
        /\ u.gate = work[w].gate /\ u.state = "released"
    BY <1>1 DEF WorkType
  <1>3. work' = [work EXCEPT ![w] = u] /\ proc' = 4 /\ UNCHANGED <<inputs, facts, opening>>
    BY <1>1 DEF ApproveRelease, WorkType
  <1>4. Approves(s) /\ subs[s].sealed = <<Candidate(w)>>
    BY <1>1, ApprovalWrites DEF ApproveRelease, Approvable, Revalidated
  <1>5. rel \in ReleaseType /\ rel.content.version = n
    BY <1>1, RowsAreNumbers, CandidateTyped DEF Candidate, ReleaseType
  <1>6. /\ releases' = Append(releases, rel)
        /\ rel.work = w /\ rel.sub = s /\ rel.content = Candidate(w)
    BY DEF ApproveRelease
  <1>7. w \in DOMAIN change /\ c \in States /\ change' = [change EXCEPT ![w] = c]
    <2>1. w \in DOMAIN change /\ change \in [DOMAIN change -> States]
      BY <1>1, RowsAreNumbers, LenProperties DEF TypeOK
    <2> QED BY <2>1 DEF ApproveRelease
  <1> HIDE DEF u, rel
  <1>8. /\ work' \in Seq(WorkType) /\ DOMAIN work' = DOMAIN work /\ Len(work') = Len(work)
        /\ work'[w] = u /\ \A x \in DOMAIN work : x # w => work'[x] = work[x]
    BY <1>1, <1>2, <1>3, Written DEF TypeOK
  <1>9. /\ releases' \in Seq(ReleaseType)
        /\ Len(releases') = n /\ DOMAIN releases' = DOMAIN releases \cup {n}
        /\ releases'[n] = rel /\ \A r \in DOMAIN releases : releases'[r] = releases[r]
    BY <1>5, <1>6, Added DEF TypeOK
  <1>18. Len(releases) \in Nat /\ n = Len(releases) + 1
    BY RowsAreNumbers
  <1> HIDE DEF c, States, n
  <1>19. \A r \in DOMAIN releases' :
           \/ r \in DOMAIN releases /\ releases'[r] = releases[r]
           \/ /\ r = n /\ releases'[r].work = w /\ releases'[r].sub = s
              /\ releases'[r].content = Candidate(w)
    BY <1>6, <1>9
  <1>10. /\ change' \in Seq(States) /\ Len(change') = Len(change) /\ DOMAIN change' = DOMAIN change
         /\ change'[w] = c /\ \A x \in DOMAIN change : x # w => change'[x] = change[x]
    <2>1. change \in Seq(States)
      BY DEF TypeOK, States
    <2> QED BY <1>7, <2>1, Written
  <1>11. ActiveWork' = {}
    <2>1. \A x \in ActiveWork : x = w
      BY <1>1 DEF ProjectIsConsistent
    <2> QED BY <1>2, <1>8, <2>1 DEF ActiveWork
  <1>12. TypeOK'
    <2>1. \A r \in DOMAIN releases' :
            releases'[r].work \in DOMAIN work /\ releases'[r].sub \in DOMAIN subs
      BY <1>1, <1>19 DEF TypeOK
    <2>2. \A t \in DOMAIN subs : subs'[t].work \in DOMAIN work
      BY <1>4 DEF TypeOK, Approves
    <2>3. change' \in Seq({"none", "open", "released", "withdrawn"}) /\ Len(change') = Len(work')
      BY <1>8, <1>10 DEF TypeOK, States
    <2>4. subs' \in Seq(SubType) /\ active' \in [BaselineGate -> SUBSET Nat]
      BY <1>4 DEF Approves
    <2>5. \A t \in DOMAIN subs' : subs'[t].work \in DOMAIN work'
      BY <1>4, <1>8, <2>2 DEF Approves
    <2>6. \A r \in DOMAIN releases' :
            releases'[r].work \in DOMAIN work' /\ releases'[r].sub \in DOMAIN subs'
      BY <1>4, <1>8, <2>1 DEF Approves
    <2>7. proc' \in Gate
      BY <1>3 DEF Gate
    <2> QED BY <1>3, <1>8, <1>9, <2>3, <2>4, <2>5, <2>6, <2>7 DEF TypeOK, inputs
  <1>13. ProjectIsConsistent'
    <2>1. \A x \in 2 .. Len(work') :
            change'[x] = CASE work'[x].state = "released" -> "released"
                           [] work'[x].state = "abandoned" -> "withdrawn"
                           [] OTHER -> "open"
      <3> SUFFICES ASSUME NEW x \in 2 .. Len(work)
                   PROVE  change'[x] = CASE work'[x].state = "released" -> "released"
                                         [] work'[x].state = "abandoned" -> "withdrawn"
                                         [] OTHER -> "open"
        BY <1>8
      <3>1. x \in DOMAIN work /\ x \in DOMAIN change
        BY RowsAreNumbers
      <3>2. CASE x = w
        <4>1. change[x] = "open"
          BY <1>1, <3>2 DEF ProjectIsConsistent
        <4> QED BY <1>2, <1>8, <1>10, <3>2, <4>1 DEF c
      <3>3. CASE x # w
        BY <1>8, <1>10, <3>1, <3>3 DEF ProjectIsConsistent
      <3> QED BY <3>2, <3>3
    <2>2. \A t \in DOMAIN subs' : subs'[t].state \notin OpenSub
      BY <1>4 DEF Approves
    <2> QED BY <1>3, <1>11, <2>1, <2>2 DEF ProjectIsConsistent
  <1>14. SubmissionInv'
    <2>1. \A r \in DOMAIN releases' : subs'[releases'[r].sub].state = "approved"
      BY <1>4, <1>19 DEF SubmissionInv, Approves, TypeOK
    <2> QED BY <1>4, <2>1 DEF SubmissionInv, Approves, OpenSub
  <1>15. GatesInOrder'
    <2> SUFFICES ASSUME NEW x \in DOMAIN work, NEW h \in 1 .. 4, work'[x].start <= h,
                        h < work'[x].gate \/ work'[x].state = "released"
                 PROVE  \E t \in DOMAIN subs' :
                          subs'[t].work = x /\ subs'[t].gate = h /\ subs'[t].state = "approved"
      BY <1>8 DEF GatesInOrder
    <2>1. CASE x = w /\ h = 4
      BY <1>1, <1>4, <2>1 DEF Approves
    <2>2. CASE ~(x = w /\ h = 4)
      <3>1. work[x].start <= h /\ (h < work[x].gate \/ work[x].state = "released")
        BY <1>1, <1>2, <1>8, <2>2
      <3>2. PICK t \in DOMAIN subs :
              subs[t].work = x /\ subs[t].gate = h /\ subs[t].state = "approved"
        BY <3>1 DEF GatesInOrder
      <3>3. subs'[t].work = x /\ subs'[t].gate = h /\ subs'[t].state = "approved"
        BY <1>4, <3>2 DEF Approves
      <3> QED BY <1>4, <3>2, <3>3 DEF Approves
    <2> QED BY <2>1, <2>2
  <1>16. ReleasesFormALine'
    <2>1. \A x \in DOMAIN work : work'[x].base = work[x].base
      BY <1>2, <1>8
    <2>2. work[w].base = n - 1
      BY <1>1, <1>18 DEF ReleasesFormALine
    <2>3. \A r \in DOMAIN releases' : work'[releases'[r].work].base = r - 1
      BY <1>1, <1>19, <2>1, <2>2 DEF ReleasesFormALine, TypeOK
    <2> QED BY <1>11, <2>3 DEF ReleasesFormALine
  <1>17. ReleaseIsWhatWasEvaluated'
    <2>1. subs'[s].sealed = <<Candidate(w)>> /\ Candidate(w).version = n
      BY <1>4, <1>5, <1>6 DEF Approves
    <2>2. \A r \in DOMAIN releases : releases[r].sub \in DOMAIN subs /\ releases[r].sub # s
      BY DEF ApproveRelease, Approvable, SubmissionInv, TypeOK
    <2> QED BY <1>4, <1>19, <2>1, <2>2 DEF ReleaseIsWhatWasEvaluated, Approves
  <1> QED BY <1>4, <1>12, <1>13, <1>14, <1>15, <1>16, <1>17 DEF Approves

-----------------------------------------------------------------------------
(* Change requests. *)

LEMMA OpenInsertKept ==
    ASSUME GateInv, NEW o \in Opener, NEW g \in 1 .. 4, OpenInsert(o, g)
    PROVE  GateInv'
  <1> USE DEF GateInv
  <1> DEFINE u == NewWork(opening[o], g)
             n == Len(work) + 1
             States == {"none", "open", "released", "withdrawn"}
  <1>1. /\ u \in WorkType /\ u.base = Len(releases) /\ u.start = g /\ u.gate = g
        /\ u.state = "working"
    BY DEF OpenInsert, NewWork, WorkType, TypeOK, Gate
  <1>2. /\ work' = Append(work, u) /\ change' = Append(change, "open") /\ proc' = g
        /\ opening' = [opening EXCEPT ![o] = 0] /\ ActiveWork = {}
        /\ UNCHANGED <<inputs, subs, active, releases, facts>>
    BY DEF OpenInsert
  <1> HIDE DEF u
  <1>3. /\ work' \in Seq(WorkType) /\ Len(work') = n /\ DOMAIN work' = DOMAIN work \cup {n}
        /\ n \notin DOMAIN work /\ work'[n] = u /\ \A x \in DOMAIN work : work'[x] = work[x]
    BY <1>1, <1>2, Added DEF TypeOK
  <1>4. /\ change' \in Seq(States) /\ Len(change') = n /\ change'[n] = "open"
        /\ \A x \in DOMAIN work : change'[x] = change[x]
    BY <1>2, Added, RowsAreNumbers DEF TypeOK
  <1>5. Len(work) \in Nat /\ DOMAIN work = 1 .. Len(work) /\ n = Len(work) + 1
    BY RowsAreNumbers
  <1> HIDE DEF n
  <1>6. ActiveWork' = {n}
    BY <1>1, <1>2, <1>3 DEF ActiveWork
  <1>7. \A s \in DOMAIN subs : subs[s].state \notin OpenSub /\ subs[s].work \in DOMAIN work
    BY <1>2 DEF ProjectIsConsistent, AtGate, TypeOK
  <1>8. TypeOK'
    <2>1. opening' \in [Opener -> Nat] /\ proc' \in Gate
      BY <1>2 DEF TypeOK, Gate
    <2> QED BY <1>2, <1>3, <1>4, <2>1 DEF TypeOK, inputs, States
  <1>9. ProjectIsConsistent'
    <2>1. \A x \in 2 .. Len(work') :
            change'[x] = CASE work'[x].state = "released" -> "released"
                           [] work'[x].state = "abandoned" -> "withdrawn"
                           [] OTHER -> "open"
      <3> SUFFICES ASSUME NEW x \in 2 .. n
                   PROVE  change'[x] = CASE work'[x].state = "released" -> "released"
                                         [] work'[x].state = "abandoned" -> "withdrawn"
                                         [] OTHER -> "open"
        BY <1>3
      <3>1. CASE x = n
        BY <1>1, <1>3, <1>4, <3>1
      <3>2. CASE x # n
        <4>1. x \in DOMAIN work /\ x \in 2 .. Len(work)
          BY <1>5, <3>2
        <4> QED BY <1>3, <1>4, <4>1 DEF ProjectIsConsistent
      <3> QED BY <3>1, <3>2
    <2> QED BY <1>1, <1>2, <1>3, <1>6, <1>7, <2>1 DEF ProjectIsConsistent
  <1>10. SubmissionInv'
    BY <1>2, <1>3, <1>7 DEF SubmissionInv, OpenSub
  <1>11. GatesInOrder'
    <2> SUFFICES ASSUME NEW x \in DOMAIN work', NEW h \in 1 .. 4, work'[x].start <= h,
                        h < work'[x].gate \/ work'[x].state = "released"
                 PROVE  \E t \in DOMAIN subs :
                          subs[t].work = x /\ subs[t].gate = h /\ subs[t].state = "approved"
      BY <1>2 DEF GatesInOrder
    <2>1. x \in DOMAIN work
      BY <1>1, <1>3
    <2> QED BY <1>3, <2>1 DEF GatesInOrder
  <1>12. BaselineIsLatest'
    BY <1>2 DEF BaselineIsLatest
  <1>13. ReleasesFormALine'
    BY <1>1, <1>2, <1>3, <1>6 DEF ReleasesFormALine, TypeOK
  <1>14. ReleaseIsWhatWasEvaluated'
    BY <1>2 DEF ReleaseIsWhatWasEvaluated
  <1>15. ReviewKeepsFormalInput'
    BY <1>2, <1>7 DEF ReviewKeepsFormalInput, OpenSub
  <1> QED BY <1>8, <1>9, <1>10, <1>11, <1>12, <1>13, <1>14, <1>15

LEMMA WithdrawChangeKept ==
    ASSUME GateInv, NEW w \in DOMAIN work, WithdrawChange(w)
    PROVE  GateInv'
  <1> USE DEF GateInv
  <1> DEFINE u == [work[w] EXCEPT !.state = "abandoned"]
             v(s) == [subs[s] EXCEPT !.state = "withdrawn"]
             States == {"none", "open", "released", "withdrawn"}
  <1>1. w \in ActiveWork /\ work[w] \in WorkType /\ change[w] = "open"
    BY RowsAreNumbers DEF WithdrawChange
  <1>2. /\ u \in WorkType /\ u.base = work[w].base /\ u.start = work[w].start
        /\ u.gate = work[w].gate /\ u.state = "abandoned"
    BY <1>1 DEF WorkType
  <1>3. /\ work' = [work EXCEPT ![w] = u] /\ proc' = 4
        /\ UNCHANGED <<inputs, active, releases, facts, opening>>
    BY <1>1 DEF WithdrawChange, WorkType
  <1>4. \A s \in DOMAIN subs : /\ subs[s] \in SubType
                               /\ v(s) \in SubType /\ v(s).work = subs[s].work
                               /\ v(s).gate = subs[s].gate /\ v(s).state = "withdrawn"
                               /\ v(s).sealed = subs[s].sealed
    BY RowsAreNumbers DEF SubType
  <1>5. subs' = [s \in DOMAIN subs |-> IF s \in OpenSubs(w) THEN v(s) ELSE subs[s]]
    BY DEF WithdrawChange
  <1> HIDE DEF u, v
  <1>6. \A s \in DOMAIN subs : s \in OpenSubs(w) <=> subs[s].state \in OpenSub
    BY <1>1 DEF OpenSubs, ProjectIsConsistent, AtGate
  <1>7. /\ subs' \in Seq(SubType) /\ DOMAIN subs' = DOMAIN subs
        /\ \A s \in DOMAIN subs :
             \/ subs'[s] = subs[s] /\ subs[s].state \notin OpenSub
             \/ /\ subs[s].state \in OpenSub /\ subs'[s].work = subs[s].work
                /\ subs'[s].state = "withdrawn"
    <2>1. DOMAIN subs = 1 .. Len(subs) /\ Len(subs) \in Nat
      BY RowsAreNumbers
    <2>2. subs' \in [1 .. Len(subs) -> SubType]
      BY <1>4, <1>5, <2>1
    <2>3. subs' \in Seq(SubType)
      BY <2>1, <2>2
    <2> QED BY <1>4, <1>5, <1>6, <2>3
  <1>8. change' = [change EXCEPT ![w] = "withdrawn"]
    BY DEF WithdrawChange
  <1>9. /\ work' \in Seq(WorkType) /\ DOMAIN work' = DOMAIN work /\ Len(work') = Len(work)
        /\ work'[w] = u /\ \A x \in DOMAIN work : x # w => work'[x] = work[x]
    BY <1>1, <1>2, <1>3, Written DEF TypeOK
  <1>10. /\ change' \in Seq(States) /\ Len(change') = Len(change) /\ DOMAIN change' = DOMAIN change
         /\ change'[w] = "withdrawn" /\ \A x \in DOMAIN work : x # w => change'[x] = change[x]
    <2>1. DOMAIN change = DOMAIN work
      BY RowsAreNumbers
    <2> QED BY <1>8, <2>1, Written DEF TypeOK
  <1>11. ActiveWork' = {}
    <2>1. \A x \in ActiveWork : x = w
      BY <1>1 DEF ProjectIsConsistent
    <2> QED BY <1>2, <1>9, <2>1 DEF ActiveWork
  <1>12. TypeOK'
    <2>1. \A s \in DOMAIN subs' : subs'[s].work \in DOMAIN work'
      BY <1>7, <1>9 DEF TypeOK
    <2>2. \A r \in DOMAIN releases' :
            releases'[r].work \in DOMAIN work' /\ releases'[r].sub \in DOMAIN subs'
      BY <1>3, <1>7, <1>9 DEF TypeOK
    <2>3. proc' \in Gate
      BY <1>3 DEF Gate
    <2> QED BY <1>3, <1>7, <1>9, <1>10, <2>1, <2>2, <2>3 DEF TypeOK, inputs
  <1>13. \A s \in DOMAIN subs : subs'[s].state \notin OpenSub
    BY <1>7 DEF OpenSub
  <1>14. ProjectIsConsistent'
    <2>1. \A x \in 2 .. Len(work') :
            change'[x] = CASE work'[x].state = "released" -> "released"
                           [] work'[x].state = "abandoned" -> "withdrawn"
                           [] OTHER -> "open"
      <3> SUFFICES ASSUME NEW x \in 2 .. Len(work)
                   PROVE  change'[x] = CASE work'[x].state = "released" -> "released"
                                         [] work'[x].state = "abandoned" -> "withdrawn"
                                         [] OTHER -> "open"
        BY <1>9
      <3>1. x \in DOMAIN work
        BY RowsAreNumbers
      <3> QED BY <1>2, <1>9, <1>10, <3>1 DEF ProjectIsConsistent
    <2> QED BY <1>3, <1>7, <1>11, <1>13, <2>1 DEF ProjectIsConsistent
  <1>15. SubmissionInv'
    <2>1. \A r \in DOMAIN releases :
            /\ releases[r].sub \in DOMAIN subs
            /\ subs'[releases[r].sub].state = "approved"
      BY <1>7 DEF SubmissionInv, TypeOK, OpenSub
    <2> QED BY <1>3, <1>7, <1>13, <2>1 DEF SubmissionInv, OpenSub
  <1>16. GatesInOrder'
    <2> SUFFICES ASSUME NEW x \in DOMAIN work, NEW h \in 1 .. 4, work'[x].start <= h,
                        h < work'[x].gate \/ work'[x].state = "released"
                 PROVE  \E t \in DOMAIN subs' :
                          subs'[t].work = x /\ subs'[t].gate = h /\ subs'[t].state = "approved"
      BY <1>9 DEF GatesInOrder
    <2>1. work[x].start <= h /\ (h < work[x].gate \/ work[x].state = "released")
      BY <1>2, <1>9
    <2>2. PICK t \in DOMAIN subs :
            subs[t].work = x /\ subs[t].gate = h /\ subs[t].state = "approved"
      BY <2>1 DEF GatesInOrder
    <2>3. subs'[t] = subs[t]
      BY <1>7, <2>2 DEF OpenSub
    <2> QED BY <1>7, <2>2, <2>3
  <1>17. BaselineIsLatest'
    <2> SUFFICES ASSUME NEW g \in BaselineGate
                 PROVE  {t \in DOMAIN subs' : subs'[t].gate = g /\ subs'[t].state = "approved"}
                      = {t \in DOMAIN subs : subs[t].gate = g /\ subs[t].state = "approved"}
      BY <1>3 DEF BaselineIsLatest
    <2> QED BY <1>7 DEF OpenSub
  <1>18. ReleasesFormALine'
    <2>1. \A x \in DOMAIN work : work'[x].base = work[x].base
      BY <1>2, <1>9
    <2> QED BY <1>3, <1>11, <2>1 DEF ReleasesFormALine, TypeOK
  <1>19. ReleaseIsWhatWasEvaluated'
    <2>1. \A r \in DOMAIN releases : subs'[releases[r].sub] = subs[releases[r].sub]
      BY <1>7 DEF SubmissionInv, TypeOK, OpenSub
    <2> QED BY <1>3, <2>1 DEF ReleaseIsWhatWasEvaluated
  <1>20. ReviewKeepsFormalInput'
    BY <1>7, <1>13 DEF ReviewKeepsFormalInput, OpenSub
  <1> QED BY <1>12, <1>14, <1>15, <1>16, <1>17, <1>18, <1>19, <1>20

-----------------------------------------------------------------------------
(* The invariant. *)

THEOREM GateInvInit == Init => GateInv
  <1> SUFFICES ASSUME Init PROVE GateInv
    OBVIOUS
  <1> USE DEF Init
  <1>1. work[1] = NewWork(0, 0) /\ NewWork(0, 0) \in WorkType /\ DOMAIN work = {1} /\ Len(work) = 1
    BY DEF NewWork, WorkType, Gate
  <1>2. TypeOK
    <2>1. work \in Seq(WorkType)
      BY <1>1
    <2>2. /\ ready \in Seq(ReadyType) /\ subs \in Seq(SubType) /\ releases \in Seq(ReleaseType)
          /\ formal \in Seq([work : Nat, ready : Nat, b1 : Nat])
          /\ DOMAIN subs = {} /\ DOMAIN releases = {}
      BY EmptySeq
    <2>3. change \in Seq({"none", "open", "released", "withdrawn"}) /\ Len(change) = 1
      OBVIOUS
    <2> QED BY <1>1, <2>1, <2>2, <2>3 DEF TypeOK, BaselineGate, Gate
  <1>3. DOMAIN subs = {} /\ DOMAIN releases = {} /\ Len(releases) = 0
    BY EmptySeq
  <1>4. ActiveWork = {1} /\ work[1].gate = 0 /\ work[1].base = 0 /\ work[1].state = "working"
    BY <1>1 DEF ActiveWork, NewWork
  <1>5. ProjectIsConsistent
    BY <1>1, <1>3, <1>4 DEF ProjectIsConsistent
  <1>6. GatesInOrder
    BY <1>1, <1>4 DEF GatesInOrder
  <1>7. BaselineIsLatest
    BY <1>3 DEF BaselineIsLatest, Latest
  <1>8. ReleasesFormALine
    BY <1>3, <1>4 DEF ReleasesFormALine
  <1>9. SubmissionInv /\ ReleaseIsWhatWasEvaluated /\ ReviewKeepsFormalInput
    BY <1>3 DEF SubmissionInv, ReleaseIsWhatWasEvaluated, ReviewKeepsFormalInput
  <1> QED BY <1>2, <1>5, <1>6, <1>7, <1>8, <1>9 DEF GateInv

THEOREM GateInvStep == GateInv /\ [Next]_vars => GateInv'
  <1> SUFFICES ASSUME GateInv, [Next]_vars PROVE GateInv'
    OBVIOUS
  <1>1. CASE UNCHANGED vars
    <2>1. UNCHANGED <<work, change, ready, formal, subs, active, releases, proc, facts, opening>>
      BY <1>1 DEF vars, inputs
    <2>2. TypeOK'
      BY <2>1 DEF GateInv, TypeOK
    <2>3. ReviewKeepsFormalInput'
      BY <2>1 DEF GateInv, ReviewKeepsFormalInput, ValidFormal, IsLast, ReadyOf
    <2> QED BY <2>1, <2>2, <2>3, OnlyInputs
  <1>2. ASSUME NEW w \in DOMAIN work, WorkStep(w) PROVE GateInv'
    BY <1>2, PrepareKept, ConfirmKept, ConfirmFormalKept, CreateKept, WithdrawChangeKept
       DEF WorkStep
  <1>3. ASSUME NEW s \in DOMAIN subs, SubStep(subs[s].work, s) PROVE GateInv'
    BY <1>3, EvaluateKept, SubmitKept, ApproveGateKept, ApproveReleaseKept DEF SubStep
  <1>4. ASSUME NEW s \in DOMAIN subs, Withdraw(s) \/ Reject(s) PROVE GateInv'
    BY <1>4, TakenBackKept
  <1>5. ASSUME NEW o \in Opener, NEW g \in 1 .. 4, OpenInsert(o, g) PROVE GateInv'
    BY <1>5, OpenInsertKept
  <1> QED BY <1>1, <1>2, <1>3, <1>4, <1>5, OthersKept DEF Next

THEOREM GateInvariant == Spec => []GateInv
  BY GateInvInit, GateInvStep, PTL DEF Spec

\* However requests, submissions, edits and approvals interleave, the tables agree on
\* where the project is (the handlers' locks and the unique index suffice).
THEOREM TablesAgree == Spec => []ProjectIsConsistent
  <1>1. GateInv => ProjectIsConsistent
    BY DEF GateInv
  <1> QED BY <1>1, GateInvariant, PTL

\* Gates are passed in order, a baseline is that of the latest approval, and releases
\* form one line, over any number of changes.
THEOREM HistoryKept == Spec => []HistoryInOrder
  <1>1. GateInv => HistoryInOrder
    BY DEF GateInv, HistoryInOrder
  <1> QED BY <1>1, GateInvariant, PTL

\* A release delivers what its evaluation sealed (revalidateEvaluation at every step).
THEOREM ReleaseDeliversWhatWasSealed == Spec => []ReleaseIsWhatWasEvaluated
  <1>1. GateInv => ReleaseIsWhatWasEvaluated
    BY DEF GateInv
  <1> QED BY <1>1, GateInvariant, PTL

\* A reviewer's formal input does not change under him.
THEOREM ReviewIsStable == Spec => []ReviewKeepsFormalInput
  <1>1. GateInv => ReviewKeepsFormalInput
    BY DEF GateInv
  <1> QED BY <1>1, GateInvariant, PTL
=============================================================================
