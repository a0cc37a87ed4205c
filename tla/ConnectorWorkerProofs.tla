------------------------ MODULE ConnectorWorkerProofs ------------------------
(***************************************************************************)
(* What holds of the worker for every set of jobs, every concurrency and   *)
(* every number of crashes.                                                *)
(***************************************************************************)
EXTENDS ConnectorWorker, FiniteSetTheorems, SequenceTheorems, TLAPS

Busy(p) == {j \in Job : p[j] # "none"}

LEMMA SuffixLength ==
    ASSUME NEW n \in Nat, NEW k \in Nat, k <= n
    PROVE  (IF k + 1 <= n THEN n - (k + 1) + 1 ELSE 0) = n - k
  <1>1. CASE k = n
    BY <1>1
  <1>2. CASE k < n
    BY <1>2
  <1> QED BY <1>1, <1>2

\* What is left of a queue once its first k entries are taken.
LEMMA SuffixProperties ==
    ASSUME NEW q \in Seq(Job), NEW k \in Nat, k <= Len(q)
    PROVE  /\ SubSeq(q, k + 1, Len(q)) \in Seq(Job)
           /\ Len(SubSeq(q, k + 1, Len(q))) = Len(q) - k
           /\ \A i \in 1..(Len(q) - k) : SubSeq(q, k + 1, Len(q))[i] = q[k + i]
           /\ DOMAIN SubSeq(q, k + 1, Len(q)) = 1..(Len(q) - k)
  <1> DEFINE n == Len(q)
             r == SubSeq(q, k + 1, n)
  <1>1. n \in Nat /\ \A i \in (k + 1)..n : q[i] \in Job
    BY LenProperties, ElementOfSeq
  <1>2. k + 1 \in Int /\ n \in Int
    BY <1>1
  <1>3. /\ r \in Seq(Job)
        /\ Len(r) = IF k + 1 <= n THEN n - (k + 1) + 1 ELSE 0
        /\ \A i \in 1..(n - (k + 1) + 1) : r[i] = q[k + 1 + i - 1]
    BY <1>1, <1>2, SubSeqProperties
  <1> HIDE DEF r, n
  <1>4. Len(r) = n - k
    BY <1>1, <1>3, SuffixLength DEF n
  <1>5. \A i \in 1..(n - k) : r[i] = q[k + i]
    <2> TAKE i \in 1..(n - k)
    <2>1. i \in 1..(n - (k + 1) + 1) /\ k + 1 + i - 1 = k + i
      BY <1>1
    <2> QED BY <2>1, <1>3
  <1>6. DOMAIN r = 1..(n - k)
    BY <1>3, <1>4, LenProperties
  <1> QED BY <1>3, <1>4, <1>5, <1>6 DEF r, n

\* pump() keeps the count of running jobs exact, takes jobs from the front of
\* the queue, and leaves one waiting only when every slot is used.
LEMMA PumpEffect ==
    ASSUME NEW q \in Seq(Job), NEW s \in [Job -> JobState],
           NEW p \in [Job -> Position], NEW a,
           a = Cardinality(Busy(p)), Distinct(q),
           \A i \in DOMAIN q : p[q[i]] = "none",
           Pump(q, a, s, p)
    PROVE  /\ pending' \in Seq(Job) /\ Distinct(pending')
           /\ pc' \in [Job -> Position]
           /\ active' \in 0..MaxConcurrency
           /\ active' = Cardinality(Busy(pc'))
           /\ \A j \in Job :
                 \/ pc'[j] = p[j]
                 \/ /\ p[j] = "none" /\ pc'[j] = "prepare"
                    /\ s[j] \notin Final /\ Occurs(j, q)
           /\ \A i \in DOMAIN pending' :
                 pc'[pending'[i]] = "none" /\ Occurs(pending'[i], q)
           /\ \A j \in Job : s[j] \notin Final /\ Occurs(j, q)
                 => pc'[j] = "prepare" \/ Occurs(j, pending')
           /\ active' = MaxConcurrency \/ pending' = <<>>
  <1>1. PICK k \in 0..Len(q) :
           LET go == Startable(q, k, s) IN
           /\ a + Cardinality(go) <= MaxConcurrency
           /\ k = Len(q) \/ a + Cardinality(go) = MaxConcurrency
           /\ pending' = SubSeq(q, k + 1, Len(q))
           /\ active' = a + Cardinality(go)
           /\ pc' = [j \in Job |-> IF j \in go THEN "prepare" ELSE p[j]]
    BY DEF Pump
  <1> DEFINE go == Startable(q, k, s)
  <1>2. /\ Len(q) \in Nat /\ DOMAIN q = 1..Len(q)
        /\ \A i \in 1..Len(q) : q[i] \in Job
    BY LenProperties, ElementOfSeq
  <1>k. k \in Nat /\ k <= Len(q)
    BY <1>2
  <1>p. /\ pending' = SubSeq(q, k + 1, Len(q))
        /\ active' = a + Cardinality(go)
        /\ pc' = [j \in Job |-> IF j \in go THEN "prepare" ELSE p[j]]
    BY <1>1
  <1>3. /\ pending' \in Seq(Job)
        /\ Len(pending') = Len(q) - k
        /\ \A i \in 1..(Len(q) - k) : pending'[i] = q[k + i]
        /\ DOMAIN pending' = 1..(Len(q) - k)
    BY <1>p, <1>k, <1>2, SuffixProperties
  <1>4. /\ go \subseteq Job
        /\ \A j \in go : p[j] = "none" /\ s[j] \notin Final /\ Occurs(j, q)
        /\ \A i \in 1..k : s[q[i]] \notin Final => q[i] \in go
        /\ \A i \in (k + 1)..Len(q) : q[i] \notin go
    <2>1. \A i \in 1..k : i \in 1..Len(q)
      BY <1>k, <1>2
    <2>2. /\ go \subseteq Job
          /\ \A j \in go : p[j] = "none" /\ s[j] \notin Final /\ Occurs(j, q)
          /\ \A i \in 1..k : s[q[i]] \notin Final => q[i] \in go
      BY <2>1, <1>2 DEF Startable, Occurs
    <2>3. ASSUME NEW i \in (k + 1)..Len(q), q[i] \in go
          PROVE  FALSE
      <3>1. PICK l \in 1..k : q[i] = q[l]
        BY <2>3 DEF Startable
      <3>2. i \in 1..Len(q) /\ l \in 1..Len(q) /\ i # l
        BY <1>k, <1>2
      <3> QED BY <3>1, <3>2, <1>2 DEF Distinct
    <2> QED BY <2>2, <2>3
  <1>5. /\ IsFiniteSet(Busy(p)) /\ IsFiniteSet(go)
        /\ Cardinality(Busy(p)) \in Nat /\ Cardinality(go) \in Nat
    <2>1. Busy(p) \subseteq Job
      BY DEF Busy
    <2> QED BY <2>1, <1>4, JobAssumption, FS_Subset, FS_CardinalityType
  <1>6. Busy(pc') = Busy(p) \union go
    BY <1>p, <1>4 DEF Busy
  <1>7. Busy(p) \intersect go = {}
    BY <1>4 DEF Busy
  <1>8. Cardinality(Busy(pc')) = Cardinality(Busy(p)) + Cardinality(go)
    <2>1. Cardinality(Busy(p) \union go) =
            Cardinality(Busy(p)) + Cardinality(go) - Cardinality(Busy(p) \intersect go)
      BY <1>5, FS_Union
    <2>2. Cardinality(Busy(p) \intersect go) = 0
      BY <1>7, FS_EmptySet
    <2> QED BY <2>1, <2>2, <1>5, <1>6
  <1>9. pc' \in [Job -> Position]
    BY <1>p, <1>4 DEF Position
  <1>10. Distinct(pending')
    <2> SUFFICES ASSUME NEW i \in 1..(Len(q) - k), NEW l \in 1..(Len(q) - k),
                        pending'[i] = pending'[l]
                 PROVE  i = l
      BY <1>3 DEF Distinct
    <2>1. k + i \in 1..Len(q) /\ k + l \in 1..Len(q) /\ q[k + i] = q[k + l]
      BY <1>k, <1>2, <1>3
    <2>2. k + i = k + l
      BY <2>1, <1>2 DEF Distinct
    <2> QED BY <2>2, <1>k, <1>2
  <1>11. \A i \in DOMAIN pending' :
            pc'[pending'[i]] = "none" /\ Occurs(pending'[i], q)
    <2> SUFFICES ASSUME NEW i \in 1..(Len(q) - k)
                 PROVE  pc'[pending'[i]] = "none" /\ Occurs(pending'[i], q)
      BY <1>3
    <2>1. k + i \in 1..Len(q) /\ k + i \in (k + 1)..Len(q) /\ pending'[i] = q[k + i]
      BY <1>k, <1>2, <1>3
    <2> QED BY <2>1, <1>p, <1>2, <1>4 DEF Occurs
  <1>12. ASSUME NEW j \in Job, s[j] \notin Final, Occurs(j, q)
         PROVE  pc'[j] = "prepare" \/ Occurs(j, pending')
    <2>1. PICK i \in 1..Len(q) : q[i] = j
      BY <1>2, <1>12 DEF Occurs
    <2>2. CASE i <= k
      BY <2>1, <2>2, <1>p, <1>4, <1>12
    <2>3. CASE i > k
      <3>1. i - k \in 1..(Len(q) - k) /\ k + (i - k) = i
        BY <2>1, <2>3, <1>k, <1>2
      <3> QED BY <3>1, <2>1, <1>3 DEF Occurs
    <2> QED BY <2>1, <2>2, <2>3, <1>k, <1>2
  <1>13. active' = MaxConcurrency \/ pending' = <<>>
    <2>1. CASE k = Len(q)
      BY <2>1, <1>p, <1>k, SubSeqEmpty
    <2>2. CASE a + Cardinality(go) = MaxConcurrency
      BY <2>2, <1>p
    <2> QED BY <1>1, <2>1, <2>2
  <1>14. active' \in 0..MaxConcurrency
    BY <1>1, <1>5, ConcurrencyAssumption
  <1> QED
    BY <1>p, <1>3, <1>4, <1>8, <1>9, <1>10, <1>11, <1>12, <1>13, <1>14
-----------------------------------------------------------------------------
\* What Append does to the elements of a sequence.
LEMMA AppendIndex ==
    ASSUME NEW S, NEW s \in Seq(S), NEW e \in S
    PROVE  /\ Append(s, e) \in Seq(S) /\ Append(s, e) # <<>>
           /\ \A i \in DOMAIN s : i \in DOMAIN Append(s, e) /\ Append(s, e)[i] = s[i]
           /\ \A i \in DOMAIN Append(s, e) :
                 \/ i \in DOMAIN s /\ Append(s, e)[i] = s[i]
                 \/ i = Len(s) + 1 /\ Append(s, e)[i] = e
           /\ Len(s) + 1 \in DOMAIN Append(s, e) /\ Len(s) + 1 \notin DOMAIN s
           /\ Append(s, e)[Len(s) + 1] = e
  <1> DEFINE r == Append(s, e)
  <1>1. /\ r \in Seq(S) /\ r # <<>> /\ Len(r) = Len(s) + 1
        /\ \A i \in 1..Len(s) : r[i] = s[i]
        /\ r[Len(s) + 1] = e
    BY AppendProperties
  <1> HIDE DEF r
  <1>2. Len(s) \in Nat /\ DOMAIN s = 1..Len(s) /\ DOMAIN r = 1..(Len(s) + 1)
    BY <1>1, LenProperties
  <1> QED BY <1>1, <1>2 DEF r

\* What Tail does to the elements of a sequence.
LEMMA TailIndex ==
    ASSUME NEW S, NEW s \in Seq(S), s # <<>>
    PROVE  /\ Head(s) \in S /\ Tail(s) \in Seq(S) /\ 1 \in DOMAIN s /\ Head(s) = s[1]
           /\ \A i \in DOMAIN Tail(s) :
                 i + 1 \in DOMAIN s /\ i + 1 # 1 /\ Tail(s)[i] = s[i + 1]
           /\ \A i \in DOMAIN Tail(s) : i \in Nat
  <1> DEFINE r == Tail(s)
  <1>1. /\ Head(s) \in S /\ r \in Seq(S) /\ Len(r) = Len(s) - 1
        /\ \A i \in 1..Len(r) : r[i] = s[i + 1]
    BY HeadTailProperties
  <1>2. Head(s) = s[1]
    OBVIOUS
  <1> HIDE DEF r
  <1>3. Len(s) \in Nat /\ DOMAIN s = 1..Len(s) /\ DOMAIN r = 1..(Len(s) - 1) /\ Len(s) # 0
    BY <1>1, LenProperties, EmptySeq
  <1> QED BY <1>1, <1>2, <1>3 DEF r

\* A snapshot more is asked for, by nobody or by a run that stops to await it.
LEMMA SnapshotAsked ==
    ASSUME TypeOK, Waiters, NEW x \in Job \union {NoJob},
           snapQ' = Append(snapQ, x), snapPhase' = snapPhase,
           x # NoJob => pc[x] # "settle" /\ pc'[x] = "settle",
           \A j \in Job : pc[j] = "settle" => pc'[j] = "settle"
    PROVE  snapQ' \in Seq(Job \union {NoJob}) /\ Waiters'
  <1>1. snapQ \in Seq(Job \union {NoJob})
    BY DEF TypeOK
  <1>2. \A i \in DOMAIN snapQ : snapQ[i] \in Job \union {NoJob}
    BY <1>1, LenProperties, ElementOfSeq
  <1>3. /\ snapQ' \in Seq(Job \union {NoJob}) /\ snapQ' # <<>>
        /\ \A i \in DOMAIN snapQ' :
              \/ i \in DOMAIN snapQ /\ snapQ'[i] = snapQ[i]
              \/ i = Len(snapQ) + 1 /\ snapQ'[i] = x
    BY <1>1, AppendIndex
  <1>4. \A i \in DOMAIN snapQ' : snapQ'[i] # NoJob => pc'[snapQ'[i]] = "settle"
    BY <1>2, <1>3 DEF Waiters
  <1>5. ASSUME NEW i \in DOMAIN snapQ', NEW k \in DOMAIN snapQ',
               snapQ'[i] = snapQ'[k], snapQ'[i] # NoJob
        PROVE  i = k
    <2>1. CASE i \in DOMAIN snapQ /\ k \in DOMAIN snapQ
               /\ snapQ'[i] = snapQ[i] /\ snapQ'[k] = snapQ[k]
      BY <2>1, <1>5 DEF Waiters
    <2>2. CASE snapQ'[i] = x \/ snapQ'[k] = x
      <3>1. pc[x] # "settle"
        BY <2>2, <1>5
      <3>2. \A l \in DOMAIN snapQ : snapQ[l] # x
        BY <3>1, <1>5, <2>2 DEF Waiters
      <3> QED BY <3>2, <1>3, <1>5, <2>2
    <2> QED BY <2>1, <2>2, <1>3
  <1> QED BY <1>3, <1>4, <1>5 DEF Waiters

\* A snapshot lists jobs of the registry.
LEMMA RecentKnown ==
    ASSUME TypeOK
    PROVE  Recent \in Seq(Job) /\ \A i \in DOMAIN Recent : Occurs(Recent[i], order)
  <1> DEFINE m == IF Len(order) > Keep THEN Len(order) - Keep + 1 ELSE 1
             n == Len(order)
             r == SubSeq(order, m, n)
  <1>1. /\ n \in Nat /\ DOMAIN order = 1..n
        /\ \A i \in 1..n : order[i] \in Job
    BY LenProperties, ElementOfSeq DEF TypeOK
  <1>2. m \in Nat /\ m >= 1
    BY <1>1, BoundAssumption
  <1> HIDE DEF m, n
  <1>3. m \in Int /\ n \in Int /\ \A i \in m..n : order[i] \in Job
    BY <1>1, <1>2
  <1>4. /\ r \in Seq(Job)
        /\ Len(r) = IF m <= n THEN n - m + 1 ELSE 0
        /\ \A i \in 1..(n - m + 1) : r[i] = order[m + i - 1]
    BY <1>3, SubSeqProperties
  <1> HIDE DEF r
  <1>5. ASSUME NEW i \in DOMAIN r
        PROVE  Occurs(r[i], order)
    <2>1. i \in 1..(n - m + 1)
      <3>1. DOMAIN r = 1..Len(r)
        BY <1>4, LenProperties
      <3>2. CASE m <= n
        BY <3>1, <3>2, <1>4
      <3>3. CASE ~(m <= n)
        <4>1. DOMAIN r = {}
          BY <3>1, <3>3, <1>4
        <4> QED BY <4>1
      <3> QED BY <3>2, <3>3
    <2>2. m + i - 1 \in DOMAIN order /\ r[i] = order[m + i - 1]
      BY <2>1, <1>1, <1>2, <1>4
    <2> QED BY <2>2 DEF Occurs
  <1> QED BY <1>4, <1>5 DEF Recent, r, m, n

\* What a snapshot writes are entries of known jobs.
LEMMA ImageTyped ==
    ASSUME TypeOK, ListsAreKnown, SnapshotWrite
    PROVE  image' \in Seq(Entry)
  <1>1. /\ Len(listed) \in Nat /\ DOMAIN listed = 1..Len(listed)
        /\ \A i \in 1..Len(listed) : listed[i] \in Job
    BY LenProperties, ElementOfSeq DEF TypeOK
  <1>2. \A i \in 1..Len(listed) :
            [id |-> listed[i], st |-> st[listed[i]], ev |-> ev[listed[i]]] \in Entry
    BY <1>1 DEF TypeOK, ListsAreKnown, Entry
  <1>3. image' \in [1..Len(listed) -> Entry]
    BY <1>1, <1>2 DEF SnapshotWrite
  <1> QED BY <1>1, <1>3, SeqDef

\* The lists of ids stay known while they do not change and no job is forgotten.
LEMMA ListsStay ==
    ASSUME order \in Seq(Job), listed \in Seq(Job), ListsAreKnown,
           order' = order, listed' = listed,
           \A i \in Job : st[i] # "absent" => st'[i] # "absent"
    PROVE  ListsAreKnown'
  <1>1. \A i \in DOMAIN order : order[i] \in Job
    OBVIOUS
  <1>2. \A i \in DOMAIN listed : listed[i] \in Job
    OBVIOUS
  <1> QED BY <1>1, <1>2 DEF ListsAreKnown

-----------------------------------------------------------------------------
(* Steps that do not pump. *)
LEMMA CancelRunningStep ==
    ASSUME WorkerInv, NEW j \in Job, CancelRunning(j)
    PROVE  WorkerInv'
  <1> USE DEF WorkerInv
  <1>1. st' \in [Job -> JobState] /\ ev' \in [Job -> BOOLEAN] /\ pc' \in [Job -> Position]
    BY ResultsAssumption
      DEF TypeOK, JobState, Position, Final, Terminal, Outcome, CancelRunning, registry,
          runs, writer, disk, history
  <1>2. snapQ' \in Seq(Job \union {NoJob}) /\ Waiters'
    <2>1. NoJob \in Job \union {NoJob} /\ snapQ' = Append(snapQ, NoJob) /\ snapPhase' = snapPhase
      BY DEF CancelRunning, registry, runs, writer, disk, history
    <2>2. /\ NoJob # NoJob => pc[NoJob] # "settle" /\ pc'[NoJob] = "settle"
          /\ \A i \in Job : pc[i] = "settle" => pc'[i] = "settle"
      BY DEF TypeOK, CancelRunning, registry, runs, writer, disk, history
    <2> QED BY <2>1, <2>2, SnapshotAsked
  <1>3. TypeOK'
    BY <1>1, <1>2, JobAssumption
      DEF TypeOK, CancelRunning, registry, runs, writer, disk, history
  <1>4. ListsAreKnown'
    BY <1>1, ResultsAssumption
      DEF TypeOK, ListsAreKnown, Outcome, CancelRunning, registry, runs, writer, disk,
          history
  <1>5. LegState'
    BY <1>1, ResultsAssumption
      DEF TypeOK, LegState, Final, Terminal, Outcome, EvidenceOnlyOfOutcome,
          CancelledIsIdle, CancelRunning, registry, runs, writer, disk, history
  <1>6. QueuedState'
    BY <1>1
      DEF TypeOK, QueuedState, NoStrandedJob, Final, Terminal, CancelRunning, registry,
          runs, writer, disk, history
  <1>7. SlotsMatchRuns'
    <2>1. Running' = Running
      BY <1>1 DEF TypeOK, Running, CancelRunning, registry, runs, writer, disk, history
    <2> QED BY <2>1 DEF SlotsMatchRuns, CancelRunning, registry, runs, writer, disk, history
  <1>8. NoStrandedJob'
    BY <1>1
      DEF TypeOK, NoStrandedJob, Distinct, Occurs, Final, Terminal, CancelRunning,
          registry, runs, writer, disk, history
  <1>9. NoIdleSlot'
    BY <1>1
      DEF TypeOK, NoIdleSlot, NoStrandedJob, QueuedState, Final, Terminal,
          CancelRunning, registry, runs, writer, disk, history
  <1>10. CancelledIsIdle'
    BY <1>1, ResultsAssumption
      DEF TypeOK, CancelledIsIdle, LegState, Outcome, CancelRunning, registry, runs,
          writer, disk, history
  <1>11. EvidenceOnlyOfOutcome'
    BY <1>1, ResultsAssumption
      DEF TypeOK, EvidenceOnlyOfOutcome, LegState, Outcome, Final, Terminal,
          CancelRunning, registry, runs, writer, disk, history
  <1>12. Stopped' /\ SavedEvidence'
    BY <1>1
      DEF TypeOK, Stopped, SavedEvidence, EvidenceOnlyOfOutcome, Entry, CancelRunning,
          registry, runs, writer, disk, history
  <1>13. RanOnce'
    BY <1>1, ResultsAssumption
      DEF TypeOK, RanOnce, NoStrandedJob, Occurs, Outcome, CancelRunning, registry,
          runs, writer, disk, history
  <1> QED BY <1>2, <1>3, <1>4, <1>5, <1>6, <1>7, <1>8, <1>9, <1>10, <1>11, <1>12, <1>13

LEMMA CancelQueuedStep ==
    ASSUME WorkerInv, NEW j \in Job, CancelQueued(j)
    PROVE  WorkerInv'
  <1> USE DEF WorkerInv
  <1>1. st' \in [Job -> JobState] /\ ev' \in [Job -> BOOLEAN] /\ pc' \in [Job -> Position]
    BY ResultsAssumption
      DEF TypeOK, JobState, Position, Final, Terminal, Outcome, CancelQueued, registry,
          runs, writer, disk, history
  <1>2. snapQ' \in Seq(Job \union {NoJob}) /\ Waiters'
    <2>1. NoJob \in Job \union {NoJob} /\ snapQ' = Append(snapQ, NoJob) /\ snapPhase' = snapPhase
      BY DEF CancelQueued, registry, runs, writer, disk, history
    <2>2. /\ NoJob # NoJob => pc[NoJob] # "settle" /\ pc'[NoJob] = "settle"
          /\ \A i \in Job : pc[i] = "settle" => pc'[i] = "settle"
      BY DEF TypeOK, CancelQueued, registry, runs, writer, disk, history
    <2> QED BY <2>1, <2>2, SnapshotAsked
  <1>3. TypeOK'
    BY <1>1, <1>2, JobAssumption
      DEF TypeOK, CancelQueued, registry, runs, writer, disk, history
  <1>4. ListsAreKnown'
    BY <1>1, ResultsAssumption
      DEF TypeOK, ListsAreKnown, Outcome, CancelQueued, registry, runs, writer, disk,
          history
  <1>5. LegState'
    BY <1>1, ResultsAssumption
      DEF TypeOK, LegState, Final, Terminal, Outcome, EvidenceOnlyOfOutcome,
          CancelledIsIdle, CancelQueued, registry, runs, writer, disk, history
  <1>6. QueuedState'
    BY <1>1
      DEF TypeOK, QueuedState, NoStrandedJob, Final, Terminal, CancelQueued, registry,
          runs, writer, disk, history
  <1>7. SlotsMatchRuns'
    <2>1. Running' = Running
      BY <1>1 DEF TypeOK, Running, CancelQueued, registry, runs, writer, disk, history
    <2> QED BY <2>1 DEF SlotsMatchRuns, CancelQueued, registry, runs, writer, disk, history
  <1>8. NoStrandedJob'
    BY <1>1
      DEF TypeOK, NoStrandedJob, Distinct, Occurs, Final, Terminal, CancelQueued,
          registry, runs, writer, disk, history
  <1>9. NoIdleSlot'
    BY <1>1
      DEF TypeOK, NoIdleSlot, NoStrandedJob, QueuedState, Final, Terminal, CancelQueued,
          registry, runs, writer, disk, history
  <1>10. CancelledIsIdle'
    BY <1>1, ResultsAssumption
      DEF TypeOK, CancelledIsIdle, LegState, Outcome, CancelQueued, registry, runs,
          writer, disk, history
  <1>11. EvidenceOnlyOfOutcome'
    BY <1>1, ResultsAssumption
      DEF TypeOK, EvidenceOnlyOfOutcome, LegState, Outcome, Final, Terminal,
          CancelQueued, registry, runs, writer, disk, history
  <1>12. Stopped' /\ SavedEvidence'
    BY <1>1
      DEF TypeOK, Stopped, SavedEvidence, EvidenceOnlyOfOutcome, Entry, CancelQueued,
          registry, runs, writer, disk, history
  <1>13. RanOnce'
    BY <1>1, ResultsAssumption
      DEF TypeOK, RanOnce, NoStrandedJob, Occurs, Outcome, CancelQueued, registry, runs,
          writer, disk, history
  <1> QED BY <1>2, <1>3, <1>4, <1>5, <1>6, <1>7, <1>8, <1>9, <1>10, <1>11, <1>12, <1>13

LEMMA PreparedStep ==
    ASSUME WorkerInv, NEW j \in Job, Prepared(j)
    PROVE  WorkerInv'
  <1> USE DEF WorkerInv
  <1>1. st' \in [Job -> JobState] /\ ev' \in [Job -> BOOLEAN] /\ pc' \in [Job -> Position]
    BY ResultsAssumption
      DEF TypeOK, JobState, Position, Final, Terminal, Outcome, Prepared, registry,
          runs, writer, disk, history
  <1>2. snapQ' \in Seq(Job \union {NoJob}) /\ Waiters'
    BY DEF TypeOK, Waiters, Prepared, registry, runs, writer, disk, history
  <1>3. TypeOK'
    BY <1>1, <1>2, JobAssumption DEF TypeOK, Prepared, registry, runs, writer, disk, history
  <1>4. ListsAreKnown'
    BY <1>1, ResultsAssumption
      DEF TypeOK, ListsAreKnown, Outcome, Prepared, registry, runs, writer, disk,
          history
  <1>5. LegState'
    BY <1>1, ResultsAssumption
      DEF TypeOK, LegState, Final, Terminal, Outcome, EvidenceOnlyOfOutcome,
          CancelledIsIdle, Prepared, registry, runs, writer, disk, history
  <1>6. QueuedState'
    BY <1>1
      DEF TypeOK, QueuedState, NoStrandedJob, Final, Terminal, Prepared, registry, runs,
          writer, disk, history
  <1>7. SlotsMatchRuns'
    <2>1. Running' = Running
      BY <1>1 DEF TypeOK, Running, Prepared, registry, runs, writer, disk, history
    <2> QED BY <2>1 DEF SlotsMatchRuns, Prepared, registry, runs, writer, disk, history
  <1>8. NoStrandedJob'
    BY <1>1
      DEF TypeOK, NoStrandedJob, Distinct, Occurs, Final, Terminal, Prepared, registry,
          runs, writer, disk, history
  <1>9. NoIdleSlot'
    BY <1>1
      DEF TypeOK, NoIdleSlot, NoStrandedJob, QueuedState, Final, Terminal, Prepared,
          registry, runs, writer, disk, history
  <1>10. CancelledIsIdle'
    BY <1>1, ResultsAssumption
      DEF TypeOK, CancelledIsIdle, LegState, Outcome, Prepared, registry, runs, writer,
          disk, history
  <1>11. EvidenceOnlyOfOutcome'
    BY <1>1, ResultsAssumption
      DEF TypeOK, EvidenceOnlyOfOutcome, LegState, Outcome, Final, Terminal, Prepared,
          registry, runs, writer, disk, history
  <1>12. Stopped' /\ SavedEvidence'
    BY <1>1
      DEF TypeOK, Stopped, SavedEvidence, EvidenceOnlyOfOutcome, Entry, Prepared,
          registry, runs, writer, disk, history
  <1>13. RanOnce'
    BY <1>1, ResultsAssumption
      DEF TypeOK, RanOnce, NoStrandedJob, Occurs, Outcome, Prepared, registry, runs,
          writer, disk, history
  <1> QED BY <1>2, <1>3, <1>4, <1>5, <1>6, <1>7, <1>8, <1>9, <1>10, <1>11, <1>12, <1>13

LEMMA ExecutedCancelledStep ==
    ASSUME WorkerInv, NEW j \in Job, ExecutedCancelled(j)
    PROVE  WorkerInv'
  <1> USE DEF WorkerInv
  <1>1. st' \in [Job -> JobState] /\ ev' \in [Job -> BOOLEAN] /\ pc' \in [Job -> Position]
    BY ResultsAssumption
      DEF TypeOK, JobState, Position, Final, Terminal, Outcome, ExecutedCancelled,
          AwaitSnapshot, registry, runs, writer, disk, history
  <1>2. snapQ' \in Seq(Job \union {NoJob}) /\ Waiters'
    <2>1. j \in Job \union {NoJob} /\ snapQ' = Append(snapQ, j) /\ snapPhase' = snapPhase
      BY DEF ExecutedCancelled, AwaitSnapshot, registry, runs, writer, disk, history
    <2>2. /\ j # NoJob => pc[j] # "settle" /\ pc'[j] = "settle"
          /\ \A i \in Job : pc[i] = "settle" => pc'[i] = "settle"
      BY DEF TypeOK, ExecutedCancelled, AwaitSnapshot, registry, runs, writer, disk, history
    <2> QED BY <2>1, <2>2, SnapshotAsked
  <1>3. TypeOK'
    BY <1>1, <1>2, JobAssumption
      DEF TypeOK, ExecutedCancelled, AwaitSnapshot, registry, runs, writer, disk,
          history
  <1>4. ListsAreKnown'
    BY <1>1, ResultsAssumption
      DEF TypeOK, ListsAreKnown, Outcome, ExecutedCancelled, AwaitSnapshot, registry,
          runs, writer, disk, history
  <1>5. LegState'
    BY <1>1, ResultsAssumption
      DEF TypeOK, LegState, Final, Terminal, Outcome, EvidenceOnlyOfOutcome,
          CancelledIsIdle, ExecutedCancelled, AwaitSnapshot, registry, runs, writer,
          disk, history
  <1>6. QueuedState'
    BY <1>1
      DEF TypeOK, QueuedState, NoStrandedJob, Final, Terminal, ExecutedCancelled,
          AwaitSnapshot, registry, runs, writer, disk, history
  <1>7. SlotsMatchRuns'
    <2>1. Running' = Running
      BY <1>1
        DEF TypeOK, Running, ExecutedCancelled, AwaitSnapshot, registry, runs, writer,
            disk, history
    <2> QED BY <2>1
      DEF SlotsMatchRuns, ExecutedCancelled, AwaitSnapshot, registry, runs, writer,
          disk, history
  <1>8. NoStrandedJob'
    BY <1>1
      DEF TypeOK, NoStrandedJob, Distinct, Occurs, Final, Terminal, ExecutedCancelled,
          AwaitSnapshot, registry, runs, writer, disk, history
  <1>9. NoIdleSlot'
    BY <1>1
      DEF TypeOK, NoIdleSlot, NoStrandedJob, QueuedState, Final, Terminal,
          ExecutedCancelled, AwaitSnapshot, registry, runs, writer, disk, history
  <1>10. CancelledIsIdle'
    BY <1>1, ResultsAssumption
      DEF TypeOK, CancelledIsIdle, LegState, Outcome, ExecutedCancelled, AwaitSnapshot,
          registry, runs, writer, disk, history
  <1>11. EvidenceOnlyOfOutcome'
    BY <1>1, ResultsAssumption
      DEF TypeOK, EvidenceOnlyOfOutcome, LegState, Outcome, Final, Terminal,
          ExecutedCancelled, AwaitSnapshot, registry, runs, writer, disk, history
  <1>12. Stopped' /\ SavedEvidence'
    BY <1>1
      DEF TypeOK, Stopped, SavedEvidence, EvidenceOnlyOfOutcome, Entry,
          ExecutedCancelled, AwaitSnapshot, registry, runs, writer, disk, history
  <1>13. RanOnce'
    BY <1>1, ResultsAssumption
      DEF TypeOK, RanOnce, NoStrandedJob, Occurs, Outcome, ExecutedCancelled,
          AwaitSnapshot, registry, runs, writer, disk, history
  <1> QED BY <1>2, <1>3, <1>4, <1>5, <1>6, <1>7, <1>8, <1>9, <1>10, <1>11, <1>12, <1>13

LEMMA ExecutedOutputStep ==
    ASSUME WorkerInv, NEW j \in Job, NEW o \in Results, ExecutedOutput(j, o)
    PROVE  WorkerInv'
  <1> USE DEF WorkerInv
  <1>1. st' \in [Job -> JobState] /\ ev' \in [Job -> BOOLEAN] /\ pc' \in [Job -> Position]
    BY ResultsAssumption
      DEF TypeOK, JobState, Position, Final, Terminal, Outcome, ExecutedOutput,
          registry, runs, writer, disk, history
  <1>2. snapQ' \in Seq(Job \union {NoJob}) /\ Waiters'
    BY DEF TypeOK, Waiters, ExecutedOutput, registry, runs, writer, disk, history
  <1>3. TypeOK'
    BY <1>1, <1>2, JobAssumption
      DEF TypeOK, ExecutedOutput, registry, runs, writer, disk, history
  <1>4. ListsAreKnown'
    <2>1. \A i \in Job : st[i] # "absent" => st'[i] # "absent"
      BY ResultsAssumption DEF TypeOK, Outcome, ExecutedOutput
    <2>2. order' = order /\ listed' = listed
      BY DEF ExecutedOutput, registry, writer
    <2> QED BY <2>1, <2>2, ListsStay DEF TypeOK
  <1>5. LegState'
    BY <1>1, ResultsAssumption
      DEF TypeOK, LegState, Final, Terminal, Outcome, EvidenceOnlyOfOutcome,
          CancelledIsIdle, ExecutedOutput, registry, runs, writer, disk, history
  <1>6. QueuedState'
    BY <1>1
      DEF TypeOK, QueuedState, NoStrandedJob, Final, Terminal, ExecutedOutput, registry,
          runs, writer, disk, history
  <1>7. SlotsMatchRuns'
    <2>1. Running' = Running
      BY <1>1 DEF TypeOK, Running, ExecutedOutput, registry, runs, writer, disk, history
    <2> QED BY <2>1
      DEF SlotsMatchRuns, ExecutedOutput, registry, runs, writer, disk, history
  <1>8. NoStrandedJob'
    BY <1>1
      DEF TypeOK, NoStrandedJob, Distinct, Occurs, Final, Terminal, ExecutedOutput,
          registry, runs, writer, disk, history
  <1>9. NoIdleSlot'
    BY <1>1
      DEF TypeOK, NoIdleSlot, NoStrandedJob, QueuedState, Final, Terminal,
          ExecutedOutput, registry, runs, writer, disk, history
  <1>10. CancelledIsIdle'
    BY <1>1, ResultsAssumption
      DEF TypeOK, CancelledIsIdle, LegState, Outcome, ExecutedOutput, registry, runs,
          writer, disk, history
  <1>11. EvidenceOnlyOfOutcome'
    BY <1>1, ResultsAssumption
      DEF TypeOK, EvidenceOnlyOfOutcome, LegState, Outcome, Final, Terminal,
          ExecutedOutput, registry, runs, writer, disk, history
  <1>12. Stopped' /\ SavedEvidence'
    BY <1>1
      DEF TypeOK, Stopped, SavedEvidence, EvidenceOnlyOfOutcome, Entry, ExecutedOutput,
          registry, runs, writer, disk, history
  <1>13. RanOnce'
    BY <1>1, ResultsAssumption
      DEF TypeOK, RanOnce, NoStrandedJob, Occurs, Outcome, ExecutedOutput, registry,
          runs, writer, disk, history
  <1> QED BY <1>2, <1>3, <1>4, <1>5, <1>6, <1>7, <1>8, <1>9, <1>10, <1>11, <1>12, <1>13

LEMMA ExecutedNoOutputStep ==
    ASSUME WorkerInv, NEW j \in Job, NEW o \in Results, NEW e \in BOOLEAN, ExecutedNoOutput(j, o, e)
    PROVE  WorkerInv'
  <1> USE DEF WorkerInv
  <1>1. st' \in [Job -> JobState] /\ ev' \in [Job -> BOOLEAN] /\ pc' \in [Job -> Position]
    BY ResultsAssumption
      DEF TypeOK, JobState, Position, Final, Terminal, Outcome, ExecutedNoOutput,
          AwaitSnapshot, registry, runs, writer, disk, history
  <1>2. snapQ' \in Seq(Job \union {NoJob}) /\ Waiters'
    <2>1. j \in Job \union {NoJob} /\ snapQ' = Append(snapQ, j) /\ snapPhase' = snapPhase
      BY DEF ExecutedNoOutput, AwaitSnapshot, registry, runs, writer, disk, history
    <2>2. /\ j # NoJob => pc[j] # "settle" /\ pc'[j] = "settle"
          /\ \A i \in Job : pc[i] = "settle" => pc'[i] = "settle"
      BY DEF TypeOK, ExecutedNoOutput, AwaitSnapshot, registry, runs, writer, disk, history
    <2> QED BY <2>1, <2>2, SnapshotAsked
  <1>3. TypeOK'
    BY <1>1, <1>2, JobAssumption
      DEF TypeOK, ExecutedNoOutput, AwaitSnapshot, registry, runs, writer, disk, history
  <1>4. ListsAreKnown'
    <2>1. \A i \in Job : st[i] # "absent" => st'[i] # "absent"
      BY ResultsAssumption DEF TypeOK, Outcome, ExecutedNoOutput
    <2>2. order' = order /\ listed' = listed
      BY DEF ExecutedNoOutput, registry, writer
    <2> QED BY <2>1, <2>2, ListsStay DEF TypeOK
  <1>5. LegState'
    BY <1>1, ResultsAssumption
      DEF TypeOK, LegState, Final, Terminal, Outcome, EvidenceOnlyOfOutcome,
          CancelledIsIdle, ExecutedNoOutput, AwaitSnapshot, registry, runs, writer,
          disk, history
  <1>6. QueuedState'
    BY <1>1
      DEF TypeOK, QueuedState, NoStrandedJob, Final, Terminal, ExecutedNoOutput,
          AwaitSnapshot, registry, runs, writer, disk, history
  <1>7. SlotsMatchRuns'
    <2>1. Running' = Running
      BY <1>1
        DEF TypeOK, Running, ExecutedNoOutput, AwaitSnapshot, registry, runs, writer,
            disk, history
    <2> QED BY <2>1
      DEF SlotsMatchRuns, ExecutedNoOutput, AwaitSnapshot, registry, runs, writer, disk,
          history
  <1>8. NoStrandedJob'
    BY <1>1
      DEF TypeOK, NoStrandedJob, Distinct, Occurs, Final, Terminal, ExecutedNoOutput,
          AwaitSnapshot, registry, runs, writer, disk, history
  <1>9. NoIdleSlot'
    <2>1. pending' = pending /\ active' = active
      BY DEF ExecutedNoOutput, AwaitSnapshot, runs
    <2>2. \A i \in DOMAIN pending : pending[i] \in Job \ {j}
      BY DEF TypeOK, NoStrandedJob, ExecutedNoOutput
    <2>3. \A i \in Job \ {j} : st'[i] = st[i]
      BY DEF TypeOK, ExecutedNoOutput
    <2> QED BY <2>1, <2>2, <2>3 DEF NoIdleSlot
  <1>10. CancelledIsIdle'
    BY <1>1, ResultsAssumption
      DEF TypeOK, CancelledIsIdle, LegState, Outcome, ExecutedNoOutput, AwaitSnapshot,
          registry, runs, writer, disk, history
  <1>11. EvidenceOnlyOfOutcome'
    BY <1>1, ResultsAssumption
      DEF TypeOK, EvidenceOnlyOfOutcome, LegState, Outcome, Final, Terminal,
          ExecutedNoOutput, AwaitSnapshot, registry, runs, writer, disk, history
  <1>12. Stopped' /\ SavedEvidence'
    BY <1>1
      DEF TypeOK, Stopped, SavedEvidence, EvidenceOnlyOfOutcome, Entry,
          ExecutedNoOutput, AwaitSnapshot, registry, runs, writer, disk, history
  <1>13. RanOnce'
    BY <1>1, ResultsAssumption
      DEF TypeOK, RanOnce, NoStrandedJob, Occurs, Outcome, ExecutedNoOutput,
          AwaitSnapshot, registry, runs, writer, disk, history
  <1> QED BY <1>2, <1>3, <1>4, <1>5, <1>6, <1>7, <1>8, <1>9, <1>10, <1>11, <1>12, <1>13

LEMMA StoredStep ==
    ASSUME WorkerInv, NEW j \in Job, Stored(j)
    PROVE  WorkerInv'
  <1> USE DEF WorkerInv
  <1>1. st' \in [Job -> JobState] /\ ev' \in [Job -> BOOLEAN] /\ pc' \in [Job -> Position]
    BY ResultsAssumption
      DEF TypeOK, JobState, Position, Final, Terminal, Outcome, Stored, AwaitSnapshot,
          registry, runs, writer, disk, history
  <1>2. snapQ' \in Seq(Job \union {NoJob}) /\ Waiters'
    <2>1. j \in Job \union {NoJob} /\ snapQ' = Append(snapQ, j) /\ snapPhase' = snapPhase
      BY DEF Stored, AwaitSnapshot, registry, runs, writer, disk, history
    <2>2. /\ j # NoJob => pc[j] # "settle" /\ pc'[j] = "settle"
          /\ \A i \in Job : pc[i] = "settle" => pc'[i] = "settle"
      BY DEF TypeOK, Stored, AwaitSnapshot, registry, runs, writer, disk, history
    <2> QED BY <2>1, <2>2, SnapshotAsked
  <1>3. TypeOK'
    BY <1>1, <1>2, JobAssumption
      DEF TypeOK, Stored, AwaitSnapshot, registry, runs, writer, disk, history
  <1>4. ListsAreKnown'
    BY <1>1, ResultsAssumption
      DEF TypeOK, ListsAreKnown, Outcome, Stored, AwaitSnapshot, registry, runs, writer,
          disk, history
  <1>5. LegState'
    BY <1>1, ResultsAssumption
      DEF TypeOK, LegState, Final, Terminal, Outcome, EvidenceOnlyOfOutcome,
          CancelledIsIdle, Stored, AwaitSnapshot, registry, runs, writer, disk, history
  <1>6. QueuedState'
    BY <1>1
      DEF TypeOK, QueuedState, NoStrandedJob, Final, Terminal, Stored, AwaitSnapshot,
          registry, runs, writer, disk, history
  <1>7. SlotsMatchRuns'
    <2>1. Running' = Running
      BY <1>1
        DEF TypeOK, Running, Stored, AwaitSnapshot, registry, runs, writer, disk,
            history
    <2> QED BY <2>1
      DEF SlotsMatchRuns, Stored, AwaitSnapshot, registry, runs, writer, disk, history
  <1>8. NoStrandedJob'
    BY <1>1
      DEF TypeOK, NoStrandedJob, Distinct, Occurs, Final, Terminal, Stored,
          AwaitSnapshot, registry, runs, writer, disk, history
  <1>9. NoIdleSlot'
    BY <1>1
      DEF TypeOK, NoIdleSlot, NoStrandedJob, QueuedState, Final, Terminal, Stored,
          AwaitSnapshot, registry, runs, writer, disk, history
  <1>10. CancelledIsIdle'
    BY <1>1, ResultsAssumption
      DEF TypeOK, CancelledIsIdle, LegState, Outcome, Stored, AwaitSnapshot, registry,
          runs, writer, disk, history
  <1>11. EvidenceOnlyOfOutcome'
    BY <1>1, ResultsAssumption
      DEF TypeOK, EvidenceOnlyOfOutcome, LegState, Outcome, Final, Terminal, Stored,
          AwaitSnapshot, registry, runs, writer, disk, history
  <1>12. Stopped' /\ SavedEvidence'
    BY <1>1
      DEF TypeOK, Stopped, SavedEvidence, EvidenceOnlyOfOutcome, Entry, Stored,
          AwaitSnapshot, registry, runs, writer, disk, history
  <1>13. RanOnce'
    BY <1>1, ResultsAssumption
      DEF TypeOK, RanOnce, NoStrandedJob, Occurs, Outcome, Stored, AwaitSnapshot,
          registry, runs, writer, disk, history
  <1> QED BY <1>2, <1>3, <1>4, <1>5, <1>6, <1>7, <1>8, <1>9, <1>10, <1>11, <1>12, <1>13

LEMMA CaughtCancelledStep ==
    ASSUME WorkerInv, NEW j \in Job, CaughtCancelled(j)
    PROVE  WorkerInv'
  <1> USE DEF WorkerInv
  <1>1. st' \in [Job -> JobState] /\ ev' \in [Job -> BOOLEAN] /\ pc' \in [Job -> Position]
    BY ResultsAssumption
      DEF TypeOK, JobState, Position, Final, Terminal, Outcome, CaughtCancelled,
          AwaitSnapshot, Throws, registry, runs, writer, disk, history
  <1>2. snapQ' \in Seq(Job \union {NoJob}) /\ Waiters'
    <2>1. j \in Job \union {NoJob} /\ snapQ' = Append(snapQ, j) /\ snapPhase' = snapPhase
      BY DEF CaughtCancelled, AwaitSnapshot, Throws, registry, runs, writer, disk, history
    <2>2. /\ j # NoJob => pc[j] # "settle" /\ pc'[j] = "settle"
          /\ \A i \in Job : pc[i] = "settle" => pc'[i] = "settle"
      BY
        DEF TypeOK, CaughtCancelled, AwaitSnapshot, Throws, registry, runs, writer,
            disk, history
    <2> QED BY <2>1, <2>2, SnapshotAsked
  <1>3. TypeOK'
    BY <1>1, <1>2, JobAssumption
      DEF TypeOK, CaughtCancelled, AwaitSnapshot, Throws, registry, runs, writer, disk,
          history
  <1>4. ListsAreKnown'
    BY <1>1, ResultsAssumption
      DEF TypeOK, ListsAreKnown, Outcome, CaughtCancelled, AwaitSnapshot, Throws,
          registry, runs, writer, disk, history
  <1>5. LegState'
    BY <1>1, ResultsAssumption
      DEF TypeOK, LegState, Final, Terminal, Outcome, EvidenceOnlyOfOutcome,
          CancelledIsIdle, CaughtCancelled, AwaitSnapshot, Throws, registry, runs,
          writer, disk, history
  <1>6. QueuedState'
    BY <1>1
      DEF TypeOK, QueuedState, NoStrandedJob, Final, Terminal, CaughtCancelled,
          AwaitSnapshot, Throws, registry, runs, writer, disk, history
  <1>7. SlotsMatchRuns'
    <2>1. Running' = Running
      BY <1>1
        DEF TypeOK, Running, CaughtCancelled, AwaitSnapshot, Throws, registry, runs,
            writer, disk, history
    <2> QED BY <2>1
      DEF SlotsMatchRuns, CaughtCancelled, AwaitSnapshot, Throws, registry, runs,
          writer, disk, history
  <1>8. NoStrandedJob'
    BY <1>1
      DEF TypeOK, NoStrandedJob, Distinct, Occurs, Final, Terminal, CaughtCancelled,
          AwaitSnapshot, Throws, registry, runs, writer, disk, history
  <1>9. NoIdleSlot'
    BY <1>1
      DEF TypeOK, NoIdleSlot, NoStrandedJob, QueuedState, Final, Terminal,
          CaughtCancelled, AwaitSnapshot, Throws, registry, runs, writer, disk, history
  <1>10. CancelledIsIdle'
    BY <1>1, ResultsAssumption
      DEF TypeOK, CancelledIsIdle, LegState, Outcome, CaughtCancelled, AwaitSnapshot,
          Throws, registry, runs, writer, disk, history
  <1>11. EvidenceOnlyOfOutcome'
    BY <1>1, ResultsAssumption
      DEF TypeOK, EvidenceOnlyOfOutcome, LegState, Outcome, Final, Terminal,
          CaughtCancelled, AwaitSnapshot, Throws, registry, runs, writer, disk, history
  <1>12. Stopped' /\ SavedEvidence'
    BY <1>1
      DEF TypeOK, Stopped, SavedEvidence, EvidenceOnlyOfOutcome, Entry, CaughtCancelled,
          AwaitSnapshot, Throws, registry, runs, writer, disk, history
  <1>13. RanOnce'
    BY <1>1, ResultsAssumption
      DEF TypeOK, RanOnce, NoStrandedJob, Occurs, Outcome, CaughtCancelled,
          AwaitSnapshot, Throws, registry, runs, writer, disk, history
  <1> QED BY <1>2, <1>3, <1>4, <1>5, <1>6, <1>7, <1>8, <1>9, <1>10, <1>11, <1>12, <1>13

LEMMA SnapshotListStep ==
    ASSUME WorkerInv, SnapshotList
    PROVE  WorkerInv'
  <1> USE DEF WorkerInv
  <1>1. st' \in [Job -> JobState] /\ ev' \in [Job -> BOOLEAN] /\ pc' \in [Job -> Position]
    BY ResultsAssumption
      DEF TypeOK, JobState, Position, Final, Terminal, Outcome, SnapshotList, registry,
          runs, writer, disk, history
  <1>2. snapQ' \in Seq(Job \union {NoJob}) /\ Waiters'
    BY DEF TypeOK, Waiters, SnapshotList, registry, runs, writer, disk, history
  <1>3. TypeOK'
    BY <1>1, <1>2, JobAssumption, RecentKnown
      DEF TypeOK, SnapshotList, registry, runs, writer, disk, history
  <1>4. ListsAreKnown'
    BY <1>1, ResultsAssumption, RecentKnown
      DEF TypeOK, ListsAreKnown, Outcome, Occurs, SnapshotList, registry, runs, writer,
          disk, history
  <1>5. LegState'
    BY <1>1, ResultsAssumption
      DEF TypeOK, LegState, Final, Terminal, Outcome, EvidenceOnlyOfOutcome,
          CancelledIsIdle, SnapshotList, registry, runs, writer, disk, history
  <1>6. QueuedState'
    BY <1>1
      DEF TypeOK, QueuedState, NoStrandedJob, Final, Terminal, SnapshotList, registry,
          runs, writer, disk, history
  <1>7. SlotsMatchRuns'
    <2>1. Running' = Running
      BY <1>1 DEF TypeOK, Running, SnapshotList, registry, runs, writer, disk, history
    <2> QED BY <2>1 DEF SlotsMatchRuns, SnapshotList, registry, runs, writer, disk, history
  <1>8. NoStrandedJob'
    BY <1>1
      DEF TypeOK, NoStrandedJob, Distinct, Occurs, Final, Terminal, SnapshotList,
          registry, runs, writer, disk, history
  <1>9. NoIdleSlot'
    BY <1>1
      DEF TypeOK, NoIdleSlot, NoStrandedJob, QueuedState, Final, Terminal, SnapshotList,
          registry, runs, writer, disk, history
  <1>10. CancelledIsIdle'
    BY <1>1, ResultsAssumption
      DEF TypeOK, CancelledIsIdle, LegState, Outcome, SnapshotList, registry, runs,
          writer, disk, history
  <1>11. EvidenceOnlyOfOutcome'
    BY <1>1, ResultsAssumption
      DEF TypeOK, EvidenceOnlyOfOutcome, LegState, Outcome, Final, Terminal,
          SnapshotList, registry, runs, writer, disk, history
  <1>12. Stopped' /\ SavedEvidence'
    BY <1>1
      DEF TypeOK, Stopped, SavedEvidence, EvidenceOnlyOfOutcome, Entry, SnapshotList,
          registry, runs, writer, disk, history
  <1>13. RanOnce'
    BY <1>1, ResultsAssumption
      DEF TypeOK, RanOnce, NoStrandedJob, Occurs, Outcome, SnapshotList, registry, runs,
          writer, disk, history
  <1> QED BY <1>2, <1>3, <1>4, <1>5, <1>6, <1>7, <1>8, <1>9, <1>10, <1>11, <1>12, <1>13

LEMMA SnapshotWriteStep ==
    ASSUME WorkerInv, SnapshotWrite
    PROVE  WorkerInv'
  <1> USE DEF WorkerInv
  <1>1. st' \in [Job -> JobState] /\ ev' \in [Job -> BOOLEAN] /\ pc' \in [Job -> Position]
    BY ResultsAssumption
      DEF TypeOK, JobState, Position, Final, Terminal, Outcome, SnapshotWrite, registry,
          runs, writer, disk, history
  <1>2. snapQ' \in Seq(Job \union {NoJob}) /\ Waiters'
    BY DEF TypeOK, Waiters, SnapshotWrite, registry, runs, writer, disk, history
  <1>3. TypeOK'
    BY <1>1, <1>2, JobAssumption, ImageTyped
      DEF TypeOK, SnapshotWrite, registry, runs, writer, disk, history
  <1>4. ListsAreKnown'
    BY <1>1, ResultsAssumption
      DEF TypeOK, ListsAreKnown, Outcome, SnapshotWrite, registry, runs, writer, disk,
          history
  <1>5. LegState'
    BY <1>1, ResultsAssumption
      DEF TypeOK, LegState, Final, Terminal, Outcome, EvidenceOnlyOfOutcome,
          CancelledIsIdle, SnapshotWrite, registry, runs, writer, disk, history
  <1>6. QueuedState'
    BY <1>1
      DEF TypeOK, QueuedState, NoStrandedJob, Final, Terminal, SnapshotWrite, registry,
          runs, writer, disk, history
  <1>7. SlotsMatchRuns'
    <2>1. Running' = Running
      BY <1>1 DEF TypeOK, Running, SnapshotWrite, registry, runs, writer, disk, history
    <2> QED BY <2>1 DEF SlotsMatchRuns, SnapshotWrite, registry, runs, writer, disk, history
  <1>8. NoStrandedJob'
    BY <1>1
      DEF TypeOK, NoStrandedJob, Distinct, Occurs, Final, Terminal, SnapshotWrite,
          registry, runs, writer, disk, history
  <1>9. NoIdleSlot'
    BY <1>1
      DEF TypeOK, NoIdleSlot, NoStrandedJob, QueuedState, Final, Terminal,
          SnapshotWrite, registry, runs, writer, disk, history
  <1>10. CancelledIsIdle'
    BY <1>1, ResultsAssumption
      DEF TypeOK, CancelledIsIdle, LegState, Outcome, SnapshotWrite, registry, runs,
          writer, disk, history
  <1>11. EvidenceOnlyOfOutcome'
    BY <1>1, ResultsAssumption
      DEF TypeOK, EvidenceOnlyOfOutcome, LegState, Outcome, Final, Terminal,
          SnapshotWrite, registry, runs, writer, disk, history
  <1>12. Stopped' /\ SavedEvidence'
    BY <1>1
      DEF TypeOK, Stopped, SavedEvidence, EvidenceOnlyOfOutcome, Entry, SnapshotWrite,
          registry, runs, writer, disk, history
  <1>13. RanOnce'
    BY <1>1, ResultsAssumption
      DEF TypeOK, RanOnce, NoStrandedJob, Occurs, Outcome, SnapshotWrite, registry,
          runs, writer, disk, history
  <1> QED BY <1>2, <1>3, <1>4, <1>5, <1>6, <1>7, <1>8, <1>9, <1>10, <1>11, <1>12, <1>13
-----------------------------------------------------------------------------
(* Steps that free or take a slot. *)

\* A run that ends gives its slot back, and jobs of the queue may take it.
LEMMA ReleaseEffect ==
    ASSUME WorkerInv, NEW j \in Job, NEW s \in [Job -> JobState],
           pc[j] # "none", Release(j, s)
    PROVE  /\ pending' \in Seq(Job) /\ Distinct(pending')
           /\ pc' \in [Job -> Position]
           /\ active' \in 0..MaxConcurrency
           /\ SlotsMatchRuns'
           /\ pc'[j] = "none"
           /\ \A i \in Job \ {j} :
                 \/ pc'[i] = pc[i]
                 \/ /\ pc[i] = "none" /\ pc'[i] = "prepare"
                    /\ s[i] \notin Final /\ Occurs(i, pending)
           /\ \A i \in DOMAIN pending' :
                 pc'[pending'[i]] = "none" /\ Occurs(pending'[i], pending)
           /\ \A i \in Job : s[i] \notin Final /\ Occurs(i, pending)
                 => pc'[i] = "prepare" \/ Occurs(i, pending')
           /\ active' = MaxConcurrency \/ pending' = <<>>
  <1> DEFINE p == [pc EXCEPT ![j] = "none"]
  <1>1. pc \in [Job -> Position] /\ pending \in Seq(Job) /\ active \in Nat
    BY ConcurrencyAssumption DEF WorkerInv, TypeOK
  <1>2. p \in [Job -> Position] /\ p[j] = "none" /\ \A i \in Job \ {j} : p[i] = pc[i]
    BY <1>1 DEF Position
  <1>3. Distinct(pending) /\ \A i \in DOMAIN pending : pc[pending[i]] = "none"
    BY DEF WorkerInv, NoStrandedJob
  <1>4. ~Occurs(j, pending)
    BY <1>3 DEF Occurs
  <1>5. \A i \in DOMAIN pending : p[pending[i]] = "none"
    BY <1>1, <1>3
  <1>6. active - 1 = Cardinality(Busy(p))
    <2>1. Busy(p) = Running \ {j} /\ j \in Running /\ Running \subseteq Job
      BY <1>2 DEF Busy, Running
    <2>2. IsFiniteSet(Running) /\ Cardinality(Running) \in Nat
      BY <2>1, JobAssumption, FS_Subset, FS_CardinalityType
    <2>3. Cardinality(Running \ {j}) = Cardinality(Running) - 1
      BY <2>1, <2>2, FS_RemoveElement
    <2> QED BY <2>1, <2>3 DEF WorkerInv, SlotsMatchRuns
  <1> HIDE DEF p
  <1>7. Pump(pending, active - 1, s, p)
    BY DEF Release, p
  <1>8. /\ pending' \in Seq(Job) /\ Distinct(pending')
        /\ pc' \in [Job -> Position]
        /\ active' \in 0..MaxConcurrency
        /\ active' = Cardinality(Busy(pc'))
        /\ \A i \in Job :
              \/ pc'[i] = p[i]
              \/ /\ p[i] = "none" /\ pc'[i] = "prepare"
                 /\ s[i] \notin Final /\ Occurs(i, pending)
        /\ \A i \in DOMAIN pending' :
              pc'[pending'[i]] = "none" /\ Occurs(pending'[i], pending)
        /\ \A i \in Job : s[i] \notin Final /\ Occurs(i, pending)
              => pc'[i] = "prepare" \/ Occurs(i, pending')
        /\ active' = MaxConcurrency \/ pending' = <<>>
    BY <1>1, <1>2, <1>3, <1>5, <1>6, <1>7, PumpEffect
  <1>9. SlotsMatchRuns'
    BY <1>8 DEF SlotsMatchRuns, Running, Busy
  <1>10. /\ pc'[j] = "none"
         /\ \A i \in Job \ {j} :
               \/ pc'[i] = pc[i]
               \/ /\ pc[i] = "none" /\ pc'[i] = "prepare"
                  /\ s[i] \notin Final /\ Occurs(i, pending)
    BY <1>2, <1>4, <1>8
  <1> QED BY <1>8, <1>9, <1>10

\* A run that ends by throwing, or whose snapshot is over, keeps the invariants
\* of the queue; st' and pending are related only by what pump() looked at.
LEMMA ReleaseKeepsQueue ==
    ASSUME WorkerInv, NEW j \in Job, st' \in [Job -> JobState], up' = up, up,
           pc[j] # "none", Release(j, st'),
           st'[j] \in Final, \A i \in Job \ {j} : st'[i] = st[i]
    PROVE  /\ pending' \in Seq(Job) /\ active' \in 0..MaxConcurrency
           /\ pc' \in [Job -> Position] /\ pc'[j] = "none"
           /\ \A i \in Job \ {j} :
                 pc'[i] = pc[i] \/ (pc[i] = "none" /\ pc'[i] = "prepare"
                                    /\ st[i] = "submitted" /\ Occurs(i, pending))
           /\ \A i \in DOMAIN pending' : Occurs(pending'[i], pending)
           /\ SlotsMatchRuns' /\ NoStrandedJob' /\ NoIdleSlot' /\ QueuedState'
  <1>1. /\ pending' \in Seq(Job) /\ Distinct(pending')
        /\ pc' \in [Job -> Position]
        /\ active' \in 0..MaxConcurrency
        /\ SlotsMatchRuns'
        /\ pc'[j] = "none"
        /\ \A i \in Job \ {j} :
              \/ pc'[i] = pc[i]
              \/ /\ pc[i] = "none" /\ pc'[i] = "prepare"
                 /\ st'[i] \notin Final /\ Occurs(i, pending)
        /\ \A i \in DOMAIN pending' :
              pc'[pending'[i]] = "none" /\ Occurs(pending'[i], pending)
        /\ \A i \in Job : st'[i] \notin Final /\ Occurs(i, pending)
              => pc'[i] = "prepare" \/ Occurs(i, pending')
        /\ active' = MaxConcurrency \/ pending' = <<>>
    BY ReleaseEffect
  <1>2. \A i \in Job : Occurs(i, pending) =>
            i # j /\ st[i] \in {"submitted", "cancelled"} /\ st'[i] = st[i]
    BY DEF WorkerInv, Occurs, NoStrandedJob, QueuedState
  <1>3. \A i \in Job \ {j} :
            pc'[i] = pc[i] \/ (pc[i] = "none" /\ pc'[i] = "prepare"
                               /\ st[i] = "submitted" /\ Occurs(i, pending))
    BY <1>1, <1>2 DEF Final, Terminal
  <1>4. \A i \in DOMAIN pending' : pending'[i] \in Job
    BY <1>1, LenProperties, ElementOfSeq
  <1>5. QueuedState'
    BY <1>1, <1>2, <1>4 DEF QueuedState
  <1>6. NoIdleSlot'
    BY <1>1 DEF NoIdleSlot
  <1>7. ASSUME NEW i \in Job, st'[i] \notin Final \union {"absent"}
        PROVE  pc'[i] # "none" \/ Occurs(i, pending')
    <2>1. i # j /\ st'[i] = st[i]
      BY <1>7
    <2>2. pc[i] # "none" \/ Occurs(i, pending)
      BY <1>7, <2>1 DEF WorkerInv, NoStrandedJob
    <2> QED BY <1>1, <1>7, <2>1, <2>2
  <1>8. NoStrandedJob'
    BY <1>1, <1>7 DEF NoStrandedJob, Occurs
  <1> QED BY <1>1, <1>3, <1>5, <1>6, <1>8

LEMMA CaughtFailedStep ==
    ASSUME WorkerInv, NEW j \in Job, CaughtFailed(j)
    PROVE  WorkerInv'
  <1> USE DEF WorkerInv
  <1>1. /\ st' = [st EXCEPT ![j] = "failed"] /\ Release(j, st')
        /\ UNCHANGED <<up, ev, order, aborted, snapQ, writer, disk, history>>
        /\ up /\ pc[j] \in {"prepare", "execute", "store"} /\ st[j] # "cancelling"
    BY DEF CaughtFailed, Throws
  <1>2. /\ st' \in [Job -> JobState] /\ st'[j] = "failed"
        /\ \A i \in Job \ {j} : st'[i] = st[i]
    BY <1>1 DEF TypeOK, JobState, Final, Terminal
  <1>3. /\ pending' \in Seq(Job) /\ active' \in 0..MaxConcurrency
        /\ pc' \in [Job -> Position] /\ pc'[j] = "none"
        /\ \A i \in Job \ {j} :
              pc'[i] = pc[i] \/ (pc[i] = "none" /\ pc'[i] = "prepare"
                                 /\ st[i] = "submitted" /\ Occurs(i, pending))
        /\ \A i \in DOMAIN pending' : Occurs(pending'[i], pending)
        /\ SlotsMatchRuns' /\ NoStrandedJob' /\ NoIdleSlot' /\ QueuedState'
    BY <1>1, <1>2, ReleaseKeepsQueue DEF Final, Terminal
  <1>4. TypeOK'
    BY <1>1, <1>2, <1>3 DEF TypeOK, writer, disk, history
  <1>5. ListsAreKnown'
    BY <1>1, <1>2 DEF TypeOK, ListsAreKnown, writer
  <1>6. LegState'
    BY <1>1, <1>2, <1>3 DEF TypeOK, LegState, Final, Terminal, Outcome
  <1>7. CancelledIsIdle' /\ EvidenceOnlyOfOutcome'
    BY <1>1, <1>2, <1>3 DEF TypeOK, CancelledIsIdle, EvidenceOnlyOfOutcome, Outcome
  <1>8. Waiters'
    <2>1. \A i \in DOMAIN snapQ : snapQ[i] \in Job \union {NoJob}
      BY LenProperties, ElementOfSeq DEF TypeOK
    <2>2. \A i \in DOMAIN snapQ : snapQ[i] # NoJob => snapQ[i] # j /\ pc'[snapQ[i]] = "settle"
      BY <2>1, <1>1, <1>3 DEF Waiters
    <2> QED BY <2>2, <1>1 DEF Waiters, writer
  <1>9. Stopped' /\ SavedEvidence'
    BY <1>1 DEF Stopped, SavedEvidence, writer, disk
  <1>10. RanOnce'
    BY <1>1, <1>2, <1>3 DEF TypeOK, RanOnce, Occurs, history
  <1> QED BY <1>3, <1>4, <1>5, <1>6, <1>7, <1>8, <1>9, <1>10

\* The end of a snapshot, whatever became of the file.
LEMMA SnapshotSettlesStep ==
    ASSUME WorkerInv, SnapshotSettles, up, up' = up, snapPhase # "idle",
           file' \in Seq(Entry), torn' \in BOOLEAN,
           \A i \in DOMAIN file' : file'[i].ev => file'[i].st \in Outcome
    PROVE  WorkerInv'
  <1> USE DEF WorkerInv
  <1>1. /\ snapPhase' = "idle" /\ listed' = <<>> /\ image' = <<>>
        /\ snapQ' = Tail(snapQ)
        /\ UNCHANGED <<registry, aborted, history>>
    BY DEF SnapshotSettles
  <1>2. snapQ \in Seq(Job \union {NoJob}) /\ snapQ # <<>>
    BY DEF TypeOK, Waiters
  <1>3. /\ Head(snapQ) \in Job \union {NoJob} /\ 1 \in DOMAIN snapQ /\ Head(snapQ) = snapQ[1]
        /\ snapQ' \in Seq(Job \union {NoJob})
        /\ \A i \in DOMAIN snapQ' :
              i \in Nat /\ i + 1 \in DOMAIN snapQ /\ i + 1 # 1 /\ snapQ'[i] = snapQ[i + 1]
    BY <1>1, <1>2, TailIndex
  <1>4. \A i \in DOMAIN snapQ' : snapQ'[i] # NoJob =>
            snapQ'[i] \in Job /\ snapQ'[i] # Head(snapQ) /\ pc[snapQ'[i]] = "settle"
    <2>1. \A i \in DOMAIN snapQ' : snapQ'[i] \in Job \union {NoJob}
      BY <1>3, LenProperties, ElementOfSeq
    <2> QED BY <2>1, <1>3 DEF Waiters
  <1>5. \A i, k \in DOMAIN snapQ' : snapQ'[i] = snapQ'[k] /\ snapQ'[i] # NoJob => i = k
    <2> SUFFICES ASSUME NEW i \in DOMAIN snapQ', NEW k \in DOMAIN snapQ',
                        snapQ'[i] = snapQ'[k], snapQ'[i] # NoJob
                 PROVE  i = k
      OBVIOUS
    <2>1. i + 1 = k + 1 /\ i \in Nat /\ k \in Nat
      BY <1>3 DEF Waiters
    <2> QED BY <2>1
  <1>6. st' \in [Job -> JobState] /\ st' = st /\ ev' = ev /\ order' = order
    BY <1>1 DEF TypeOK, registry
  <1>7. <<>> \in Seq(Job) /\ <<>> \in Seq(Entry) /\ DOMAIN <<>> = {}
    OBVIOUS
  <1>8. ListsAreKnown' /\ SavedEvidence' /\ Stopped' /\ EvidenceOnlyOfOutcome'
    BY <1>1, <1>6, <1>7
       DEF ListsAreKnown, SavedEvidence, Stopped, EvidenceOnlyOfOutcome
  <1>9. CASE Head(snapQ) = NoJob
    <2>1. UNCHANGED <<pending, active, pc>>
      BY <1>9 DEF SnapshotSettles
    <2>2. TypeOK'
      BY <2>1, <1>1, <1>3, <1>6, <1>7 DEF TypeOK, history
    <2>3. Waiters'
      BY <2>1, <1>1, <1>4, <1>5 DEF Waiters
    <2>4. SlotsMatchRuns' /\ NoStrandedJob' /\ NoIdleSlot' /\ QueuedState' /\ LegState'
          /\ CancelledIsIdle'
      BY <2>1, <1>6 DEF SlotsMatchRuns, Running, NoStrandedJob, NoIdleSlot, QueuedState,
         LegState, CancelledIsIdle, Distinct, Occurs
    <2>5. RanOnce'
      BY <2>1, <1>1, <1>6 DEF RanOnce, history, Occurs
    <2> QED BY <2>2, <2>3, <2>4, <2>5, <1>8
  <1>10. CASE Head(snapQ) # NoJob
    <2> DEFINE j == Head(snapQ)
    <2>1. j \in Job /\ pc[j] = "settle" /\ st[j] \in Final
      BY <1>3, <1>10 DEF Waiters, LegState
    <2>2. Release(j, st)
      BY <1>10 DEF SnapshotSettles
    <2> HIDE DEF j
    <2>3. /\ pending' \in Seq(Job) /\ active' \in 0..MaxConcurrency
          /\ pc' \in [Job -> Position] /\ pc'[j] = "none"
          /\ \A i \in Job \ {j} :
                pc'[i] = pc[i] \/ (pc[i] = "none" /\ pc'[i] = "prepare"
                                   /\ st[i] = "submitted" /\ Occurs(i, pending))
          /\ \A i \in DOMAIN pending' : Occurs(pending'[i], pending)
          /\ SlotsMatchRuns' /\ NoStrandedJob' /\ NoIdleSlot' /\ QueuedState'
      BY <2>1, <2>2, <1>6, ReleaseKeepsQueue
    <2>4. TypeOK'
      BY <2>3, <1>1, <1>3, <1>6, <1>7 DEF TypeOK, history
    <2>5. LegState' /\ CancelledIsIdle'
      BY <2>1, <2>3, <1>6 DEF TypeOK, LegState, CancelledIsIdle
    <2>6. Waiters'
      <3>1. \A i \in DOMAIN snapQ' : snapQ'[i] # NoJob =>
                snapQ'[i] \in Job \ {j} /\ pc[snapQ'[i]] = "settle"
        BY <1>4 DEF j
      <3>2. \A i \in Job \ {j} : pc[i] = "settle" => pc'[i] = "settle"
        BY <2>3
      <3> QED BY <3>1, <3>2, <1>1, <1>5 DEF Waiters
    <2>7. RanOnce'
      <3> SUFFICES ASSUME NEW i \in Job \ forgotten'
                   PROVE  /\ ran'[i] <= 1
                          /\ ran'[i] = 1 => st'[i] # "absent" /\ pc'[i] # "prepare"
                                            /\ ~Occurs(i, pending')
        BY DEF RanOnce
      <3>1. /\ ran'[i] <= 1
            /\ ran'[i] = 1 => st[i] # "absent" /\ pc[i] # "prepare" /\ ~Occurs(i, pending)
        BY <1>1 DEF RanOnce, history
      <3>2. Occurs(i, pending') => Occurs(i, pending)
        BY <2>3 DEF Occurs
      <3> QED BY <3>1, <3>2, <2>3, <1>6
    <2> QED BY <2>3, <2>4, <2>5, <2>6, <2>7, <1>8
  <1> QED BY <1>9, <1>10

LEMMA SnapshotDoneStep ==
    ASSUME WorkerInv, SnapshotDone
    PROVE  WorkerInv'
  <1>1. /\ up /\ up' = up /\ snapPhase = "writing" /\ SnapshotSettles
        /\ file' = image /\ torn' = FALSE
    BY DEF SnapshotDone, SnapshotSettles
  <1>2. file' \in Seq(Entry) /\ \A i \in DOMAIN file' : file'[i].ev => file'[i].st \in Outcome
    BY <1>1 DEF WorkerInv, TypeOK, SavedEvidence
  <1> QED BY <1>1, <1>2, SnapshotSettlesStep

LEMMA SnapshotFailsStep ==
    ASSUME WorkerInv, NEW cut \in BOOLEAN, SnapshotFails(cut)
    PROVE  WorkerInv'
  <1>1. /\ up /\ up' = up /\ snapPhase # "idle" /\ SnapshotSettles /\ file' = file
        /\ torn' \in BOOLEAN
    BY DEF SnapshotFails, SnapshotSettles, WorkerInv, TypeOK
  <1>2. file' \in Seq(Entry) /\ \A i \in DOMAIN file' : file'[i].ev => file'[i].st \in Outcome
    BY <1>1 DEF WorkerInv, TypeOK, SavedEvidence
  <1> QED BY <1>1, <1>2, SnapshotSettlesStep

LEMMA SubmitStep ==
    ASSUME WorkerInv, NEW j \in Job, Submit(j)
    PROVE  WorkerInv'
  <1> USE DEF WorkerInv
  <1> DEFINE q == Append(pending, j)
  <1>1. /\ up /\ st[j] = "absent"
        /\ st' = [st EXCEPT ![j] = "submitted"]
        /\ order' = Append(order, j) /\ snapQ' = Append(snapQ, NoJob)
        /\ Pump(q, active, st', pc)
        /\ UNCHANGED <<up, ev, aborted, writer, disk, history>>
    BY DEF Submit
  <1>2. /\ st' \in [Job -> JobState] /\ st'[j] = "submitted"
        /\ \A i \in Job \ {j} : st'[i] = st[i]
    BY <1>1 DEF TypeOK, JobState
  <1>3. pc[j] = "none" /\ ~Occurs(j, pending)
    BY <1>1 DEF TypeOK, Position, LegState, QueuedState, Occurs, Final, Terminal, Outcome
  <1>4. pending \in Seq(Job) /\ order \in Seq(Job)
    BY DEF TypeOK
  <1>5. /\ q \in Seq(Job)
        /\ \A i \in DOMAIN pending : i \in DOMAIN q /\ q[i] = pending[i]
        /\ \A i \in DOMAIN q :
              \/ i \in DOMAIN pending /\ q[i] = pending[i]
              \/ i = Len(pending) + 1 /\ q[i] = j
        /\ Len(pending) + 1 \in DOMAIN q /\ q[Len(pending) + 1] = j
    BY <1>4, AppendIndex
  <1> HIDE DEF q
  <1>6. Distinct(q) /\ \A i \in DOMAIN q : pc[q[i]] = "none"
    BY <1>3, <1>5 DEF Distinct, NoStrandedJob, Occurs
  <1>7. \A i \in Job : Occurs(i, q) <=> Occurs(i, pending) \/ i = j
    BY <1>5 DEF Occurs
  <1>8. /\ pending' \in Seq(Job) /\ Distinct(pending')
        /\ pc' \in [Job -> Position]
        /\ active' \in 0..MaxConcurrency
        /\ active' = Cardinality(Busy(pc'))
        /\ \A i \in Job :
              \/ pc'[i] = pc[i]
              \/ /\ pc[i] = "none" /\ pc'[i] = "prepare"
                 /\ st'[i] \notin Final /\ Occurs(i, q)
        /\ \A i \in DOMAIN pending' :
              pc'[pending'[i]] = "none" /\ Occurs(pending'[i], q)
        /\ \A i \in Job : st'[i] \notin Final /\ Occurs(i, q)
              => pc'[i] = "prepare" \/ Occurs(i, pending')
        /\ active' = MaxConcurrency \/ pending' = <<>>
    <2>1. active = Cardinality(Busy(pc)) /\ pc \in [Job -> Position]
      BY DEF SlotsMatchRuns, Running, Busy, TypeOK
    <2>2. Pump(q, active, st', pc) /\ st' \in [Job -> JobState] /\ q \in Seq(Job)
      BY <1>1, <1>2, <1>5
    <2> HIDE DEF WorkerInv
    <2> QED BY <2>1, <2>2, <1>6, PumpEffect
  <1>9. \A i \in DOMAIN pending' : pending'[i] \in Job
    BY <1>8, LenProperties, ElementOfSeq
  <1>10. \A i \in Job : Occurs(i, q) => st'[i] \in {"submitted", "cancelled"}
    BY <1>2, <1>7 DEF Occurs, QueuedState
  <1>11. snapQ' \in Seq(Job \union {NoJob}) /\ Waiters'
    <2>1. snapPhase' = snapPhase /\ \A i \in Job : pc[i] = "settle" => pc'[i] = "settle"
      BY <1>1, <1>8 DEF writer
    <2> QED BY <2>1, <1>1, SnapshotAsked
  <1>12. /\ order' \in Seq(Job)
         /\ \A i \in DOMAIN order' :
               (i \in DOMAIN order /\ order'[i] = order[i]) \/ order'[i] = j
    BY <1>1, <1>4, AppendIndex
  <1>13. TypeOK'
    BY <1>1, <1>2, <1>8, <1>11, <1>12 DEF TypeOK, writer, disk, history
  <1>14. ListsAreKnown'
    <2>1. \A i \in DOMAIN listed : listed[i] \in Job
      BY LenProperties, ElementOfSeq DEF TypeOK
    <2>2. \A i \in DOMAIN order : order[i] \in Job
      BY LenProperties, ElementOfSeq DEF TypeOK
    <2> QED BY <2>1, <2>2, <1>1, <1>2, <1>12 DEF ListsAreKnown, writer
  <1>15. LegState'
    BY <1>1, <1>2, <1>3, <1>8, <1>10 DEF LegState, Final, Terminal
  <1>16. QueuedState'
    BY <1>8, <1>9, <1>10 DEF QueuedState
  <1>17. SlotsMatchRuns'
    BY <1>8 DEF SlotsMatchRuns, Running, Busy
  <1>18. NoIdleSlot'
    BY <1>8 DEF NoIdleSlot
  <1>19. ASSUME NEW i \in Job, st'[i] \notin Final \union {"absent"}
         PROVE  pc'[i] # "none" \/ Occurs(i, pending')
    <2>1. pc[i] # "none" \/ Occurs(i, q)
      BY <1>1, <1>2, <1>7, <1>19 DEF NoStrandedJob
    <2> QED BY <2>1, <1>8, <1>19
  <1>20. NoStrandedJob'
    BY <1>8, <1>19 DEF NoStrandedJob
  <1>21. CancelledIsIdle' /\ EvidenceOnlyOfOutcome'
    BY <1>1, <1>2, <1>8 DEF CancelledIsIdle, EvidenceOnlyOfOutcome, Outcome, Final, Terminal
  <1>22. Stopped' /\ SavedEvidence'
    BY <1>1 DEF Stopped, SavedEvidence, writer, disk
  <1>23. RanOnce'
    <2> SUFFICES ASSUME NEW i \in Job \ forgotten', ran'[i] = 1
                 PROVE  st'[i] # "absent" /\ pc'[i] # "prepare" /\ ~Occurs(i, pending')
      BY <1>1 DEF RanOnce, history
    <2>1. st[i] # "absent" /\ pc[i] # "prepare" /\ ~Occurs(i, pending)
      BY <1>1 DEF RanOnce, history
    <2>2. i # j /\ ~Occurs(i, q)
      BY <2>1, <1>1, <1>7
    <2>3. ~Occurs(i, pending')
      BY <2>2, <1>8 DEF Occurs
    <2> QED BY <2>1, <2>2, <2>3, <1>2, <1>8
  <1> QED BY <1>11, <1>13, <1>14, <1>15, <1>16, <1>17, <1>18, <1>20, <1>21, <1>22, <1>23
-----------------------------------------------------------------------------
(* Crash, restart, and the invariant of the specification. *)

LEMMA NobodyRuns ==
    ASSUME \A j \in Job : pc[j] = "none"
    PROVE  Cardinality(Running) = 0
  <1>1. Running = {}
    BY DEF Running
  <1> QED BY <1>1, FS_EmptySet

LEMMA CrashStep ==
    ASSUME WorkerInv, NEW left \in Remains, Crash(left)
    PROVE  WorkerInv'
  <1> USE DEF WorkerInv
  <1>1. /\ up' = FALSE /\ pending' = <<>> /\ active' = 0
        /\ pc' = [j \in Job |-> "none"] /\ aborted' = {}
        /\ snapQ' = <<>> /\ snapPhase' = "idle" /\ listed' = <<>> /\ image' = <<>>
        /\ crashes' \in 0..MaxCrashes
        /\ file' \in {file, image} /\ torn' \in BOOLEAN
        /\ st' = st /\ ev' = ev /\ order' = order /\ ran' = ran /\ forgotten' = forgotten
    BY BoundAssumption DEF Crash, TypeOK, registry
  <1>2. TypeOK'
    <2>1. <<>> \in Seq(Job) /\ <<>> \in Seq(Entry) /\ <<>> \in Seq(Job \union {NoJob})
      OBVIOUS
    <2>2. 0 \in 0..MaxConcurrency
      BY ConcurrencyAssumption
    <2> QED BY <1>1, <2>1, <2>2 DEF TypeOK, Position
  <1>3. SlotsMatchRuns'
    <2>1. \A j \in Job : pc'[j] = "none"
      BY <1>1
    <2>2. Running' = {}
      BY <2>1 DEF Running
    <2> QED BY <2>2, <1>1, FS_EmptySet DEF SlotsMatchRuns
  <1>4. ListsAreKnown' /\ LegState' /\ QueuedState' /\ NoIdleSlot' /\ CancelledIsIdle'
        /\ EvidenceOnlyOfOutcome' /\ Stopped' /\ SavedEvidence'
    BY <1>1 DEF ListsAreKnown, LegState, QueuedState, NoIdleSlot, CancelledIsIdle,
       EvidenceOnlyOfOutcome, Stopped, SavedEvidence
  <1>5. NoStrandedJob' /\ Waiters' /\ RanOnce'
    BY <1>1 DEF NoStrandedJob, Waiters, RanOnce, Distinct, Occurs
  <1> QED BY <1>2, <1>3, <1>4, <1>5

LEMMA RestartStep ==
    ASSUME WorkerInv, Restart
    PROVE  WorkerInv'
  <1> USE DEF WorkerInv
  <1>1. /\ ~up /\ up' = TRUE
        /\ order' = [i \in DOMAIN OnDisk |-> OnDisk[i].id]
        /\ st' = [j \in Job |-> IF EntriesOf(j) = {} THEN "absent" ELSE Restored(Saved(j))]
        /\ ev' = [j \in Job |-> EntriesOf(j) # {} /\ Saved(j).ev]
        /\ forgotten' = forgotten \union {j \in Job : st[j] # "absent" /\ EntriesOf(j) = {}}
        /\ UNCHANGED <<runs, snapQ, writer, disk, ran, crashes>>
    BY DEF Restart
  <1>2. /\ pending = <<>> /\ snapQ = <<>> /\ snapPhase = "idle" /\ listed = <<>>
        /\ \A j \in Job : pc[j] = "none"
    BY <1>1 DEF Stopped
  <1>3. /\ OnDisk \in Seq(Entry)
        /\ \A i \in DOMAIN OnDisk : OnDisk[i] \in Entry
                                     /\ (OnDisk[i].ev => OnDisk[i].st \in Outcome)
    <2>1. OnDisk \in Seq(Entry) /\ (OnDisk = file \/ OnDisk = <<>>)
      BY DEF OnDisk, TypeOK
    <2>2. \A i \in DOMAIN OnDisk : OnDisk[i] \in Entry
      BY <2>1, LenProperties, ElementOfSeq
    <2> QED BY <2>1, <2>2 DEF SavedEvidence
  <1>4. \A j \in Job : EntriesOf(j) # {} =>
            Saved(j) \in Entry /\ (Saved(j).ev => Saved(j).st \in Outcome)
    <2> SUFFICES ASSUME NEW j \in Job, EntriesOf(j) # {}
                 PROVE  Saved(j) \in Entry /\ (Saved(j).ev => Saved(j).st \in Outcome)
      OBVIOUS
    <2>1. Saved(j) \in EntriesOf(j)
      BY DEF Saved
    <2> QED BY <2>1, <1>3 DEF EntriesOf
  <1>5. \A j \in Job : EntriesOf(j) # {} =>
            /\ Restored(Saved(j)) \in Final /\ Saved(j).ev \in BOOLEAN
            /\ Saved(j).ev => Restored(Saved(j)) \in Outcome
    BY <1>4 DEF Restored, Entry, Final, Terminal, Outcome
  <1>6. st' \in [Job -> JobState] /\ ev' \in [Job -> BOOLEAN]
    BY <1>1, <1>5 DEF JobState
  <1>7. \A j \in Job : st'[j] \in Final \union {"absent"} /\ (ev'[j] => st'[j] \in Outcome)
    BY <1>1, <1>5
  <1>8. order' \in Seq(Job)
    <2>1. Len(OnDisk) \in Nat /\ DOMAIN OnDisk = 1..Len(OnDisk)
      BY <1>3, LenProperties
    <2>2. order' \in [1..Len(OnDisk) -> Job]
      BY <2>1, <1>1, <1>3 DEF Entry
    <2> QED BY <2>1, <2>2, SeqDef
  <1>9. \A i \in DOMAIN order' : st'[order'[i]] # "absent"
    <2> SUFFICES ASSUME NEW i \in DOMAIN OnDisk
                 PROVE  st'[OnDisk[i].id] # "absent"
      BY <1>1
    <2>1. OnDisk[i].id \in Job /\ EntriesOf(OnDisk[i].id) # {}
      BY <1>3 DEF EntriesOf, Entry
    <2> QED BY <2>1, <1>1, <1>5 DEF Final, Terminal
  <1>10. TypeOK'
    BY <1>1, <1>6, <1>8 DEF TypeOK, runs, writer, disk
  <1>11. ListsAreKnown'
    <2>1. listed' = <<>> /\ DOMAIN listed' = {}
      BY <1>1, <1>2 DEF writer
    <2> HIDE DEF WorkerInv
    <2> QED BY <2>1, <1>9 DEF ListsAreKnown
  <1>12. LegState' /\ CancelledIsIdle' /\ EvidenceOnlyOfOutcome' /\ QueuedState'
         /\ NoIdleSlot' /\ Stopped' /\ SavedEvidence' /\ Waiters'
    BY <1>1, <1>2, <1>7 DEF LegState, CancelledIsIdle, EvidenceOnlyOfOutcome, QueuedState,
       NoIdleSlot, Stopped, SavedEvidence, Waiters, runs, writer, disk
  <1>13. SlotsMatchRuns'
    BY <1>1 DEF SlotsMatchRuns, Running, runs
  <1>14. NoStrandedJob'
    BY <1>1, <1>2, <1>7 DEF NoStrandedJob, Distinct, Occurs, runs
  <1>15. RanOnce'
    <2> SUFFICES ASSUME NEW j \in Job \ forgotten'
                 PROVE  /\ ran'[j] <= 1
                        /\ ran'[j] = 1 => st'[j] # "absent" /\ pc'[j] # "prepare"
                                          /\ ~Occurs(j, pending')
      BY DEF RanOnce
    <2>1. ran[j] <= 1 /\ (ran[j] = 1 => st[j] # "absent") /\ j \notin forgotten
      BY <1>1 DEF RanOnce
    <2>2. st[j] # "absent" => EntriesOf(j) # {}
      BY <1>1
    <2> QED BY <2>1, <2>2, <1>1, <1>2, <1>5 DEF Final, Terminal, Occurs, runs
  <1> QED BY <1>10, <1>11, <1>12, <1>13, <1>14, <1>15

\* The invariant holds when the worker starts and is kept by every step.
LEMMA WorkerInvInit == Init => WorkerInv
  <1> SUFFICES ASSUME Init PROVE WorkerInv
    OBVIOUS
  <1>1. TypeOK
    <2>1. <<>> \in Seq(Job) /\ <<>> \in Seq(Entry) /\ <<>> \in Seq(Job \union {NoJob})
      OBVIOUS
    <2>2. 0 \in 0..MaxConcurrency /\ 0 \in 0..MaxCrashes /\ 0 \in Nat
      BY ConcurrencyAssumption, BoundAssumption
    <2> QED BY <2>1, <2>2 DEF Init, TypeOK, JobState, Position
  <1>2. SlotsMatchRuns
    BY NobodyRuns DEF Init, SlotsMatchRuns
  <1>3. ListsAreKnown /\ LegState /\ QueuedState /\ NoStrandedJob /\ NoIdleSlot
        /\ CancelledIsIdle /\ EvidenceOnlyOfOutcome
    BY DEF Init, ListsAreKnown, LegState, QueuedState, NoStrandedJob, NoIdleSlot,
       CancelledIsIdle, EvidenceOnlyOfOutcome, Distinct, Occurs
  <1>4. Waiters /\ Stopped /\ SavedEvidence /\ RanOnce
    BY DEF Init, Waiters, Stopped, SavedEvidence, RanOnce, Occurs
  <1> QED BY <1>1, <1>2, <1>3, <1>4 DEF WorkerInv

LEMMA WorkerInvStutter ==
    ASSUME WorkerInv, UNCHANGED vars
    PROVE  WorkerInv'
  <1> USE DEF WorkerInv, vars, registry, runs, writer, disk, history
  <1>1. TypeOK'
    BY DEF TypeOK
  <1>2. ListsAreKnown' /\ LegState' /\ QueuedState' /\ NoIdleSlot' /\ CancelledIsIdle'
    BY DEF ListsAreKnown, LegState, QueuedState, NoIdleSlot, CancelledIsIdle
  <1>3. EvidenceOnlyOfOutcome' /\ Stopped' /\ SavedEvidence' /\ SlotsMatchRuns'
    BY DEF EvidenceOnlyOfOutcome, Stopped, SavedEvidence, SlotsMatchRuns, Running
  <1>4. NoStrandedJob' /\ Waiters' /\ RanOnce'
    BY DEF NoStrandedJob, Waiters, RanOnce, Distinct, Occurs
  <1> QED BY <1>1, <1>2, <1>3, <1>4

LEMMA WorkerInvStep == WorkerInv /\ [Next]_vars => WorkerInv'
  <1> SUFFICES ASSUME WorkerInv, [Next]_vars PROVE WorkerInv'
    OBVIOUS
  <1>1. ASSUME NEW j \in Job, Protocol(j) PROVE WorkerInv'
    BY <1>1, SubmitStep, CancelRunningStep, CancelQueuedStep DEF Protocol
  <1>2. ASSUME NEW j \in Job, Run(j) PROVE WorkerInv'
    <2>1. CASE Prepared(j)
      BY <2>1, PreparedStep
    <2>2. CASE ExecutedCancelled(j)
      BY <2>2, ExecutedCancelledStep
    <2>3. CASE \E o \in Results : ExecutedOutput(j, o)
      BY <2>3, ExecutedOutputStep
    <2>4. CASE \E o \in Results, e \in BOOLEAN : ExecutedNoOutput(j, o, e)
      BY <2>4, ExecutedNoOutputStep
    <2>5. CASE Stored(j)
      BY <2>5, StoredStep
    <2>6. CASE CaughtCancelled(j)
      BY <2>6, CaughtCancelledStep
    <2>7. CASE CaughtFailed(j)
      BY <2>7, CaughtFailedStep
    <2> QED BY <1>2, <2>1, <2>2, <2>3, <2>4, <2>5, <2>6, <2>7 DEF Run
  <1>3. CASE Snapshot
    BY <1>3, SnapshotListStep, SnapshotWriteStep, SnapshotDoneStep, SnapshotFailsStep
       DEF Snapshot
  <1>4. CASE \E left \in Remains : Crash(left)
    BY <1>4, CrashStep
  <1>5. CASE Restart
    BY <1>5, RestartStep
  <1>6. CASE UNCHANGED vars
    BY <1>6, WorkerInvStutter
  <1> QED BY <1>1, <1>2, <1>3, <1>4, <1>5, <1>6 DEF Next

\* The worker's inductive invariant holds in every reachable state.
THEOREM WorkerInvariant == Spec => []WorkerInv
  BY WorkerInvInit, WorkerInvStep, PTL DEF Spec

\* Every variable of the worker keeps its type, and the slot counter stays
\* within 0..MaxConcurrency.
THEOREM TypeCorrect == Spec => []TypeOK
  <1>1. WorkerInv => TypeOK
    BY DEF WorkerInv
  <1> QED BY <1>1, WorkerInvariant, PTL

\* The slots counted are exactly the runs in progress, and a job waits only while
\* every slot is used.
THEOREM SlotsExact == Spec => []SlotsAccounted
  <1>1. WorkerInv => SlotsAccounted
    BY DEF WorkerInv, SlotsAccounted
  <1> QED BY <1>1, WorkerInvariant, PTL

\* No accepted job is lost between the queue and the slots, and none is in both.
THEOREM NobodyStranded == Spec => []NoStrandedJob
  <1>1. WorkerInv => NoStrandedJob
    BY DEF WorkerInv
  <1> QED BY <1>1, WorkerInvariant, PTL

\* A job said to be cancelled is not being worked on.
THEOREM CancelledMeansIdle == Spec => []CancelledIsIdle
  <1>1. WorkerInv => CancelledIsIdle
    BY DEF WorkerInv
  <1> QED BY <1>1, WorkerInvariant, PTL

\* Evidence only ever belongs to a job that ended with an outcome.
THEOREM EvidenceNeedsOutcome == Spec => []EvidenceOnlyOfOutcome
  <1>1. WorkerInv => EvidenceOnlyOfOutcome
    BY DEF WorkerInv
  <1> QED BY <1>1, WorkerInvariant, PTL

\* A job reaches the executor twice only if a restart forgot it in between.
THEOREM RunsOnceUnlessForgotten == Spec => []RerunOnlyIfForgotten
  <1>1. WorkerInv => RerunOnlyIfForgotten
    BY DEF WorkerInv, TypeOK, RanOnce, RerunOnlyIfForgotten
  <1> QED BY <1>1, WorkerInvariant, PTL
-----------------------------------------------------------------------------
(* The worker implements its contract: what it shows of its jobs over time,  *)
(* through failures, cancels, crashes and restarts from a file that is late   *)
(* or cut short, is what WorkerContract allows.                              *)

Shown == <<up, st, ev>>

\* While the process runs, a job never becomes unknown, and an outcome stays as it
\* is, except that one without evidence may be taken back.
Goes(j) ==
    /\ st[j] # "absent" => st'[j] # "absent"
    /\ st[j] \in Final =>
         \/ st'[j] = st[j] /\ (ev[j] => ev'[j])
         \/ st[j] \in Outcome /\ ~ev[j] /\ st'[j] = "failed"

\* A step that is one of the contract and lets every job go as it may.
Serves ==
    /\ Promise!ContractNext \/ UNCHANGED Shown
    /\ \A j \in Job : Goes(j)
    /\ st' \in [Job -> JobState] /\ ev' \in [Job -> BOOLEAN]
-----------------------------------------------------------------------------
(* The steps of a process that runs.                                        *)

LEMMA SubmitServes ==
    ASSUME WorkerInv, NEW j \in Job, Submit(j)
    PROVE  Serves
  <1>1. Promise!Accept(j)
    BY DEF Submit, Promise!Accept
  <1>2. \A i \in Job : Goes(i)
    BY DEF WorkerInv, TypeOK, Submit, Goes, Final, Terminal
  <1>3. st' \in [Job -> JobState] /\ ev' \in [Job -> BOOLEAN]
    BY DEF WorkerInv, TypeOK, Submit, JobState
  <1> QED BY <1>1, <1>2, <1>3 DEF Serves, Promise!ContractNext

LEMMA CancelServes ==
    ASSUME WorkerInv, NEW j \in Job, CancelRunning(j) \/ CancelQueued(j)
    PROVE  Serves
  <1>1. st[j] \in JobState
    BY DEF WorkerInv, TypeOK
  <1>2. CASE CancelRunning(j)
    <2>1. st[j] # "absent"
      BY <1>2 DEF WorkerInv, LegState, TypeOK, Position, Outcome, Final, Terminal, CancelRunning
    <2>2. Promise!Cancel(j)
      BY <1>1, <1>2, <2>1 DEF CancelRunning, Promise!Cancel, Promise!Live, JobState, Final
    <2>3. \A i \in Job : Goes(i)
      BY <1>2 DEF WorkerInv, TypeOK, CancelRunning, Goes
    <2>4. st' \in [Job -> JobState] /\ ev' \in [Job -> BOOLEAN]
      BY <1>2 DEF WorkerInv, TypeOK, CancelRunning, JobState
    <2> QED BY <2>2, <2>3, <2>4 DEF Serves, Promise!ContractNext
  <1>3. CASE CancelQueued(j)
    <2>1. Occurs(j, pending)
      BY <1>3 DEF WorkerInv, NoStrandedJob, CancelQueued
    <2>2. st[j] = "submitted"
      BY <1>3, <2>1 DEF WorkerInv, QueuedState, Occurs, CancelQueued, Final, Terminal
    <2>3. Promise!Cancelled(j)
      BY <1>3, <2>2 DEF CancelQueued, Promise!Cancelled
    <2>4. \A i \in Job : Goes(i)
      BY <1>3 DEF WorkerInv, TypeOK, CancelQueued, Goes
    <2>5. st' \in [Job -> JobState] /\ ev' \in [Job -> BOOLEAN]
      BY <1>3 DEF WorkerInv, TypeOK, CancelQueued, JobState, Final, Terminal
    <2> QED BY <2>3, <2>4, <2>5 DEF Serves, Promise!ContractNext
  <1> QED BY <1>2, <1>3

LEMMA RunServes ==
    ASSUME WorkerInv, NEW j \in Job, Run(j)
    PROVE  Serves
  <1> USE DEF WorkerInv, TypeOK
  <1>1. CASE Prepared(j)
    <2>1. st[j] \in {"submitted", "cancelling"}
      BY <1>1 DEF LegState, Prepared
    <2>2. Promise!Start(j)
      BY <1>1, <2>1 DEF Prepared, Promise!Start
    <2>3. \A i \in Job : Goes(i)
      BY <1>1, <2>1 DEF Prepared, Goes, Final, Terminal
    <2>4. st' \in [Job -> JobState] /\ ev' \in [Job -> BOOLEAN]
      BY <1>1 DEF Prepared, JobState
    <2> QED BY <2>2, <2>3, <2>4 DEF Serves, Promise!ContractNext
  <1>2. CASE ExecutedCancelled(j) \/ CaughtCancelled(j)
    <2>1. up /\ st[j] = "cancelling" /\ st' = [st EXCEPT ![j] = "cancelled"]
             /\ UNCHANGED <<up, ev>>
      BY <1>2 DEF ExecutedCancelled, CaughtCancelled
    <2>2. Promise!Cancelled(j)
      BY <2>1 DEF Promise!Cancelled
    <2>3. \A i \in Job : Goes(i)
      BY <2>1 DEF Goes, Final, Terminal
    <2>4. st' \in [Job -> JobState] /\ ev' \in [Job -> BOOLEAN]
      BY <2>1 DEF JobState, Final, Terminal
    <2> QED BY <2>2, <2>3, <2>4 DEF Serves, Promise!ContractNext
  <1>3. ASSUME NEW o \in Results, NEW e \in BOOLEAN, up, pc[j] = "execute",
               st[j] # "cancelling", st' = [st EXCEPT ![j] = o],
               ev' = [ev EXCEPT ![j] = e], up' = up
        PROVE  Serves
    <2>1. st[j] = "running"
      BY <1>3 DEF LegState
    <2>2. o \in Outcome /\ o \in JobState
      BY ResultsAssumption DEF JobState, Outcome, Final, Terminal
    <2>3. Promise!End(j, o, e)
      BY <1>3, <2>1 DEF Promise!End
    <2>4. \A i \in Job : Goes(i)
      BY <1>3, <2>1, <2>2 DEF Goes, Final, Terminal, Outcome
    <2>5. st' \in [Job -> JobState] /\ ev' \in [Job -> BOOLEAN]
      BY <1>3, <2>2
    <2> QED BY <2>2, <2>3, <2>4, <2>5 DEF Serves, Promise!ContractNext, Promise!Outcome, Outcome
  <1>4. CASE \E o \in Results : ExecutedOutput(j, o)
    <2>1. PICK o \in Results : ExecutedOutput(j, o)
      BY <1>4
    <2>2. st[j] = "running"
      BY <2>1 DEF LegState, ExecutedOutput
    <2>3. ~ev[j]
      BY <2>2 DEF EvidenceOnlyOfOutcome, Outcome
    <2>4. ev' = [ev EXCEPT ![j] = FALSE]
      BY <2>1, <2>3 DEF ExecutedOutput
    <2> QED BY <1>3, <2>1, <2>4 DEF ExecutedOutput
  <1>5. CASE \E o \in Results, e \in BOOLEAN : ExecutedNoOutput(j, o, e)
    BY <1>3, <1>5 DEF ExecutedNoOutput
  <1>6. CASE Stored(j)
    <2>1. st[j] \in Outcome
      BY <1>6 DEF LegState, Stored
    <2>2. Promise!Publish(j)
      BY <1>6, <2>1 DEF Stored, Promise!Publish, Promise!Outcome, Outcome
    <2>3. \A i \in Job : Goes(i)
      BY <1>6 DEF Stored, Goes
    <2>4. st' \in [Job -> JobState] /\ ev' \in [Job -> BOOLEAN]
      BY <1>6 DEF Stored
    <2> QED BY <2>2, <2>3, <2>4 DEF Serves, Promise!ContractNext
  <1>7. CASE CaughtFailed(j)
    <2>1. up /\ st[j] # "cancelling" /\ st' = [st EXCEPT ![j] = "failed"]
             /\ UNCHANGED <<up, ev>>
      BY <1>7 DEF CaughtFailed
    <2>2. \/ st[j] = "submitted" /\ Promise!FailToStart(j)
          \/ st[j] = "running" /\ Promise!End(j, "failed", FALSE)
          \/ st[j] \in Outcome /\ ~ev[j] /\ Promise!TakeBack(j)
      <3>1. CASE pc[j] = "prepare"
        BY <2>1, <3>1 DEF LegState, Promise!FailToStart
      <3>2. CASE pc[j] = "execute"
        <4>1. st[j] = "running"
          BY <2>1, <3>2 DEF LegState
        <4>2. ~ev[j]
          BY <4>1 DEF EvidenceOnlyOfOutcome, Outcome
        <4>3. ev' = [ev EXCEPT ![j] = FALSE]
          BY <2>1, <4>2
        <4> QED BY <2>1, <4>1, <4>3 DEF Promise!End
      <3>3. CASE pc[j] = "store"
        BY <2>1, <3>3 DEF LegState, Promise!TakeBack, Promise!Outcome, Outcome
      <3> QED BY <1>7, <3>1, <3>2, <3>3 DEF CaughtFailed, Throws
    <2>3. Promise!ContractNext
      BY <2>2 DEF Promise!ContractNext, Promise!Outcome, Outcome
    <2>4. \A i \in Job : Goes(i)
      BY <2>1, <2>2 DEF Goes, Final, Terminal, Outcome
    <2>5. st' \in [Job -> JobState] /\ ev' \in [Job -> BOOLEAN]
      BY <2>1 DEF JobState, Final, Terminal
    <2> QED BY <2>3, <2>4, <2>5 DEF Serves
  <1> QED BY <1>1, <1>2, <1>4, <1>5, <1>6, <1>7 DEF Run
-----------------------------------------------------------------------------
(* The registry file.                                                       *)

\* What may return of a job may still return after a step the job goes along with.
LEMMA ReturnStays ==
    ASSUME WorkerInv, Serves, NEW e \in Entry, e.ev => e.st \in Outcome, MayReturn(e)
    PROVE  MayReturn(e)'
  <1> DEFINE j == e.id
  <1>1. /\ j \in Job /\ e.st \in JobState \ {"absent"} /\ e.ev \in BOOLEAN
        /\ st[j] \in JobState /\ st'[j] \in JobState
        /\ ev[j] \in BOOLEAN /\ ev'[j] \in BOOLEAN
    BY DEF WorkerInv, TypeOK, Entry, Serves
  <1>2. Goes(j)
    BY <1>1 DEF Serves
  <1>3. Promise!MayRemember(st[j], ev[j], Restored(e), e.ev)
    BY DEF MayReturn
  <1>4. Promise!MayRemember(st'[j], ev'[j], Restored(e), e.ev)
    BY <1>1, <1>2, <1>3
      DEF Promise!MayRemember, Goes, Restored, Final, Terminal, Outcome, JobState,
          Promise!Outcome, Promise!WorkerFinal, Promise!Terminal
  <1> QED BY <1>4 DEF MayReturn, Restored

LEMMA EntriesTyped ==
    ASSUME WorkerInv
    PROVE  /\ \A i \in DOMAIN image : image[i] \in Entry /\ (image[i].ev => image[i].st \in Outcome)
           /\ \A i \in DOMAIN file : file[i] \in Entry /\ (file[i].ev => file[i].st \in Outcome)
  <1>1. /\ \A i \in DOMAIN image : image[i] \in Entry
        /\ \A i \in DOMAIN file : file[i] \in Entry
    BY DEF WorkerInv, TypeOK
  <1> QED BY <1>1 DEF WorkerInv, SavedEvidence

\* Appending a job that is not in a list keeps the list free of repetitions.
LEMMA AppendDistinct ==
    ASSUME NEW q \in Seq(Job), NEW j \in Job, Distinct(q), ~Occurs(j, q)
    PROVE  Distinct(Append(q, j))
  <1>1. /\ Len(q) \in Nat /\ DOMAIN q = 1..Len(q)
        /\ DOMAIN Append(q, j) = 1..(Len(q) + 1)
        /\ \A i \in 1..Len(q) : Append(q, j)[i] = q[i]
        /\ Append(q, j)[Len(q) + 1] = j
    OBVIOUS
  <1> QED BY <1>1 DEF Distinct, Occurs

\* A step of the running process that leaves the writer and the disk alone.
LEMMA RegistryServed ==
    ASSUME WorkerInv, RegistryInv, Serves, UNCHANGED <<writer, disk>>,
           \/ order' = order
           \/ \E j \in Job : st[j] = "absent" /\ order' = Append(order, j)
    PROVE  RegistryInv'
  <1>1. Distinct(order)'
    <2>1. ASSUME NEW j \in Job, st[j] = "absent", order' = Append(order, j)
          PROVE  Distinct(order')
      <3>1. order \in Seq(Job) /\ ~Occurs(j, order)
        BY <2>1 DEF WorkerInv, TypeOK, ListsAreKnown, Occurs
      <3> QED BY <2>1, <3>1, AppendDistinct DEF RegistryInv
    <2> QED BY <2>1 DEF RegistryInv
  <1>2. \A i \in DOMAIN image' : MayReturn(image[i])'
    BY EntriesTyped, ReturnStays DEF RegistryInv, writer
  <1>3. ~torn' => \A i \in DOMAIN file' : MayReturn(file[i])'
    BY EntriesTyped, ReturnStays DEF RegistryInv, disk
  <1> QED BY <1>1, <1>2, <1>3 DEF RegistryInv, MayReturn, OneEntryEach, Distinct, writer, disk

\* The most recent jobs are listed once each.
LEMMA RecentDistinct ==
    ASSUME order \in Seq(Job), Distinct(order)
    PROVE  Distinct(Recent)
  <1> DEFINE n == Len(order)
             m == IF n > Keep THEN n - Keep + 1 ELSE 1
  <1>1. /\ n \in Nat /\ DOMAIN order = 1..n
        /\ \A i \in 1..n : order[i] \in Job
    BY LenProperties, ElementOfSeq
  <1>2. m \in Nat /\ m >= 1
    BY <1>1, BoundAssumption
  <1> HIDE DEF m, n
  <1>3. m \in Int /\ n \in Int /\ \A i \in m..n : order[i] \in Job
    BY <1>1, <1>2
  <1>4. /\ SubSeq(order, m, n) \in Seq(Job)
        /\ Len(SubSeq(order, m, n)) = IF m <= n THEN n - m + 1 ELSE 0
        /\ \A i \in 1..(n - m + 1) : SubSeq(order, m, n)[i] = order[m + i - 1]
    BY <1>3, SubSeqProperties
  <1>5. ASSUME NEW i \in DOMAIN SubSeq(order, m, n)
        PROVE  m + i - 1 \in DOMAIN order /\ SubSeq(order, m, n)[i] = order[m + i - 1]
               /\ i \in Int
    <2>1. DOMAIN SubSeq(order, m, n) = 1..Len(SubSeq(order, m, n))
      BY <1>4, LenProperties
    <2>2. CASE m <= n
      <3>1. i \in 1..(n - m + 1)
        BY <2>1, <2>2, <1>4
      <3> QED BY <3>1, <1>1, <1>2, <1>4
    <2>3. CASE ~(m <= n)
      <3>1. Len(SubSeq(order, m, n)) = 0
        BY <2>3, <1>4
      <3> QED BY <3>1, <2>1
    <2> QED BY <2>2, <2>3, <1>1, <1>2
  <1>6. Distinct(SubSeq(order, m, n))
    <2> DEFINE r == SubSeq(order, m, n)
    <2>1. \A i \in DOMAIN r : m + i - 1 \in DOMAIN order /\ r[i] = order[m + i - 1] /\ i \in Int
      BY <1>5
    <2> HIDE DEF r
    <2>2. ASSUME NEW i \in DOMAIN r, NEW k \in DOMAIN r, r[i] = r[k]
          PROVE  i = k
      <3>1. m + i - 1 = m + k - 1
        BY <2>1, <2>2 DEF Distinct
      <3> QED BY <3>1, <2>1, <1>2
    <2>3. Distinct(r)
      BY <2>2 DEF Distinct
    <2> QED BY <2>3 DEF r
  <1> QED BY <1>6 DEF Recent, m, n
-----------------------------------------------------------------------------
(* Snapshots, crashes and restarts.                                         *)

\* What is on disk stays good while nothing about the jobs changes.
LEMMA StaysGood ==
    ASSUME UNCHANGED <<st, ev>>, NEW e
    PROVE  MayReturn(e)' <=> MayReturn(e)
  BY DEF MayReturn, Restored, Promise!MayRemember

LEMMA SnapshotKeepsRegistry ==
    ASSUME WorkerInv, RegistryInv, Snapshot
    PROVE  RegistryInv' /\ UNCHANGED Shown
  <1> USE DEF WorkerInv, TypeOK
  <1>1. UNCHANGED <<up, st, ev, order>>
    BY DEF Snapshot, SnapshotList, SnapshotWrite, SnapshotDone, SnapshotFails,
           SnapshotSettles, registry
  <1>2. CASE SnapshotList
    <2>1. Distinct(listed')
      BY <1>2, RecentDistinct DEF SnapshotList, RegistryInv
    <2>2. image = <<>> /\ UNCHANGED <<image, file, torn>>
      BY <1>2 DEF SnapshotList, RegistryInv, disk
    <2> QED BY <1>1, <2>1, <2>2, StaysGood DEF RegistryInv, OneEntryEach, Distinct, Shown
  <1>3. CASE SnapshotWrite
    <2>1. /\ DOMAIN image' = DOMAIN listed
          /\ \A i \in DOMAIN listed :
                image'[i] = [id |-> listed[i], st |-> st[listed[i]], ev |-> ev[listed[i]]]
          /\ UNCHANGED <<listed, file, torn>> /\ snapPhase' = "writing"
      BY <1>3 DEF SnapshotWrite, disk
    <2>2. OneEntryEach(image')
      BY <2>1 DEF RegistryInv, Distinct, OneEntryEach
    <2>3. ASSUME NEW i \in DOMAIN listed
          PROVE  MayReturn(image'[i])
      <3> DEFINE j == listed[i]
      <3>1. j \in Job /\ st[j] \in JobState \ {"absent"} /\ (ev[j] => st[j] \in Outcome)
        BY DEF ListsAreKnown, EvidenceOnlyOfOutcome
      <3>2. image'[i] = [id |-> j, st |-> st[j], ev |-> ev[j]]
        BY <2>1
      <3> QED BY <3>1, <3>2
            DEF MayReturn, Restored, Promise!MayRemember, JobState, Final, Terminal, Outcome,
                Promise!WorkerFinal, Promise!Terminal
    <2>4. \A i \in DOMAIN image' : MayReturn(image'[i])
      BY <2>1, <2>3
    <2>5. \A i \in DOMAIN image' : MayReturn(image[i])'
      BY <1>1, <2>4 DEF MayReturn, Restored, Promise!MayRemember
    <2> QED BY <1>1, <2>1, <2>2, <2>5, StaysGood
          DEF RegistryInv, OneEntryEach, Distinct, Shown
  <1>4. CASE SnapshotDone \/ \E cut \in BOOLEAN : SnapshotFails(cut)
    <2>1. /\ snapPhase' = "idle" /\ listed' = <<>> /\ image' = <<>>
          /\ \/ file' = image /\ torn' = FALSE
             \/ file' = file /\ (~torn' => ~torn)
      BY <1>4 DEF SnapshotDone, SnapshotFails, SnapshotSettles
    <2>2. OneEntryEach(file') /\ (~torn' => \A i \in DOMAIN file' : MayReturn(file[i])')
      BY <1>1, <2>1, StaysGood DEF RegistryInv, OneEntryEach
    <2> QED BY <1>1, <2>1, <2>2 DEF RegistryInv, OneEntryEach, Distinct, Shown
  <1> QED BY <1>2, <1>3, <1>4 DEF Snapshot

LEMMA CrashKeepsRegistry ==
    ASSUME RegistryInv, NEW left \in Remains, Crash(left)
    PROVE  RegistryInv' /\ Promise!Stop
  <1>1. /\ UNCHANGED <<st, ev, order>> /\ up /\ up' = FALSE
        /\ snapPhase' = "idle" /\ listed' = <<>> /\ image' = <<>>
        /\ \/ file' = image /\ ~torn'
           \/ file' = file /\ (~torn' => ~torn)
    BY DEF Crash, registry, Remains
  <1>2. OneEntryEach(file') /\ (~torn' => \A i \in DOMAIN file' : MayReturn(file[i])')
    BY <1>1, StaysGood DEF RegistryInv, OneEntryEach
  <1> QED BY <1>1, <1>2 DEF RegistryInv, OneEntryEach, Distinct, Promise!Stop

\* A restart brings back what the worker may have said, and the file holds just that.
LEMMA RestartKeepsRegistry ==
    ASSUME WorkerInv, RegistryInv, Restart, WorkerInv'
    PROVE  RegistryInv' /\ Promise!Resume
  <1>1. /\ ~up /\ up' = TRUE
        /\ order' = [i \in DOMAIN OnDisk |-> OnDisk[i].id]
        /\ st' = [j \in Job |-> IF EntriesOf(j) = {} THEN "absent" ELSE Restored(Saved(j))]
        /\ ev' = [j \in Job |-> EntriesOf(j) # {} /\ Saved(j).ev]
        /\ UNCHANGED <<snapPhase, listed, image, file, torn>>
    BY DEF Restart, writer, disk
  <1>2. snapPhase = "idle" /\ image = <<>> /\ listed = <<>>
    BY <1>1 DEF WorkerInv, Stopped, RegistryInv
  <1>3. /\ OneEntryEach(OnDisk)
        /\ \A i \in DOMAIN OnDisk : MayReturn(OnDisk[i]) /\ OnDisk[i] \in Entry
                                     /\ (OnDisk[i].ev => OnDisk[i].st \in Outcome)
    BY EntriesTyped DEF OnDisk, RegistryInv, OneEntryEach
  <1>4. \A j \in Job, i \in DOMAIN OnDisk : OnDisk[i].id = j => Saved(j) = OnDisk[i]
    <2> SUFFICES ASSUME NEW j \in Job, NEW i \in DOMAIN OnDisk, OnDisk[i].id = j
                 PROVE  Saved(j) = OnDisk[i]
      OBVIOUS
    <2>1. OnDisk[i] \in EntriesOf(j)
      BY DEF EntriesOf
    <2>2. Saved(j) \in EntriesOf(j)
      BY <2>1 DEF Saved
    <2> QED BY <2>2, <1>3 DEF EntriesOf, OneEntryEach
  <1>5. ASSUME NEW j \in Job
        PROVE  Promise!MayRemember(st[j], ev[j], st'[j], ev'[j])
    <2>1. CASE EntriesOf(j) = {}
      BY <1>1, <2>1 DEF Promise!MayRemember
    <2>2. CASE EntriesOf(j) # {}
      <3>1. PICK i \in DOMAIN OnDisk : OnDisk[i].id = j
        BY <2>2 DEF EntriesOf
      <3>2. MayReturn(OnDisk[i]) /\ Saved(j) = OnDisk[i]
        BY <3>1, <1>3, <1>4
      <3>3. st'[j] = Restored(OnDisk[i]) /\ ev'[j] = OnDisk[i].ev
        BY <1>1, <1>3, <2>2, <3>2 DEF Entry
      <3> QED BY <3>1, <3>2, <3>3 DEF MayReturn
    <2> QED BY <2>1, <2>2
  <1>6. st' \in [Job -> Promise!WorkerState] /\ ev' \in [Job -> BOOLEAN]
    BY DEF WorkerInv, TypeOK, Promise!WorkerState, JobState, Final, Promise!WorkerFinal,
           Terminal, Promise!Terminal
  <1>7. Distinct(order')
    BY <1>1, <1>3 DEF Distinct, OneEntryEach
  <1>8. ASSUME NEW i \in DOMAIN OnDisk
        PROVE  Promise!MayRemember(st'[OnDisk[i].id], ev'[OnDisk[i].id],
                                   Restored(OnDisk[i]), OnDisk[i].ev)
    <2> DEFINE j == OnDisk[i].id
    <2>1. j \in Job /\ EntriesOf(j) # {} /\ Saved(j) = OnDisk[i]
      BY <1>3, <1>4 DEF Entry, EntriesOf
    <2>2. st'[j] = Restored(OnDisk[i]) /\ ev'[j] = OnDisk[i].ev
      BY <1>1, <1>3, <2>1 DEF Entry
    <2>3. Restored(OnDisk[i]) \in Final
      BY <1>3 DEF Restored, Final, Terminal
    <2> QED BY <2>2, <2>3
          DEF Promise!MayRemember, Final, Promise!WorkerFinal, Terminal, Promise!Terminal
  <1>9. ~torn' => \A i \in DOMAIN file' : MayReturn(file[i])'
    BY <1>1, <1>8 DEF MayReturn, OnDisk, Restored
  <1>10. RegistryInv'
    BY <1>1, <1>2, <1>7, <1>9 DEF RegistryInv, OneEntryEach, Distinct
  <1> QED BY <1>1, <1>5, <1>6, <1>10 DEF Promise!Resume
-----------------------------------------------------------------------------
LEMMA ContractInitial == Init => RegistryInv /\ Promise!ContractInit
  BY DEF Init, RegistryInv, OneEntryEach, Distinct, Promise!ContractInit

LEMMA ContractStep ==
    WorkerInv /\ WorkerInv' /\ RegistryInv /\ [Next]_vars
      => RegistryInv' /\ [Promise!ContractNext]_Shown
  <1> SUFFICES ASSUME WorkerInv, WorkerInv', RegistryInv, [Next]_vars
               PROVE  RegistryInv' /\ [Promise!ContractNext]_Shown
    OBVIOUS
  <1>1. ASSUME NEW j \in Job, Protocol(j) \/ Run(j)
        PROVE  RegistryInv' /\ [Promise!ContractNext]_Shown
    <2>1. Serves
      BY <1>1, SubmitServes, CancelServes, RunServes DEF Protocol
    <2>2. /\ UNCHANGED <<writer, disk>>
          /\ order' = order \/ (st[j] = "absent" /\ order' = Append(order, j))
      BY <1>1 DEF Protocol, Run, Submit, CancelRunning, CancelQueued, Prepared,
                  ExecutedCancelled, ExecutedOutput, ExecutedNoOutput, Stored,
                  CaughtCancelled, CaughtFailed, registry
    <2> QED BY <2>1, <2>2, RegistryServed DEF Serves
  <1>2. CASE Snapshot
    BY <1>2, SnapshotKeepsRegistry
  <1>3. CASE \E left \in Remains : Crash(left)
    BY <1>3, CrashKeepsRegistry DEF Promise!ContractNext
  <1>4. CASE Restart
    BY <1>4, RestartKeepsRegistry DEF Promise!ContractNext
  <1>5. CASE UNCHANGED vars
    BY <1>5, StaysGood
      DEF vars, registry, writer, disk, RegistryInv, OneEntryEach, Distinct, Shown
  <1> QED BY <1>1, <1>2, <1>3, <1>4, <1>5 DEF Next

\* Whatever the registry file holds, a restart brings back only what the worker may
\* say again of the jobs it names.
THEOREM RegistryInvariant == Spec => []RegistryInv
  BY WorkerInvariant, ContractInitial, ContractStep, PTL DEF Spec

\* The worker implements its contract.
THEOREM ImplementsContract == Spec => KeepsContract
  <1>1. Init => Promise!ContractInit
    BY ContractInitial
  <1>2. WorkerInv /\ WorkerInv' /\ RegistryInv /\ [Next]_vars
          => [Promise!ContractNext]_<<up, st, ev>>
    BY ContractStep DEF Shown
  <1> QED BY <1>1, <1>2, WorkerInvariant, RegistryInvariant, PTL
        DEF Spec, KeepsContract, Promise!Contract
=============================================================================
