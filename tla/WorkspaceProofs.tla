--------------------------- MODULE WorkspaceProofs ---------------------------
(***************************************************************************)
(* What holds of the project workspace for every set of paths, contents    *)
(* and requests, and any number of commits, edits, stops and failures.     *)
(***************************************************************************)
EXTENDS Workspace, FiniteSetTheorems, SequenceTheorems, TLAPS

Resting == {"idle", "done", "failed"}
Holding == {"prepare", "publish", "replace", "replay", "clear", "cleared", "commit"}
Waiting == {"git", "again", "adopt", "write", "register", "append"}
Place == Resting \cup Holding \cup Waiting
Back == {"git", "again", "prepare"}

OpRecord ==
    [pc : Place, files : Batch \cup {<<>>}, commit : Nat, back : Back, fresh : SUBSET Path]

TypeOK ==
    /\ modern \in BOOLEAN /\ up \in BOOLEAN
    /\ head \in Seq(Commit) /\ Len(head) > 0
    /\ marker \in Commit \cup {NoOne}
    /\ index \in [Path -> Content] /\ work \in [Path -> Content]
    /\ session \in Op \cup {NoOne} /\ git \in Op \cup {NoOne}
    /\ op \in [Op -> OpRecord]
    /\ \A o \in Op : op[o].pc # "idle" => op[o].files \in Asks[o]

\* Who is at a step of Git has the Git lock; who takes the project's lock has it
\* until it ends; nothing goes on while Core is down.
LocksInv ==
    /\ \A o \in Op : op[o].pc \in Holding => git = o
    /\ \A o \in Op : Exclusive(o) /\ op[o].pc \notin Resting => session = o
    /\ ~up => \A o \in Op : op[o].pc \in Resting

Publisher == Writer \cup Adoption

\* The marker is a publisher's commit and takes no file away.
MarkerInv ==
    /\ head[1].by = NoOne
    /\ marker # NoOne => marker.by \in Publisher
    /\ Published => \A p \in Path : marker.tree[p] = Absent => Parent[p] = Absent

\* A file that is missing from disk was never there, or is still to be checked out.
MissingInv ==
    \A p \in Path : work[p] = Absent =>
        /\ index[p] = Absent
        /\ Tip[p] = Absent \/ (Published /\ Parent[p] = Absent)

\* Nobody's edit is under a batch that the guards have let pass.
Seen(o) ==
    /\ o \in Publisher
    /\ \A p \in DOMAIN op[o].files :
          /\ work[p] \in {Tip[p], op[o].files[p]}
          /\ o \in Adoption => index[p] = Origin[p] /\ work[p] = Origin[p] /\ Tip[p] = Origin[p]

\* The commit is made of such a batch.
Publishing(o) ==
    /\ marker # NoOne /\ marker.by = o
    /\ marker.tree # Tip
    /\ marker.tree = NewTree(op[o].files)
    /\ Seen(o)

\* What holds of the workspace at each step under the Git lock.
StepInv(o) ==
    /\ op[o].pc = "prepare" => marker = NoOne /\ Seen(o)
    /\ op[o].pc = "publish" => Publishing(o)
    /\ op[o].pc \in {"replace", "replay"} =>
         Published /\ \A p \in Changed : work[p] \in {Parent[p], marker.tree[p]}
    /\ op[o].pc \in {"clear", "cleared"} =>
         Published /\ \A p \in Changed : work[p] = marker.tree[p]
    /\ op[o].pc \in {"replay", "cleared"} => (op[o].back = "prepare" => Seen(o))
    /\ op[o].pc \in {"replace", "clear"} =>
         /\ o \in Publisher /\ marker.by = o /\ op[o].commit = Len(head)
         /\ o \in Adoption => \A p \in Changed : index[p] \in {Parent[p], marker.tree[p]}
    /\ op[o].pc = "commit" => o \in Registrar /\ \A p \in Path : index[p] \in {work[p], Tip[p]}

GitInv ==
    TypeOK /\ LocksInv /\ MarkerInv /\ MissingInv /\ \A o \in Op : StepInv(o)

-----------------------------------------------------------------------------
(* What the operators of the model do.                                      *)

LEMMA BatchFacts ==
    ASSUME NEW files \in Batch
    PROVE  /\ DOMAIN files \subseteq Path
           /\ \A p \in DOMAIN files : files[p] \in Content /\ files[p] # Absent
  BY DEF Batch

LEMMA AskedFacts ==
    ASSUME TypeOK, NEW o \in Op, op[o].pc # "idle"
    PROVE  /\ op[o].files \in Batch
           /\ DOMAIN op[o].files \subseteq Path
           /\ \A p \in DOMAIN op[o].files :
                 op[o].files[p] \in Content /\ op[o].files[p] # Absent
  <1>1. op[o].files \in Asks[o] /\ Asks[o] \subseteq Batch
    BY WorkspaceAssumption DEF TypeOK
  <1> QED BY <1>1, BatchFacts

LEMMA HeadFacts ==
    ASSUME TypeOK
    PROVE  /\ Len(head) \in Nat /\ Len(head) \in DOMAIN head
           /\ DOMAIN head = 1..Len(head)
           /\ Last(head) = head[Len(head)]
           /\ Last(head) \in Commit
           /\ Tip = Last(head).tree /\ Tip \in [Path -> Content]
  <1>1. Len(head) \in Nat /\ DOMAIN head = 1..Len(head) /\ Len(head) \in DOMAIN head
    BY DEF TypeOK
  <1>2. Last(head) = head[Len(head)] /\ head[Len(head)] \in Commit
    BY <1>1, ElementOfSeq DEF TypeOK, Last
  <1>3. Tip = Last(head).tree /\ Tip \in [Path -> Content]
    BY <1>2 DEF Tip, Commit
  <1> QED BY <1>1, <1>2, <1>3

LEMMA AppendFacts ==
    ASSUME TypeOK, NEW c \in Commit, head' = Append(head, c)
    PROVE  /\ head' \in Seq(Commit) /\ Len(head') = Len(head) + 1
           /\ Last(head') = c /\ head'[Len(head')] = c
           /\ \A i \in DOMAIN head : i \in DOMAIN head' /\ head'[i] = head[i]
           /\ head'[Len(head)] = Last(head)
           /\ DOMAIN head' = 1..(Len(head) + 1)
  BY HeadFacts DEF TypeOK, Last

\* A request that goes on to a step.
Moved(o, r) ==
    /\ op'[o] = r
    /\ \A q \in Op \ {o} : op'[q] = op[q]
    /\ op' \in [Op -> OpRecord]

LEMMA GotoMoves ==
    ASSUME TypeOK, NEW o \in Op, NEW pc \in Place, NEW n \in Nat,
           Goto(o, pc) \/ GotoAt(o, pc, n)
    PROVE  /\ Moved(o, op'[o])
           /\ op'[o].pc = pc /\ op'[o].files = op[o].files
           /\ op'[o].back = op[o].back /\ op'[o].fresh = op[o].fresh
           /\ Goto(o, pc) => op'[o].commit = op[o].commit
           /\ GotoAt(o, pc, n) => op'[o].commit = n
  BY DEF TypeOK, Goto, GotoAt, Moved, OpRecord

LEMMA LeaveMoves ==
    ASSUME TypeOK, NEW o \in Op, NEW pc \in Resting, Leave(o, pc)
    PROVE  /\ Moved(o, op'[o])
           /\ op'[o].pc = pc /\ op'[o].commit = 0 /\ op'[o].fresh = {}
           /\ pc # "idle" => op'[o].files = op[o].files
           /\ session' = IF session = o THEN NoOne ELSE session
           /\ modern' = modern /\ up' = up
  BY DEF TypeOK, Leave, Ended, Moved, Resting, Place, OpRecord, Back

-----------------------------------------------------------------------------
(* The Git side: the locks, the marker and what is on disk.                 *)

\* Nobody but the holder of the Git lock is at a step of Git.
LEMMA OthersAreNot ==
    ASSUME TypeOK, LocksInv, NEW o \in Op, git \in {o, NoOne}
    PROVE  \A q \in Op \ {o} : op[q].pc \notin Holding
  BY WorkspaceAssumption DEF LocksInv

LEMMA MoverOnly ==
    ASSUME TypeOK, LocksInv, NEW o \in Op, git \in {o, NoOne}, Moved(o, op'[o]), StepInv(o)'
    PROVE  \A q \in Op : StepInv(q)'
  <1> SUFFICES ASSUME NEW q \in Op \ {o}
               PROVE  StepInv(q)'
    OBVIOUS
  <1>1. op'[q].pc \notin Holding
    BY OthersAreNot DEF Moved
  <1> QED BY <1>1 DEF StepInv, Holding

\* A request goes on with the locks it has.
LEMMA LocksStay ==
    ASSUME TypeOK, LocksInv, NEW o \in Op, Moved(o, op'[o]),
           up, up' = up, modern' = modern,
           \A q \in Op \ {o} : op[q].pc \in Holding => git' = q,
           op'[o].pc \in Holding => git' = o,
           Exclusive(o) /\ op'[o].pc \notin Resting => session' = o,
           session' \in {session, o} \/ (session = o /\ session' = NoOne),
           session' = o => session \in {o, NoOne}
    PROVE  LocksInv'
  <1>1. ASSUME NEW q \in Op, op'[q].pc \in Holding
        PROVE  git' = q
    BY <1>1 DEF Moved
  <1>2. ASSUME NEW q \in Op, Exclusive(q)', op'[q].pc \notin Resting
        PROVE  session' = q
    <2>1. CASE q = o
      BY <1>2, <2>1 DEF Exclusive
    <2>2. CASE q # o
      <3>1. session = q
        BY <1>2, <2>2 DEF Moved, LocksInv, Exclusive
      <3> QED BY <3>1, <2>2, WorkspaceAssumption
    <2> QED BY <2>1, <2>2
  <1> QED BY <1>1, <1>2 DEF LocksInv

\* Git and the disk stay as they are: what holds of them, and of whoever is at a
\* step of Git, goes on holding.
LEMMA GitStays ==
    ASSUME GitInv, UNCHANGED gitVars
    PROVE  /\ MarkerInv' /\ MissingInv'
           /\ \A q \in Op : op'[q] = op[q] => StepInv(q)'
           /\ \A q \in Op : op'[q].files = op[q].files => (Seen(q) <=> Seen(q)')
           /\ Tip' = Tip /\ (Published <=> Published') /\ Parent' = Parent
           /\ Changed' = Changed
  <1>1. Tip' = Tip /\ Parent' = Parent /\ (Published' <=> Published)
    BY DEF gitVars, Tip, Parent, Published
  <1>2. Changed' = Changed
    BY <1>1 DEF Changed, gitVars
  <1>3. MarkerInv' /\ MissingInv'
    BY <1>1 DEF GitInv, MarkerInv, MissingInv, gitVars
  <1>4. ASSUME NEW q \in Op, op'[q].files = op[q].files
        PROVE  Seen(q)' <=> Seen(q)
    BY <1>1, <1>4 DEF Seen, gitVars
  <1>5. ASSUME NEW q \in Op, op'[q] = op[q]
        PROVE  StepInv(q)'
    <2>1. NewTree(op[q].files)' = NewTree(op[q].files)
      BY <1>1, <1>5 DEF NewTree
    <2>2. Publishing(q) => Publishing(q)'
      BY <1>1, <1>4, <1>5, <2>1 DEF Publishing, gitVars
    <2>3. StepInv(q)
      BY DEF GitInv
    <2> QED BY <1>1, <1>2, <1>4, <1>5, <2>2, <2>3 DEF StepInv, gitVars
  <1> QED BY <1>1, <1>2, <1>3, <1>4, <1>5

\* A step of a request that touches neither Git nor the disk; it may let the
\* Git lock go.
LEMMA QuietStep ==
    ASSUME GitInv, NEW o \in Op, Moved(o, op'[o]), UNCHANGED gitVars,
           up, up' = up, modern' = modern,
           git' = git \/ (git = o /\ git' = NoOne),
           op'[o].pc \notin Holding,
           op'[o].pc # "idle" => op'[o].files \in Asks[o],
           Exclusive(o) /\ op'[o].pc \notin Resting => session' = o,
           session' \in {session, o} \/ (session = o /\ session' = NoOne),
           session' = o => session \in {o, NoOne}
    PROVE  GitInv'
  <1>1. TypeOK'
    BY DEF GitInv, TypeOK, Moved, gitVars
  <1>2. LocksInv'
    <2>1. \A q \in Op \ {o} : op[q].pc \in Holding => git' = q
      BY DEF GitInv, LocksInv
    <2> QED BY <2>1, LocksStay DEF GitInv
  <1>3. \A q \in Op : StepInv(q)'
    <2>1. StepInv(o)'
      BY DEF StepInv, Holding
    <2> QED BY <2>1, GitStays DEF Moved
  <1> QED BY <1>1, <1>2, <1>3, GitStays DEF GitInv

LEMMA ArrivalKeepsGit ==
    ASSUME GitInv, NEW o \in Op, Begin(o) \/ Retry(o)
    PROVE  GitInv'
  <1>1. PICK files \in Asks[o] : Enter(o, files)
    BY DEF Begin, Retry, GitInv, TypeOK
  <1>2. files \in Batch
    BY WorkspaceAssumption
  <1>3. Moved(o, op'[o]) /\ op'[o].pc = "git" /\ op'[o].files = files
    BY <1>1, <1>2 DEF Enter, GitInv, TypeOK, OpRecord, Moved, Place, Waiting
  <1>4. /\ up /\ up' = up /\ modern' = modern /\ git' = git /\ UNCHANGED gitVars
        /\ Exclusive(o) => session' = o /\ session = NoOne
        /\ ~Exclusive(o) => session' = session
    BY <1>1 DEF Enter
  <1>5. session' = o => session \in {o, NoOne}
    BY <1>4
  <1>6. session' \in {session, o}
    BY <1>4
  <1> QED BY <1>3, <1>4, <1>5, <1>6, QuietStep DEF Holding, Resting

\* A request that ends.
LEMMA LeavingKeepsGit ==
    ASSUME GitInv, NEW o \in Op, up, UNCHANGED gitVars,
           git' = git \/ (git = o /\ git' = NoOne),
           Leave(o, "done") \/ Leave(o, "failed"), op[o].pc # "idle"
    PROVE  GitInv'
  <1>1. PICK pc \in {"done", "failed"} : Leave(o, pc)
    OBVIOUS
  <1>2. /\ Moved(o, op'[o]) /\ op'[o].pc = pc /\ op'[o].files = op[o].files
        /\ session' = IF session = o THEN NoOne ELSE session
        /\ up' = up /\ modern' = modern
    BY <1>1, LeaveMoves DEF GitInv, Resting
  <1>4. op'[o].files \in Asks[o]
    BY <1>2 DEF GitInv, TypeOK
  <1>5. session' \in {session, o} \/ (session = o /\ session' = NoOne)
    BY <1>2
  <1>6. session' # o
    BY <1>2, WorkspaceAssumption
  <1> QED BY <1>1, <1>2, <1>4, <1>5, <1>6, QuietStep DEF Holding, Resting

\* A request that goes on without the Git lock.
LEMMA GoingOnKeepsGit ==
    ASSUME GitInv, NEW o \in Op, up, UNCHANGED <<gitVars, modern, up, session>>,
           git' = git \/ (git = o /\ git' = NoOne),
           op[o].pc \notin Resting,
           NEW pc \in Waiting, NEW n \in Nat,
           Goto(o, pc) \/ GotoAt(o, pc, n)
    PROVE  GitInv'
  <1>1. Moved(o, op'[o]) /\ op'[o].pc = pc /\ op'[o].files = op[o].files
    BY GotoMoves DEF GitInv, Place
  <1>2. op'[o].files \in Asks[o]
    BY <1>1 DEF GitInv, TypeOK, Resting
  <1>3. Exclusive(o) => session' = o
    BY DEF GitInv, LocksInv
  <1> QED BY <1>1, <1>2, <1>3, QuietStep DEF Holding, Resting, Waiting

\* Whoever fails or answers without touching Git.
LEMMA EndsKeepGit ==
    ASSUME GitInv, NEW o \in Op,
           Answer(o) \/ Refuse(o) \/ Reconcile(o) \/ ReconcileFails(o)
             \/ ReplayFails(o) \/ ReplaceFails(o)
    PROVE  GitInv'
  <1>1. up /\ UNCHANGED gitVars /\ op[o].pc # "idle"
    BY DEF Answer, Refuse, Writing, AtGit, Reconcile, ReconcileFails, ReplayFails,
           ReplaceFails
  <1>2. Leave(o, "done") \/ Leave(o, "failed")
    BY DEF Answer, Refuse, Reconcile, ReconcileFails, ReplayFails, ReplaceFails, RecoveryError
  <1>3. git' = git \/ (git = o /\ git' = NoOne)
    <2>1. CASE ReplayFails(o) \/ ReplaceFails(o)
      BY <2>1 DEF ReplayFails, ReplaceFails, GitInv, LocksInv, Holding
    <2>2. CASE Answer(o) \/ Refuse(o) \/ Reconcile(o) \/ ReconcileFails(o)
      BY <2>2 DEF Answer, Refuse, Reconcile, ReconcileFails
    <2> QED BY <2>1, <2>2
  <1> QED BY <1>1, <1>2, <1>3, LeavingKeepsGit

LEMMA EnsuredKeepsGit ==
    ASSUME GitInv, NEW o \in Op, Ensured(o)
    PROVE  GitInv'
  <1>1. /\ up /\ UNCHANGED <<gitVars, modern, up, session>> /\ git' = git
        /\ op[o].pc \notin Resting
        /\ Goto(o, "adopt") \/ Goto(o, "write")
    BY DEF Ensured, Ensuring, AtGit, Resting
  <1> QED BY <1>1, GoingOnKeepsGit DEF Waiting

LEMMA CompareKeepsGit ==
    ASSUME GitInv, NEW o \in Op, Compare(o)
    PROVE  GitInv'
  <1>1. /\ up /\ up' = up /\ modern' = modern /\ git' = git /\ session' = session
        /\ UNCHANGED gitVars /\ op[o].pc = "register"
    BY DEF Compare
  <1>2. Fresh(o) \subseteq Path
    <2>1. DOMAIN op[o].files \subseteq Path
      BY <1>1, AskedFacts DEF GitInv
    <2> QED BY <2>1 DEF Fresh, Scope
  <1>3. Moved(o, op'[o]) /\ op'[o].pc = "append" /\ op'[o].files = op[o].files
    BY <1>2 DEF Compare, GitInv, TypeOK, OpRecord, Moved, Place, Waiting
  <1>4. op'[o].files \in Asks[o]
    BY <1>1, <1>3 DEF GitInv, TypeOK
  <1>5. Exclusive(o) => session' = o
    BY <1>1 DEF GitInv, LocksInv, Resting
  <1> QED BY <1>1, <1>3, <1>4, <1>5, QuietStep DEF Holding, Resting

LEMMA AdoptPrepareKeepsGit ==
    ASSUME GitInv, NEW a \in Adoption, AdoptPrepare(a)
    PROVE  GitInv'
  <1>1. a \in Op
    BY DEF Op
  <1>2. up /\ UNCHANGED gitVars /\ git' = git /\ op[a].pc \notin Resting
    BY DEF AdoptPrepare, Resting
  <1>3. CASE Leave(a, "failed")
    BY <1>1, <1>2, <1>3, LeavingKeepsGit DEF Resting
  <1>4. CASE UNCHANGED <<modern, up, session>> /\ Goto(a, "again")
    BY <1>1, <1>2, <1>4, GoingOnKeepsGit DEF Waiting
  <1>5. CASE /\ UNCHANGED <<modern, up, session>>
             /\ Cardinality(Recovered(a)) = 1
             /\ GotoAt(a, "register", CHOOSE i \in Recovered(a) : TRUE)
    <2>1. Recovered(a) # {}
      BY <1>5, FS_EmptySet
    <2>2. (CHOOSE i \in Recovered(a) : TRUE) \in Nat
      BY <2>1, HeadFacts DEF Recovered, GitInv
    <2> QED BY <1>1, <1>2, <1>5, <2>2, GoingOnKeepsGit DEF Waiting
  <1> QED BY <1>3, <1>4, <1>5 DEF AdoptPrepare

\* The marker goes; the request takes up what is next, or its own commit.
LEMMA MarkerGone ==
    ASSUME GitInv, NEW o \in Op, git \in {o, NoOne}, marker' = NoOne,
           Moved(o, op'[o]), up, op'[o].files = op[o].files, op[o].pc # "idle",
           \/ op'[o].pc \notin Holding /\ git' = NoOne
           \/ op'[o].pc = "prepare" /\ git' = o /\ Seen(o),
           Exclusive(o) /\ op'[o].pc \notin Resting => session' = o,
           session' \in {session, o} \/ (session = o /\ session' = NoOne),
           session' = o => session \in {o, NoOne},
           UNCHANGED <<modern, up, head, index, work>>,
           Published => \A p \in Changed : work[p] = marker.tree[p]
    PROVE  GitInv'
  <1> USE DEF GitInv
  <1>1. TypeOK'
    BY DEF TypeOK, Moved
  <1>2. LocksInv'
    <2>1. \A q \in Op \ {o} : op[q].pc \notin Holding
      BY OthersAreNot
    <2> QED BY <2>1, LocksStay
  <1>3. ~Published' /\ Tip' = Tip
    BY DEF Published, Tip
  <1>4. MarkerInv'
    BY <1>3 DEF MarkerInv
  <1>5. MissingInv'
    <2>1. ASSUME NEW p \in Path, work[p] = Absent, Published, Parent[p] = Absent
          PROVE  Tip[p] = Absent
      <3>1. marker \in Commit /\ marker.tree = Tip /\ marker # NoOne
        BY <2>1, HeadFacts DEF Published
      <3> QED BY <2>1, <3>1 DEF Changed
    <2> QED BY <1>3, <2>1 DEF MissingInv
  <1>6. StepInv(o)'
    <2>1. Seen(o) => Seen(o)'
      BY <1>3 DEF Seen
    <2> QED BY <2>1 DEF StepInv, Holding
  <1> QED BY <1>1, <1>2, <1>4, <1>5, <1>6, MoverOnly

LEMMA RecoverFromKeepsGit ==
    ASSUME GitInv, NEW o \in Op, NEW back \in Back, up, git = NoOne, op[o].pc \notin Resting,
           back = "prepare" => Seen(o), RecoverFrom(o, back)
    PROVE  GitInv'
  <1> USE DEF GitInv
  <1>1. marker # NoOne /\ UNCHANGED <<modern, up, head, index, work>>
    BY DEF RecoverFrom, RecoveryError, Leave
  <1>2. Exclusive(o) => session = o
    BY DEF LocksInv
  <1>3. CASE /\ ~Published /\ marker' = NoOne /\ Goto(o, back)
             /\ git' = IF back = "prepare" THEN o ELSE NoOne
             /\ UNCHANGED session
    <2>1. Moved(o, op'[o]) /\ op'[o].pc = back /\ op'[o].files = op[o].files
      BY <1>3, GotoMoves DEF Place, Back, Waiting, Holding
    <2>2. back \notin Holding \/ back = "prepare"
      BY DEF Back, Holding
    <2> QED BY <1>1, <1>2, <1>3, <2>1, <2>2, MarkerGone DEF Resting
  <1>4. CASE /\ Published /\ Recoverable /\ git' = o
             /\ op' = [op EXCEPT ![o].pc = "replay", ![o].back = back]
             /\ UNCHANGED <<session, marker>>
    <2>1. /\ Moved(o, op'[o]) /\ op'[o].pc = "replay" /\ op'[o].files = op[o].files
          /\ op'[o].back = back
      BY <1>4 DEF TypeOK, OpRecord, Moved, Place, Holding
    <2>2. UNCHANGED gitVars
      BY <1>1, <1>4 DEF gitVars
    <2>3. TypeOK'
      BY <1>1, <1>4, <2>1 DEF TypeOK, Moved, Resting
    <2>4. LocksInv'
      <3>1. \A q \in Op \ {o} : op[q].pc \notin Holding
        BY OthersAreNot
      <3> QED BY <1>1, <1>2, <1>4, <2>1, <3>1, LocksStay
    <2>5. /\ MarkerInv' /\ MissingInv' /\ (Published <=> Published') /\ (Seen(o) => Seen(o)')
          /\ Changed' = Changed /\ Parent' = Parent
      BY <2>1, <2>2, GitStays
    <2>6. StepInv(o)'
      <3>1. \A p \in Changed' : work'[p] \in {Parent'[p], marker'.tree[p]}
        BY <1>1, <1>4, <2>5 DEF Recoverable
      <3> QED BY <1>4, <2>1, <2>5, <3>1 DEF StepInv
    <2> QED BY <2>1, <2>3, <2>4, <2>5, <2>6, MoverOnly
  <1>5. CASE Leave(o, "failed") /\ UNCHANGED <<git, marker>>
    BY <1>1, <1>5, LeavingKeepsGit DEF gitVars, Resting
  <1> QED BY <1>3, <1>4, <1>5 DEF RecoverFrom, RecoveryError

\* What the guards of writeAndCommit let pass.
LEMMA LetPass ==
    ASSUME NEW o \in Publisher, ~Refused(o, op[o].files)
    PROVE  Seen(o)
  BY DEF Refused, Dirty, Seen

LEMMA RecoverKeepsGit ==
    ASSUME GitInv, NEW o \in Op, Recover(o) \/ RecoverWriting(o)
    PROVE  GitInv'
  <1>1. CASE Recover(o)
    <2>1. PICK pc \in {"git", "again"} : Ensuring(o, pc) /\ RecoverFrom(o, pc)
      BY <1>1 DEF Recover
    <2> QED BY <2>1, RecoverFromKeepsGit DEF Ensuring, AtGit, Back, Resting
  <1>2. CASE RecoverWriting(o)
    <2>1. /\ up /\ git = NoOne /\ op[o].pc = "write" /\ o \in Publisher
          /\ ~Refused(o, op[o].files) /\ RecoverFrom(o, "prepare")
      BY <1>2 DEF RecoverWriting, Writing, AtGit, Publisher
    <2> QED BY <2>1, LetPass, RecoverFromKeepsGit DEF Back, Resting
  <1> QED BY <1>1, <1>2

\* Who is to make a commit has the marker's place free and a batch that was seen.
LEMMA Preparing ==
    ASSUME GitInv, NEW o \in Op, Prepare(o)
    PROVE  /\ up /\ op[o].pc \in {"write", "prepare"} /\ marker = NoOne
           /\ git \in {o, NoOne} /\ Seen(o)
           /\ UNCHANGED <<modern, up, head, index, work, session>>
  <1>1. up /\ UNCHANGED <<modern, up, head, index, work, session>>
    BY DEF Prepare, Writing, AtGit
  <1>2. CASE Writing(o) /\ marker = NoOne /\ ~Refused(o, op[o].files)
    BY <1>1, <1>2, LetPass DEF Writing, AtGit, Publisher
  <1>3. CASE op[o].pc = "prepare"
    BY <1>1, <1>3 DEF GitInv, StepInv, LocksInv, Holding
  <1> QED BY <1>1, <1>2, <1>3 DEF Prepare

LEMMA PrepareKeepsGit ==
    ASSUME GitInv, NEW o \in Op, Prepare(o)
    PROVE  GitInv'
  <1> USE DEF GitInv
  <1> DEFINE files == op[o].files
  <1>1. /\ up /\ op[o].pc \in {"write", "prepare"} /\ marker = NoOne
        /\ git \in {o, NoOne} /\ Seen(o)
        /\ UNCHANGED <<modern, up, head, index, work, session>>
    BY Preparing
  <1>2. CASE GotoAt(o, "register", Len(head)) /\ git' = NoOne /\ UNCHANGED marker
    <2>1. git' = git \/ (git = o /\ git' = NoOne)
      BY <1>1, <1>2
    <2> QED BY <1>1, <1>2, <2>1, HeadFacts, GoingOnKeepsGit DEF gitVars, Resting, Waiting
  <1>3. CASE /\ NewTree(files) # Tip
             /\ marker' = [tree |-> NewTree(files), by |-> o]
             /\ git' = o /\ Goto(o, "publish")
    <2>1. Moved(o, op'[o]) /\ op'[o].pc = "publish" /\ op'[o].files = files
      BY <1>3, GotoMoves DEF Place, Holding
    <2>2. /\ \A p \in DOMAIN files : files[p] \in Content /\ files[p] # Absent
          /\ Tip \in [Path -> Content]
      BY <1>1, AskedFacts, HeadFacts
    <2>3. NewTree(files) \in [Path -> Content]
      BY <2>2 DEF NewTree
    <2>4. marker' \in Commit /\ marker' # NoOne
      BY <1>3, <2>3, WorkspaceAssumption DEF Commit
    <2>5. TypeOK'
      BY <1>1, <1>3, <2>1, <2>4 DEF TypeOK, Moved
    <2>6. LocksInv'
      <3>1. \A q \in Op \ {o} : op[q].pc \notin Holding
        BY <1>1, OthersAreNot
      <3>2. Exclusive(o) => session = o
        BY <1>1 DEF LocksInv, Resting
      <3> QED BY <1>1, <1>3, <2>1, <3>1, <3>2, LocksStay
    <2>7. Tip' = Tip /\ ~Published' /\ ~Published
      BY <1>1, <1>3, HeadFacts DEF Tip, Published
    <2>8. MarkerInv'
      BY <1>1, <1>3, <2>7 DEF MarkerInv, Seen
    <2>9. MissingInv'
      BY <1>1, <2>7 DEF MissingInv
    <2>10. StepInv(o)'
      <3>1. NewTree(op[o].files)' = NewTree(files)
        BY <2>1, <2>7 DEF NewTree
      <3>2. Seen(o)'
        BY <1>1, <2>1, <2>7 DEF Seen
      <3>3. Publishing(o)'
        BY <1>3, <2>4, <2>7, <3>1, <3>2 DEF Publishing
      <3> QED BY <2>1, <3>3 DEF StepInv
    <2> QED BY <1>1, <2>1, <2>5, <2>6, <2>8, <2>9, <2>10, MoverOnly
  <1> QED BY <1>2, <1>3 DEF Prepare

LEMMA PublishKeepsGit ==
    ASSUME GitInv, NEW o \in Op, Publish(o)
    PROVE  GitInv'
  <1> USE DEF GitInv
  <1> DEFINE files == op[o].files
  <1>1. /\ up /\ op[o].pc = "publish" /\ head' = Append(head, marker)
        /\ UNCHANGED <<modern, up, marker, index, work, session, git>>
        /\ GotoAt(o, "replace", Len(head) + 1)
    BY DEF Publish
  <1>2. git = o /\ Publishing(o) /\ Seen(o)
    BY <1>1 DEF LocksInv, StepInv, Holding, Publishing
  <1>3. marker \in Commit
    BY <1>2 DEF TypeOK, Publishing
  <1>4. /\ Moved(o, op'[o]) /\ op'[o].pc = "replace" /\ op'[o].files = files
        /\ op'[o].commit = Len(head) + 1
    <2>1. Len(head) + 1 \in Nat /\ "replace" \in Place
      BY HeadFacts DEF Place, Holding
    <2> QED BY <1>1, <2>1, GotoMoves
  <1>5. /\ head' \in Seq(Commit) /\ Len(head') = Len(head) + 1
        /\ Last(head') = marker /\ head'[Len(head)] = Last(head) /\ head'[1] = head[1]
    BY <1>1, <1>3, AppendFacts, HeadFacts
  <1>6. TypeOK'
    <2>1. head' \in Seq(Commit) /\ Len(head') > 0
      BY <1>5, HeadFacts
    <2>2. \A q \in Op : op'[q].pc # "idle" => op'[q].files \in Asks[q]
      BY <1>1, <1>4 DEF TypeOK, Moved
    <2>3. op' \in [Op -> OpRecord]
      BY <1>4 DEF Moved
    <2> QED BY <1>1, <2>1, <2>2, <2>3 DEF TypeOK
  <1>7. LocksInv'
    <2>1. \A q \in Op \ {o} : op[q].pc \notin Holding
      BY <1>2, OthersAreNot
    <2>2. Exclusive(o) => session = o
      BY <1>1 DEF LocksInv, Resting
    <2> QED BY <1>1, <1>2, <1>4, <2>1, <2>2, LocksStay
  <1>8. Published' /\ Parent' = Tip /\ ~Published
    <2>1. Len(head') - 1 = Len(head)
      BY <1>5, HeadFacts
    <2> QED BY <1>1, <1>2, <1>5, <2>1, HeadFacts DEF Published, Parent, Publishing
  <1>9. ASSUME NEW p \in Path
        PROVE  /\ marker.tree[p] = Absent => Tip[p] = Absent
               /\ marker.tree[p] # Tip[p] =>
                    p \in DOMAIN files /\ marker.tree[p] = files[p]
    <2>1. marker.tree[p] = IF p \in DOMAIN files THEN files[p] ELSE Tip[p]
      BY <1>2 DEF Publishing, NewTree
    <2>2. p \in DOMAIN files => files[p] # Absent
      BY <1>1, AskedFacts
    <2> QED BY <2>1, <2>2
  <1>10. MarkerInv'
    BY <1>1, <1>2, <1>5, <1>8, <1>9 DEF MarkerInv, Publishing, Seen
  <1>11. MissingInv'
    BY <1>1, <1>8 DEF MissingInv
  <1>12. StepInv(o)'
    <2>1. ASSUME NEW p \in Changed'
          PROVE  /\ work'[p] \in {Parent'[p], marker'.tree[p]}
                 /\ o \in Adoption => index'[p] \in {Parent'[p], marker'.tree[p]}
      <3>1. p \in Path /\ marker.tree[p] # Tip[p]
        BY <1>1, <1>8, <2>1 DEF Changed
      <3>2. p \in DOMAIN files /\ marker.tree[p] = files[p]
        BY <1>9, <3>1
      <3> QED BY <1>1, <1>2, <1>8, <3>2 DEF Seen
    <2> QED BY <1>1, <1>2, <1>4, <1>5, <1>8, <2>1 DEF StepInv, Publishing, Seen
  <1> QED BY <1>2, <1>4, <1>6, <1>7, <1>10, <1>11, <1>12, MoverOnly

LEMMA PublishFailsKeepsGit ==
    ASSUME GitInv, NEW o \in Op, PublishFails(o)
    PROVE  GitInv'
  <1> USE DEF GitInv
  <1>1. /\ up /\ op[o].pc = "publish" /\ marker' \in {NoOne, marker} /\ git' = NoOne
        /\ Leave(o, "failed")
        /\ UNCHANGED <<head, index, work>>
    BY DEF PublishFails
  <1>2. git = o /\ Publishing(o)
    BY <1>1 DEF LocksInv, StepInv, Holding
  <1>3. CASE marker' = marker
    BY <1>1, <1>2, <1>3, LeavingKeepsGit DEF gitVars
  <1>4. CASE marker' = NoOne
    <2>1. /\ Moved(o, op'[o]) /\ op'[o].pc = "failed" /\ op'[o].files = op[o].files
          /\ session' = IF session = o THEN NoOne ELSE session
          /\ modern' = modern /\ up' = up
      BY <1>1, LeaveMoves DEF Resting
    <2>2. session' # o /\ (session' \in {session, o} \/ (session = o /\ session' = NoOne))
      BY <2>1, WorkspaceAssumption
    <2>3. ~Published
      BY <1>2, HeadFacts DEF Published, Publishing
    <2> QED BY <1>1, <1>2, <1>4, <2>1, <2>2, <2>3, MarkerGone DEF Holding, Resting
  <1> QED BY <1>1, <1>3, <1>4

LEMMA ClearKeepsGit ==
    ASSUME GitInv, NEW o \in Op, Clear(o)
    PROVE  GitInv'
  <1> USE DEF GitInv
  <1> DEFINE next == IF op[o].pc = "clear" THEN "register" ELSE op[o].back
  <1>1. /\ up /\ op[o].pc \in {"clear", "cleared"} /\ marker' = NoOne
        /\ Goto(o, next) /\ git' = IF next = "prepare" THEN o ELSE NoOne
        /\ UNCHANGED <<modern, up, head, index, work, session>>
    BY DEF Clear
  <1>2. /\ git = o /\ Published /\ \A p \in Changed : work[p] = marker.tree[p]
        /\ next = "prepare" => Seen(o)
    BY <1>1 DEF LocksInv, StepInv, Holding
  <1>3. next \in Waiting \cup {"prepare"}
    BY DEF TypeOK, OpRecord, Back, Waiting
  <1>4. Moved(o, op'[o]) /\ op'[o].pc = next /\ op'[o].files = op[o].files
    <2>1. next \in Place
      BY <1>3 DEF Place, Holding
    <2> HIDE DEF next
    <2> QED BY <1>1, <2>1, GotoMoves
  <1>5. Exclusive(o) => session' = o
    BY <1>1 DEF LocksInv, Resting
  <1>6. \/ op'[o].pc \notin Holding /\ git' = NoOne
        \/ op'[o].pc = "prepare" /\ git' = o /\ Seen(o)
    <2> HIDE DEF next
    <2> QED BY <1>1, <1>2, <1>3, <1>4 DEF Waiting, Holding
  <1>7. op[o].pc # "idle" /\ UNCHANGED <<modern, up, head, index, work, session>>
    BY <1>1
  <1> QED BY <1>1, <1>2, <1>4, <1>5, <1>6, <1>7, MarkerGone

LEMMA ReplaceKeepsGit ==
    ASSUME GitInv, NEW o \in Op, Replace(o)
    PROVE  GitInv'
  <1> USE DEF GitInv
  <1>1. /\ up /\ op[o].pc \in {"replace", "replay"}
        /\ UNCHANGED <<modern, up, head, marker, session, git>>
    BY DEF Replace
  <1>2. git = o /\ Published /\ \A p \in Changed : work[p] \in {Parent[p], marker.tree[p]}
    BY <1>1 DEF LocksInv, StepInv, Holding
  <1>3. /\ op[o].pc = "replace" =>
             /\ o \in Publisher /\ marker.by = o /\ op[o].commit = Len(head)
             /\ o \in Adoption => \A p \in Changed : index[p] \in {Parent[p], marker.tree[p]}
        /\ op[o].pc = "replay" => (op[o].back = "prepare" => Seen(o))
    BY DEF StepInv
  <1>4. Exclusive(o) => session = o
    BY <1>1 DEF LocksInv, Resting
  <1>5. Tip' = Tip /\ Parent' = Parent /\ Published' /\ Changed' = Changed
    BY <1>1, <1>2 DEF Tip, Parent, Published, Changed
  <1>6. /\ marker \in Commit /\ marker # NoOne /\ marker.tree = Tip
        /\ \A p \in Changed : p \in Path /\ marker.tree[p] # Absent
                                /\ marker.tree[p] \in Content
    <2>1. marker \in Commit /\ marker # NoOne /\ marker.tree = Tip
      BY <1>2, HeadFacts DEF TypeOK, Published
    <2>2. ASSUME NEW p \in Changed, marker.tree[p] = Absent PROVE FALSE
      BY <1>2, <2>2 DEF MarkerInv, Changed
    <2> QED BY <2>1, <2>2 DEF Changed, Commit
  <1>7. MarkerInv'
    BY <1>1, <1>2, <1>5 DEF MarkerInv
  <1>8. ASSUME NEW p \in Changed,
               work' = [work EXCEPT ![p] = marker.tree[p]], UNCHANGED <<index, op>>
        PROVE  GitInv'
    <2>1. TypeOK'
      BY <1>1, <1>6, <1>8 DEF TypeOK
    <2>2. LocksInv'
      BY <1>1, <1>8 DEF LocksInv, Exclusive
    <2>3. MissingInv'
      <3>1. ASSUME NEW q \in Path, work'[q] = Absent
            PROVE  work[q] = Absent
        BY <1>6, <1>8, <3>1 DEF TypeOK
      <3> QED BY <1>5, <1>8, <1>2, <3>1 DEF MissingInv
    <2>4. \A q \in Changed : work'[q] \in {Parent[q], marker.tree[q]}
      BY <1>2, <1>6, <1>8 DEF TypeOK
    <2>5. Seen(o) => Seen(o)'
      <3> SUFFICES ASSUME Seen(o), NEW q \in DOMAIN op[o].files
                   PROVE  work'[q] = Tip[q] \/ work'[q] = work[q]
        BY <1>5, <1>8 DEF Seen
      <3>1. q \in Path
        BY <1>1, AskedFacts
      <3> QED BY <1>6, <1>8, <3>1 DEF TypeOK
    <2>6. StepInv(o)'
      BY <1>1, <1>3, <1>5, <1>8, <2>4, <2>5 DEF StepInv
    <2>7. Moved(o, op'[o])
      BY <1>8 DEF Moved, TypeOK
    <2> QED BY <1>2, <1>7, <2>1, <2>2, <2>3, <2>6, <2>7, MoverOnly
  <1>9. ASSUME NEW pc \in {"clear", "cleared"}, Goto(o, pc), UNCHANGED work,
               op[o].pc = "replay" <=> pc = "cleared",
               \A p \in Changed : work[p] = marker.tree[p],
               index' = [p \in Path |-> IF p \in Changed THEN marker.tree[p] ELSE index[p]]
        PROVE  GitInv'
    <2>1. /\ Moved(o, op'[o]) /\ op'[o].pc = pc /\ op'[o].files = op[o].files
          /\ op'[o].commit = op[o].commit /\ op'[o].back = op[o].back
      BY <1>9, GotoMoves DEF Place, Holding
    <2>2. TypeOK'
      BY <1>1, <1>6, <1>9, <2>1 DEF TypeOK, Moved
    <2>3. LocksInv'
      <3>1. \A q \in Op \ {o} : op[q].pc \notin Holding
        BY <1>2, OthersAreNot
      <3> QED BY <1>1, <1>2, <1>4, <2>1, <3>1, LocksStay
    <2>4. MissingInv'
      BY <1>2, <1>5, <1>6, <1>9 DEF MissingInv
    <2>5. Seen(o) => Seen(o)'
      <3> SUFFICES ASSUME Seen(o), NEW q \in DOMAIN op[o].files
                   PROVE  index'[q] = Tip[q] \/ index'[q] = index[q]
        BY <1>5, <1>9, <2>1 DEF Seen
      <3>1. q \in Path
        BY <1>1, AskedFacts
      <3> QED BY <1>6, <1>9, <3>1
    <2>6. \A p \in Changed : index'[p] = marker.tree[p]
      BY <1>9 DEF Changed
    <2>7. StepInv(o)'
      BY <1>1, <1>3, <1>5, <1>9, <2>1, <2>5, <2>6 DEF StepInv
    <2> QED BY <1>2, <1>7, <2>1, <2>2, <2>3, <2>4, <2>7, MoverOnly
  <1> QED BY <1>1, <1>8, <1>9 DEF Replace

LEMMA SaveKeepsGit ==
    ASSUME GitInv, NEW o \in Editor, Save(o)
    PROVE  GitInv'
  <1> USE DEF GitInv
  <1> DEFINE files == op[o].files
  <1>1. /\ o \in Op /\ up /\ op[o].pc = "write" /\ git = NoOne
        /\ UNCHANGED <<modern, up, head, marker, index, git>>
        /\ Leave(o, "idle")
        /\ work' = [p \in Path |-> IF p \in DOMAIN files THEN files[p] ELSE work[p]]
    BY DEF Save, AtGit, Op, Leave
  <1>2. \A p \in DOMAIN files : files[p] \in Content /\ files[p] # Absent
    BY <1>1, AskedFacts
  <1>3. /\ Moved(o, op'[o]) /\ op'[o].pc = "idle"
        /\ session' = IF session = o THEN NoOne ELSE session
    BY <1>1, LeaveMoves DEF Resting
  <1>4. TypeOK'
    BY <1>1, <1>2, <1>3 DEF TypeOK, Moved
  <1>5. LocksInv'
    <2>1. \A q \in Op \ {o} : op[q].pc \notin Holding
      BY <1>1, OthersAreNot
    <2>2. session' # o
      BY <1>1, <1>3, WorkspaceAssumption
    <2> QED BY <1>1, <1>3, <2>1, <2>2, LocksStay DEF Holding, Resting
  <1>6. (Published' <=> Published) /\ Tip' = Tip /\ Parent' = Parent
    BY <1>1 DEF Published, Tip, Parent
  <1>7. MarkerInv' /\ MissingInv'
    BY <1>1, <1>2, <1>6 DEF MarkerInv, MissingInv
  <1>8. StepInv(o)'
    BY <1>3 DEF StepInv
  <1> QED BY <1>1, <1>3, <1>4, <1>5, <1>7, <1>8, MoverOnly

LEMMA StageKeepsGit ==
    ASSUME GitInv, NEW o \in Op, Stage(o)
    PROVE  GitInv'
  <1> USE DEF GitInv
  <1> DEFINE pending == {p \in Path : Dirty(p) /\ work[p] # Absent}
  <1>1. /\ o \in Registrar /\ up /\ op[o].pc = "write" /\ git = NoOne
        /\ UNCHANGED <<modern, up, head, marker, work, session>>
    BY DEF Stage, AtGit
  <1>2. CASE GotoAt(o, "register", Len(head)) /\ UNCHANGED <<index, git>>
    BY <1>1, <1>2, HeadFacts, GoingOnKeepsGit DEF gitVars, Resting, Waiting
  <1>3. CASE /\ index' = [p \in Path |-> IF p \in pending THEN work[p] ELSE index[p]]
             /\ git' = o /\ Goto(o, "commit")
    <2>1. Moved(o, op'[o]) /\ op'[o].pc = "commit" /\ op'[o].files = op[o].files
      BY <1>3, GotoMoves DEF Place, Holding
    <2>2. TypeOK'
      BY <1>1, <1>3, <2>1 DEF TypeOK, Moved
    <2>3. LocksInv'
      <3>1. \A q \in Op \ {o} : op[q].pc \notin Holding
        BY <1>1, OthersAreNot
      <3>2. Exclusive(o) => session = o
        BY <1>1 DEF LocksInv, Resting
      <3> QED BY <1>1, <1>3, <2>1, <3>1, <3>2, LocksStay
    <2>4. (Published' <=> Published) /\ Tip' = Tip /\ Parent' = Parent
      BY <1>1 DEF Published, Tip, Parent
    <2>5. \A p \in Path : work[p] = Absent => index[p] = Absent
      BY DEF MissingInv
    <2>6. MarkerInv' /\ MissingInv'
      BY <1>1, <1>3, <2>4, <2>5 DEF MarkerInv, MissingInv
    <2>7. \A p \in Path : index'[p] \in {work[p], Tip[p]}
      BY <1>3, <2>5 DEF Dirty
    <2>8. StepInv(o)'
      BY <1>1, <2>1, <2>4, <2>7 DEF StepInv
    <2> QED BY <1>1, <2>1, <2>2, <2>3, <2>6, <2>8, MoverOnly
  <1> QED BY <1>2, <1>3 DEF Stage

LEMMA CommitIndexKeepsGit ==
    ASSUME GitInv, NEW o \in Op, CommitIndex(o)
    PROVE  GitInv'
  <1> USE DEF GitInv
  <1>1. /\ up /\ op[o].pc = "commit" /\ git' = NoOne
        /\ UNCHANGED <<modern, up, marker, index, work>>
    BY DEF CommitIndex, Leave
  <1>2. git = o /\ o \in Registrar
    BY <1>1 DEF LocksInv, StepInv, Holding
  <1>3. Exclusive(o) => session = o
    BY <1>1 DEF LocksInv, Resting
  <1>5. CASE Leave(o, "failed") /\ UNCHANGED head
    BY <1>1, <1>2, <1>5, LeavingKeepsGit DEF gitVars
  <1>6. CASE /\ head' = Append(head, [tree |-> index, by |-> o])
             /\ GotoAt(o, "register", Len(head) + 1) /\ UNCHANGED session
    <2>1. [tree |-> index, by |-> o] \in Commit
      BY DEF TypeOK, Commit
    <2>2. /\ head' \in Seq(Commit) /\ Len(head') = Len(head) + 1
          /\ Last(head') = [tree |-> index, by |-> o] /\ head'[1] = head[1]
      BY <1>6, <2>1, AppendFacts, HeadFacts
    <2>3. Moved(o, op'[o]) /\ op'[o].pc = "register" /\ op'[o].files = op[o].files
      <3>1. Len(head) + 1 \in Nat /\ "register" \in Place
        BY HeadFacts DEF Place, Waiting
      <3> QED BY <1>6, <3>1, GotoMoves
    <2>4. TypeOK'
      <3>1. head' \in Seq(Commit) /\ Len(head') > 0
        BY <2>2, HeadFacts
      <3>2. \A q \in Op : op'[q].pc # "idle" => op'[q].files \in Asks[q]
        BY <1>1, <2>3 DEF TypeOK, Moved
      <3>3. op' \in [Op -> OpRecord]
        BY <2>3 DEF Moved
      <3> QED BY <1>1, <1>6, <3>1, <3>2, <3>3 DEF TypeOK
    <2>5. LocksInv'
      <3>1. \A q \in Op \ {o} : op[q].pc \notin Holding
        BY <1>2, OthersAreNot
      <3> QED BY <1>1, <1>3, <1>6, <2>3, <3>1, LocksStay DEF Holding
    <2>6. ~Published' /\ Tip' = index
      <3>1. marker # NoOne => marker.by # o
        BY <1>2, WorkspaceAssumption DEF MarkerInv, Publisher
      <3> QED BY <1>1, <2>2, <3>1 DEF Published, Tip
    <2>7. MarkerInv' /\ MissingInv'
      BY <1>1, <2>2, <2>6 DEF MarkerInv, MissingInv
    <2>8. StepInv(o)'
      BY <2>3 DEF StepInv
    <2> QED BY <1>2, <2>3, <2>4, <2>5, <2>7, <2>8, MoverOnly
  <1> QED BY <1>5, <1>6 DEF CommitIndex

\* While Core is down nobody is at a step, and whoever edits leaves a file there.
LEMMA HandEditKeepsGit ==
    ASSUME GitInv, NEW p \in Path, HandEdit(p)
    PROVE  GitInv'
  <1> USE DEF GitInv
  <1>1. ~up /\ UNCHANGED <<modern, up, head, marker, session, git, op>>
    BY DEF HandEdit
  <1>2. \/ /\ UNCHANGED index
           /\ \E c \in Content \ {Absent, work[p]} : work' = [work EXCEPT ![p] = c]
        \/ UNCHANGED work /\ index' = [index EXCEPT ![p] = work[p]]
    BY DEF HandEdit
  <1>3. TypeOK' /\ LocksInv'
    BY <1>1, <1>2 DEF TypeOK, LocksInv, Exclusive
  <1>4. Tip' = Tip /\ Parent' = Parent /\ (Published' <=> Published)
    BY <1>1 DEF Tip, Parent, Published
  <1>5. MarkerInv' /\ MissingInv'
    BY <1>1, <1>2, <1>4 DEF MarkerInv, MissingInv, TypeOK
  <1>6. \A q \in Op : StepInv(q)'
    BY <1>1 DEF LocksInv, StepInv, Resting
  <1> QED BY <1>3, <1>5, <1>6

LEMMA CrashKeepsGit ==
    ASSUME GitInv, Crash
    PROVE  GitInv'
  <1> USE DEF GitInv
  <1>1. /\ ~up' /\ session' = NoOne /\ git' = NoOne /\ modern' = modern /\ UNCHANGED gitVars
        /\ op' = [o \in Op |-> IF op[o].pc \in {"idle", "done"} THEN op[o]
                  ELSE Ended(IF o \in Editor THEN "idle" ELSE "failed", op[o].files)]
    BY DEF Crash
  <1>2. \A o \in Op : /\ op'[o] \in OpRecord
                      /\ op'[o].pc \in Resting /\ op'[o].files = op[o].files
                      /\ op'[o].pc # "idle" => op[o].pc # "idle"
    BY <1>1 DEF TypeOK, OpRecord, Ended, Place, Resting, Back
  <1>3. TypeOK'
    <2>1. op' \in [Op -> OpRecord]
      BY <1>1, <1>2
    <2> QED BY <1>1, <1>2, <2>1 DEF TypeOK, gitVars, Crash
  <1>4. LocksInv'
    BY <1>1, <1>2 DEF LocksInv, Resting, Holding
  <1>5. \A o \in Op : StepInv(o)'
    BY <1>2 DEF StepInv, Resting
  <1> QED BY <1>1, <1>3, <1>4, <1>5, GitStays

LEMMA RestartKeepsGit ==
    ASSUME GitInv, Restart
    PROVE  GitInv'
  <1>1. /\ up' = TRUE /\ UNCHANGED gitVars /\ UNCHANGED <<modern, session, git, op>>
    BY DEF Restart
  <1>2. TypeOK' /\ LocksInv'
    BY <1>1 DEF GitInv, TypeOK, LocksInv, gitVars, Exclusive
  <1> QED BY <1>1, <1>2, GitStays DEF GitInv

LEMMA GitInitial == Init => GitInv
  <1> SUFFICES ASSUME Init PROVE GitInv
    OBVIOUS
  <1>1. /\ head = <<[tree |-> Origin, by |-> NoOne]>> /\ head \in Seq(Commit) /\ Len(head) = 1
        /\ Last(head).tree = Origin
    BY WorkspaceAssumption DEF Init, Commit, Last
  <1>2. TypeOK
    BY <1>1, WorkspaceAssumption DEF Init, Ended, TypeOK, OpRecord, Place, Resting, Back
  <1>3. LocksInv
    BY DEF Init, Ended, LocksInv, Holding, Resting
  <1>4. MarkerInv /\ MissingInv
    BY <1>1 DEF Init, MarkerInv, MissingInv, Tip, Published
  <1>5. \A o \in Op : StepInv(o)
    BY DEF Init, Ended, StepInv
  <1> QED BY <1>2, <1>3, <1>4, <1>5 DEF GitInv

LEMMA GitStep == GitInv /\ [Next]_vars => GitInv'
  <1> SUFFICES ASSUME GitInv, [Next]_vars PROVE GitInv'
    OBVIOUS
  <1>1. CASE \E o \in Op : Begin(o) \/ Retry(o)
    BY <1>1, ArrivalKeepsGit
  <1>2. CASE \E o \in Op : Recover(o) \/ RecoverWriting(o) \/ Prepare(o)
    BY <1>2, RecoverKeepsGit, PrepareKeepsGit
  <1>3. CASE \E o \in Op : Answer(o) \/ Refuse(o) \/ Reconcile(o) \/ ReconcileFails(o)
                             \/ ReplayFails(o) \/ ReplaceFails(o)
    BY <1>3, EndsKeepGit
  <1>4. CASE \E o \in Op : Publish(o) \/ PublishFails(o) \/ Replace(o) \/ Clear(o)
    BY <1>4, PublishKeepsGit, PublishFailsKeepsGit, ReplaceKeepsGit, ClearKeepsGit
  <1>5. CASE \E o \in Op : Stage(o) \/ CommitIndex(o)
    BY <1>5, StageKeepsGit, CommitIndexKeepsGit
  <1>6. CASE (\E o \in Op : Ensured(o) \/ Compare(o)) \/ (\E a \in Adoption : AdoptPrepare(a))
    BY <1>6, EnsuredKeepsGit, CompareKeepsGit, AdoptPrepareKeepsGit
  <1>7. CASE People
    BY <1>7, SaveKeepsGit, HandEditKeepsGit DEF People
  <1>8. CASE Crash \/ Restart
    BY <1>8, CrashKeepsGit, RestartKeepsGit
  <1>9. CASE UNCHANGED vars
    <2>1. UNCHANGED gitVars /\ TypeOK' /\ LocksInv'
      BY <1>9 DEF vars, gitVars, GitInv, TypeOK, LocksInv, Exclusive
    <2> QED BY <1>9, <2>1, GitStays DEF GitInv, vars
  <1> QED BY <1>1, <1>2, <1>3, <1>4, <1>5, <1>6, <1>7, <1>8, <1>9 DEF Next, Machine, Breaks

\* Whoever works on Git has it alone, and what a stop leaves of a publication can be
\* told from somebody's edit.
THEOREM GitInvariant == Spec => []GitInv
  BY GitInitial, GitStep, PTL DEF Spec

-----------------------------------------------------------------------------
(* In a modern project nobody else is there to leave a marker.              *)

AloneInv ==
    modern => \A o \in Op : op[o].pc \in {"write", "commit"} => marker = NoOne

\* A request comes to write, or to commit what it staged, without a marker.
Arrives(q) ==
    \A o \in Op : op'[o].pc \in {"write", "commit"} =>
        op[o].pc \in {"write", "commit"} \/ marker = NoOne

LEMMA MovesPast ==
    ASSUME NEW o \in Op, Moved(o, op'[o]), op'[o].pc \notin {"write", "commit"}
    PROVE  Arrives(o)
  BY DEF Moved, Arrives

LEMMA LeavingArrives ==
    ASSUME GitInv, NEW o \in Op, NEW pc \in Resting, Leave(o, pc)
    PROVE  Arrives(o)
  <1>1. Moved(o, op'[o]) /\ op'[o].pc = pc
    BY LeaveMoves DEF GitInv
  <1> QED BY <1>1, MovesPast DEF Resting

LEMMA GoingArrives ==
    ASSUME GitInv, NEW o \in Op, NEW pc \in Place \ {"write", "commit"}, NEW n \in Nat,
           Goto(o, pc) \/ GotoAt(o, pc, n)
    PROVE  Arrives(o)
  <1>1. Moved(o, op'[o]) /\ op'[o].pc = pc
    BY GotoMoves DEF GitInv
  <1> QED BY <1>1, MovesPast

LEMMA RecoverArrives ==
    ASSUME GitInv, NEW o \in Op, NEW back \in Back, RecoverFrom(o, back)
    PROVE  Arrives(o) /\ marker' \in {marker, NoOne}
  <1>1. ASSUME Goto(o, back) PROVE Arrives(o)
    <2>1. back \in Place \ {"write", "commit"} /\ 0 \in Nat
      BY DEF Back, Place, Waiting, Holding
    <2> QED BY <1>1, <2>1, GoingArrives
  <1>2. ASSUME op' = [op EXCEPT ![o].pc = "replay", ![o].back = back] PROVE Arrives(o)
    <2>1. Moved(o, op'[o]) /\ op'[o].pc = "replay"
      BY <1>2 DEF GitInv, TypeOK, OpRecord, Moved, Place, Holding
    <2> QED BY <2>1, MovesPast
  <1>3. ASSUME Leave(o, "failed") PROVE Arrives(o)
    BY <1>3, LeavingArrives DEF Resting
  <1>4. marker' \in {marker, NoOne}
    BY DEF RecoverFrom
  <1> QED BY <1>1, <1>2, <1>3, <1>4 DEF RecoverFrom, RecoveryError

LEMMA EndsArrive ==
    ASSUME GitInv, NEW o \in Op,
           \/ Answer(o) \/ Refuse(o) \/ Reconcile(o) \/ ReconcileFails(o)
           \/ ReplayFails(o) \/ ReplaceFails(o) \/ PublishFails(o) \/ (o \in Editor /\ Save(o))
    PROVE  Arrives(o) /\ marker' \in {marker, NoOne}
  <1>1. \E pc \in Resting : Leave(o, pc)
    BY DEF Answer, Refuse, Reconcile, ReconcileFails, ReplayFails, ReplaceFails, PublishFails,
           Save, RecoveryError, Resting
  <1>2. marker' \in {marker, NoOne}
    BY DEF Answer, Refuse, Reconcile, ReconcileFails, ReplayFails, ReplaceFails, PublishFails,
           Save, gitVars
  <1> QED BY <1>1, <1>2, LeavingArrives

LEMMA OthersArrive ==
    ASSUME GitInv, NEW o \in Op,
           \/ Begin(o) \/ Retry(o) \/ Ensured(o) \/ Publish(o) \/ Replace(o) \/ Clear(o)
           \/ Stage(o) \/ CommitIndex(o) \/ Compare(o) \/ (o \in Adoption /\ AdoptPrepare(o))
    PROVE  Arrives(o) \/ (Stage(o) /\ op[o].pc = "write")
  <1> USE DEF GitInv
  <1>0. Len(head) \in Nat /\ Len(head) + 1 \in Nat
    BY HeadFacts
  <1>1. CASE Begin(o) \/ Retry(o)
    <2>1. PICK files \in Asks[o] : Enter(o, files)
      BY <1>1 DEF Begin, Retry, TypeOK
    <2>2. files \in Batch
      BY WorkspaceAssumption
    <2>3. Moved(o, op'[o]) /\ op'[o].pc = "git"
      BY <2>1, <2>2 DEF Enter, TypeOK, OpRecord, Moved, Place, Waiting
    <2> QED BY <2>3, MovesPast
  <1>2. CASE Ensured(o)
    <2>1. marker = NoOne
      BY <1>2 DEF Ensured
    <2> QED BY <2>1 DEF Arrives
  <1>3. CASE Clear(o)
    <2>1. PICK next \in Back \cup {"register"} : Goto(o, next)
      BY <1>3 DEF Clear, TypeOK, OpRecord
    <2> QED BY <2>1, GoingArrives DEF Place, Back, Waiting, Holding
  <1>4. CASE Compare(o)
    <2>1. Fresh(o) \subseteq Path
      <3>1. DOMAIN op[o].files \subseteq Path
        BY <1>4, AskedFacts DEF Compare
      <3> QED BY <3>1 DEF Fresh, Scope
    <2>2. Moved(o, op'[o]) /\ op'[o].pc = "append"
      BY <1>4, <2>1 DEF Compare, TypeOK, OpRecord, Moved, Place, Waiting
    <2> QED BY <2>2, MovesPast
  <1>5. CASE AdoptPrepare(o) /\ o \in Adoption
    <2>1. CASE Leave(o, "failed") \/ Goto(o, "again")
      BY <2>1, LeavingArrives, GoingArrives DEF Resting, Place, Waiting
    <2>2. CASE /\ Cardinality(Recovered(o)) = 1
               /\ GotoAt(o, "register", CHOOSE i \in Recovered(o) : TRUE)
      <3>1. Recovered(o) # {}
        BY <2>2, FS_EmptySet
      <3>2. (CHOOSE i \in Recovered(o) : TRUE) \in Nat
        BY <3>1, HeadFacts DEF Recovered
      <3> QED BY <2>2, <3>2, GoingArrives DEF Place, Waiting
    <2> QED BY <1>5, <2>1, <2>2 DEF AdoptPrepare
  <1>6. CASE Publish(o) \/ CommitIndex(o)
    BY <1>0, <1>6, GoingArrives, LeavingArrives
      DEF Publish, CommitIndex, Resting, Place, Holding, Waiting
  <1>7. CASE Replace(o)
    <2>1. CASE UNCHANGED op
      BY <2>1 DEF Arrives
    <2>2. CASE Goto(o, "clear") \/ Goto(o, "cleared")
      BY <2>2, GoingArrives DEF Place, Holding
    <2> QED BY <1>7, <2>1, <2>2 DEF Replace
  <1>8. CASE Stage(o)
    BY <1>8 DEF Stage, AtGit
  <1> QED BY <1>1, <1>2, <1>3, <1>4, <1>5, <1>6, <1>7, <1>8

LEMMA AloneStep == GitInv /\ AloneInv /\ [Next]_vars => AloneInv'
  <1> SUFFICES ASSUME GitInv, AloneInv, [Next]_vars, modern',
                      NEW o \in Op, op'[o].pc \in {"write", "commit"}
               PROVE  marker' = NoOne
    BY DEF AloneInv
  <1>0. modern
    BY DEF Next, Machine, People, Breaks, Begin, Retry, Enter, Answer, Recover, RecoverWriting,
           RecoverFrom, RecoveryError, Ensured, ReplayFails, Prepare, Refuse, Publish,
           PublishFails, Replace, ReplaceFails, Clear, Stage, CommitIndex, Compare, Reconcile,
           ReconcileFails, AdoptPrepare, Crash, Restart, Save, HandEdit, Leave, vars
  <1>1. ASSUME NEW q \in Op, Arrives(q), marker' \in {marker, NoOne}
        PROVE  marker' = NoOne
    BY <1>0, <1>1 DEF AloneInv, Arrives
  <1>2. ASSUME NEW q \in Op, Prepare(q)
        PROVE  FALSE
    <2>1. op[q].pc \in {"write", "prepare"}
      BY <1>2, Preparing
    <2>2. CASE q = o
      <3>1. Goto(o, "publish") \/ GotoAt(o, "register", Len(head))
        BY <1>2, <2>2 DEF Prepare
      <3>2. op'[o].pc \in {"publish", "register"}
        BY <3>1, HeadFacts, GotoMoves DEF GitInv, Place, Holding, Waiting
      <3> QED BY <3>2
    <2>3. CASE q # o
      <3>1. Goto(q, "publish") \/ GotoAt(q, "register", Len(head))
        BY <1>2 DEF Prepare
      <3>2. op'[o] = op[o]
        BY <2>3, <3>1, HeadFacts, GotoMoves DEF GitInv, Place, Holding, Waiting, Moved
      <3>3. session = o /\ session = q
        BY <1>0, <2>1, <3>2 DEF GitInv, LocksInv, Exclusive, Resting
      <3> QED BY <2>3, <3>3
    <2> QED BY <2>2, <2>3
  <1>3. ASSUME NEW q \in Op, Recover(q) \/ RecoverWriting(q)
        PROVE  marker' = NoOne
    <2>1. \E back \in Back : RecoverFrom(q, back)
      BY <1>3 DEF Recover, RecoverWriting, Back
    <2> QED BY <1>1, <2>1, RecoverArrives
  <1>4. ASSUME NEW q \in Op,
               \/ Begin(q) \/ Retry(q) \/ Ensured(q) \/ Publish(q) \/ Replace(q) \/ Clear(q)
               \/ Stage(q) \/ CommitIndex(q) \/ Compare(q) \/ (q \in Adoption /\ AdoptPrepare(q))
        PROVE  marker' = NoOne
    <2>1. marker' \in {marker, NoOne}
      BY <1>4 DEF Begin, Retry, Enter, Ensured, Publish, Replace, Clear, Stage, CommitIndex,
                  Compare, AdoptPrepare, gitVars
    <2>2. CASE Arrives(q)
      BY <1>1, <2>1, <2>2
    <2>3. CASE Stage(q) /\ op[q].pc = "write"
      BY <1>0, <2>1, <2>3 DEF AloneInv
    <2> QED BY <1>4, <2>2, <2>3, OthersArrive
  <1>5. CASE \E q \in Op : \/ Answer(q) \/ Refuse(q) \/ Reconcile(q) \/ ReconcileFails(q)
                           \/ ReplayFails(q) \/ ReplaceFails(q) \/ PublishFails(q)
                           \/ (q \in Editor /\ Save(q))
    BY <1>1, <1>5, EndsArrive
  <1>6. CASE Crash
    BY <1>6 DEF Crash, Ended
  <1>7. CASE Restart \/ (\E p \in Path : HandEdit(p)) \/ UNCHANGED vars
    <2>1. UNCHANGED <<op, marker>>
      BY <1>7 DEF Restart, HandEdit, gitVars, vars
    <2> QED BY <1>0, <2>1 DEF AloneInv
  <1> QED BY <1>2, <1>3, <1>4, <1>5, <1>6, <1>7 DEF Next, Machine, People, Breaks, Op

LEMMA AloneInvariant == Spec => []AloneInv
  <1>1. Init => AloneInv
    BY DEF Init, AloneInv
  <1> QED BY <1>1, AloneStep, GitInvariant, PTL DEF Spec

-----------------------------------------------------------------------------
(* The workspace keeps its promise.                                         *)

LEMMA DeskFacts ==
    GitInv => /\ Desk \in [Path -> Content]
              /\ ~Published \/ (\A p \in Changed : work[p] = marker.tree[p]) => Desk = work
  <1> SUFFICES ASSUME GitInv
               PROVE  /\ Desk \in [Path -> Content]
                      /\ ~Published \/ (\A p \in Changed : work[p] = marker.tree[p])
                           => Desk = work
    OBVIOUS
  <1>1. /\ work \in [Path -> Content]
        /\ Published => marker.tree \in [Path -> Content]
    BY DEF GitInv, TypeOK, Published, Commit
  <1>2. Desk \in [Path -> Content]
    BY <1>1 DEF Desk
  <1>3. ASSUME ~Published \/ \A p \in Changed : work[p] = marker.tree[p]
        PROVE  Desk = work
    <2>1. \A p \in Path : Desk[p] = work[p]
      BY <1>3 DEF Desk
    <2> QED BY <1>1, <1>2, <2>1
  <1> QED BY <1>2, <1>3

LEMMA DeskFactsNext ==
    GitInv' => (Desk \in [Path -> Content])' /\ (~Published => Desk = work)'
  <1>1. GitInv => Desk \in [Path -> Content] /\ (~Published => Desk = work)
    BY DeskFacts
  <1> QED BY <1>1, PTL

\* What a reader sees: nothing happens unless Git or the disk changes.
Unseen == Tip' = Tip /\ Desk' = Desk /\ saves' = saves

Kept == Promise!Next \/ CommitsOver \/ Unseen

LEMMA QuietIsUnseen ==
    ASSUME UNCHANGED <<head, marker, work, saves>>
    PROVE  Unseen
  BY DEF Unseen, Tip, Desk, Published, Changed, Parent

LEMMA MarkerIsUnseen ==
    ASSUME UNCHANGED <<head, work, saves>>, Desk = work, Desk' = work'
    PROVE  Unseen
  BY DEF Unseen, Tip

LEMMA PublishKeepsPromise ==
    ASSUME GitInv, GitInv', NEW o \in Op, Publish(o), saves' = saves
    PROVE  Kept
  <1> DEFINE files == op[o].files
  <1>1. /\ op[o].pc = "publish" /\ head' = Append(head, marker)
        /\ UNCHANGED <<marker, work>>
    BY DEF Publish
  <1>2. Publishing(o) /\ Seen(o) /\ marker.tree = NewTree(files)
    BY <1>1 DEF GitInv, StepInv, Publishing
  <1>3. /\ marker \in Commit /\ Tip \in [Path -> Content] /\ work \in [Path -> Content]
        /\ marker.tree \in [Path -> Content]
    BY <1>2, HeadFacts DEF GitInv, TypeOK, Publishing, Commit
  <1>4. /\ Len(head') = Len(head) + 1 /\ Last(head') = marker
        /\ head'[Len(head)] = Last(head) /\ Tip = Last(head).tree
    BY <1>1, <1>3, AppendFacts, HeadFacts DEF GitInv
  <1>5. Len(head') - 1 = Len(head)
    BY <1>4, HeadFacts DEF GitInv
  <1>6. ~Published /\ Published' /\ Parent' = Tip /\ Tip' = marker.tree
    BY <1>1, <1>2, <1>4, <1>5 DEF Published, Publishing, Parent, Tip
  <1>7. Changed' = {p \in Path : NewTree(files)[p] # Tip[p]}
    BY <1>1, <1>2, <1>6 DEF Changed
  <1>8. Desk = work
    BY <1>6, DeskFacts
  <1>9. /\ DOMAIN files \subseteq Path
        /\ files \in UNION {Asks[q] : q \in Writer \cup Adoption}
    BY <1>1, <1>2, AskedFacts DEF GitInv, TypeOK, Seen, Publisher
  <1>10. \A p \in DOMAIN files : Desk[p] \in {Tip[p], files[p]}
    BY <1>2, <1>8 DEF Seen
  <1>11. Tip' = Promise!With(files, Tip)
    BY <1>2, <1>6 DEF Promise!With, NewTree
  <1>12. Desk' = Promise!With(files, Desk)
    <2>1. Desk' = [p \in Path |-> IF p \in Changed' /\ work[p] = Tip[p]
                                  THEN NewTree(files)[p] ELSE work[p]]
      BY <1>1, <1>2, <1>6 DEF Desk
    <2>2. ASSUME NEW p \in Path
          PROVE  (IF p \in Changed' /\ work[p] = Tip[p] THEN NewTree(files)[p] ELSE work[p])
                   = IF p \in DOMAIN files THEN files[p] ELSE work[p]
      BY <1>7, <1>8, <1>10 DEF NewTree
    <2> QED BY <1>8, <2>1, <2>2 DEF Promise!With
  <1> HIDE DEF files
  <1>13. Promise!Publish(files)
    BY <1>10, <1>11, <1>12 DEF Promise!Publish
  <1> QED BY <1>9, <1>13 DEF Kept, Promise!Next

LEMMA RecoverIsUnseen ==
    ASSUME GitInv, GitInv', NEW o \in Op, Recover(o) \/ RecoverWriting(o), saves' = saves
    PROVE  Unseen
  <1>0. PICK back \in {"git", "again", "prepare"} : RecoverFrom(o, back)
    BY DEF Recover, RecoverWriting
  <1>1. UNCHANGED <<head, work>>
    BY <1>0 DEF RecoverFrom
  <1>2. CASE ~Published /\ marker' = NoOne
    <2>1. ~Published'
      BY <1>2 DEF Published
    <2>2. Desk = work /\ Desk' = work'
      BY <1>2, <2>1, DeskFacts, DeskFactsNext
    <2> QED BY <1>1, <2>2, MarkerIsUnseen
  <1>3. CASE UNCHANGED marker
    BY <1>1, <1>3, QuietIsUnseen
  <1> QED BY <1>0, <1>2, <1>3 DEF RecoverFrom

LEMMA PrepareIsUnseen ==
    ASSUME GitInv, GitInv', NEW o \in Op, Prepare(o), saves' = saves
    PROVE  Unseen
  <1>1. UNCHANGED <<head, work>> /\ marker = NoOne
    BY Preparing
  <1>2. CASE UNCHANGED marker
    BY <1>1, <1>2, QuietIsUnseen
  <1>3. CASE /\ NewTree(op[o].files) # Tip
             /\ marker' = [tree |-> NewTree(op[o].files), by |-> o]
    <2>1. ~Published /\ ~Published'
      BY <1>1, <1>3, HeadFacts DEF Published, GitInv
    <2>2. Desk = work /\ Desk' = work'
      BY <2>1, DeskFacts, DeskFactsNext
    <2> QED BY <1>1, <2>2, MarkerIsUnseen
  <1> QED BY <1>2, <1>3 DEF Prepare

LEMMA MarkerGoneIsUnseen ==
    ASSUME GitInv, GitInv', NEW o \in Op, PublishFails(o) \/ Clear(o), saves' = saves
    PROVE  Unseen
  <1>1. UNCHANGED <<head, work>> /\ marker' \in {NoOne, marker}
    BY DEF PublishFails, Clear
  <1>2. CASE marker' = marker
    BY <1>1, <1>2, QuietIsUnseen
  <1>3. CASE marker' = NoOne
    <2>1. Desk' = work'
      BY <1>3, DeskFactsNext DEF Published
    <2>2. CASE op[o].pc = "publish"
      <3>1. Publishing(o)
        BY <2>2 DEF GitInv, StepInv
      <3>2. ~Published
        BY <3>1, HeadFacts DEF Publishing, Published, GitInv
      <3> QED BY <1>1, <2>1, <3>2, DeskFacts, MarkerIsUnseen
    <2>3. CASE op[o].pc \in {"clear", "cleared"}
      <3>1. \A p \in Changed : work[p] = marker.tree[p]
        BY <2>3 DEF GitInv, StepInv
      <3> QED BY <1>1, <2>1, <3>1, DeskFacts, MarkerIsUnseen
    <2> QED BY <2>2, <2>3 DEF PublishFails, Clear
  <1> QED BY <1>1, <1>2, <1>3

LEMMA ReplaceIsUnseen ==
    ASSUME GitInv, GitInv', NEW o \in Op, Replace(o), saves' = saves
    PROVE  Unseen
  <1>1. UNCHANGED <<head, marker>> /\ op[o].pc \in {"replace", "replay"}
    BY DEF Replace
  <1>2. CASE UNCHANGED work
    BY <1>1, <1>2, QuietIsUnseen
  <1>3. ASSUME NEW p \in Changed, work' = [work EXCEPT ![p] = marker.tree[p]]
        PROVE  Unseen
    <2>1. Published /\ \A q \in Changed : work[q] \in {Parent[q], marker.tree[q]}
      BY <1>1 DEF GitInv, StepInv
    <2>2. Published' /\ Tip' = Tip /\ Parent' = Parent /\ Changed' = Changed
      BY <1>1, <2>1 DEF Published, Tip, Parent, Changed
    <2>3. \A q \in Path : work'[q] = IF q = p THEN marker.tree[p] ELSE work[q]
      BY <1>3 DEF GitInv, TypeOK
    <2>4. \A q \in Path : Desk'[q] = Desk[q]
      BY <1>1, <2>1, <2>2, <2>3 DEF Desk, Changed
    <2>5. Desk' \in [Path -> Content] /\ Desk \in [Path -> Content]
      BY DeskFacts, DeskFactsNext
    <2>6. Desk' = Desk
      BY <2>4, <2>5
    <2> QED BY <2>2, <2>6 DEF Unseen
  <1> QED BY <1>2, <1>3 DEF Replace

\* An edit of one file; one that is put back to the parent's version counts as not
\* yet checked out.
LEMMA EditKeepsPromise ==
    ASSUME GitInv, GitInv', NEW p \in Path, NEW c \in Content,
           work' = [work EXCEPT ![p] = c], saves' = saves + 1, UNCHANGED <<head, marker>>
    PROVE  Kept
  <1>1. /\ Tip' = Tip /\ Parent' = Parent /\ (Published' <=> Published)
        /\ Changed' = Changed
    BY DEF Tip, Parent, Published, Changed
  <1>2. Desk \in [Path -> Content] /\ Desk' \in [Path -> Content]
    BY DeskFacts, DeskFactsNext
  <1>3. \A q \in Path : q # p => Desk'[q] = Desk[q]
    BY <1>1 DEF Desk, GitInv, TypeOK
  <1>4. Desk' = [Desk EXCEPT ![p] = Desk'[p]]
    BY <1>2, <1>3
  <1>5. Promise!Save(p, Desk'[p])
    BY <1>1, <1>4 DEF Promise!Save
  <1> QED BY <1>2, <1>5 DEF Kept, Promise!Next

LEMMA SaveKeepsPromise ==
    ASSUME GitInv, GitInv', NEW o \in Editor, Save(o)
    PROVE  Kept
  <1> DEFINE files == op[o].files
  <1>1. /\ o \in Op /\ op[o].pc = "write" /\ saves' = saves + 1
        /\ UNCHANGED <<head, marker>>
        /\ work' = [p \in Path |-> IF p \in DOMAIN files THEN files[p] ELSE work[p]]
    BY DEF Save, AtGit, Op
  <1>2. files \in Asks[o] /\ DOMAIN files \subseteq Path
           /\ \A p \in DOMAIN files : files[p] \in Content
    BY <1>1, AskedFacts DEF GitInv, TypeOK
  <1>3. PICK p \in Path : DOMAIN files = {p}
    BY <1>2, WorkspaceAssumption
  <1>4. work' = [work EXCEPT ![p] = files[p]] /\ files[p] \in Content
    BY <1>1, <1>2, <1>3 DEF GitInv, TypeOK
  <1> QED BY <1>1, <1>4, EditKeepsPromise

LEMMA HandEditKeepsPromise ==
    ASSUME GitInv, GitInv', NEW p \in Path, HandEdit(p)
    PROVE  Kept
  <1>1. UNCHANGED <<head, marker>>
    BY DEF HandEdit
  <1>2. CASE UNCHANGED <<work, saves>>
    BY <1>1, <1>2, QuietIsUnseen DEF Kept
  <1>3. CASE saves' = saves + 1 /\ \E c \in Content : work' = [work EXCEPT ![p] = c]
    BY <1>1, <1>3, EditKeepsPromise
  <1> QED BY <1>2, <1>3 DEF HandEdit

LEMMA CommitIndexKeepsPromise ==
    ASSUME GitInv, GitInv', AloneInv, NEW o \in Op, CommitIndex(o), saves' = saves
    PROVE  Kept
  <1>1. op[o].pc = "commit" /\ UNCHANGED <<marker, work>>
    BY DEF CommitIndex
  <1>2. o \in Registrar /\ \A p \in Path : index[p] \in {work[p], Tip[p]}
    BY <1>1 DEF GitInv, StepInv
  <1>3. CASE UNCHANGED head
    BY <1>1, <1>3, QuietIsUnseen DEF Kept
  <1>4. CASE Published
    <2>1. ~modern
      BY <1>1, <1>4 DEF AloneInv, Published
    <2> QED BY <1>2, <1>4, <2>1 DEF Kept, CommitsOver
  <1>5. CASE ~Published /\ head' = Append(head, [tree |-> index, by |-> o])
    <2>1. [tree |-> index, by |-> o] \in Commit /\ index \in [Path -> Content]
      BY DEF GitInv, TypeOK, Commit
    <2>2. Tip' = index /\ Last(head') = [tree |-> index, by |-> o]
      BY <1>5, <2>1, AppendFacts DEF Tip, GitInv
    <2>3. ~Published'
      BY <1>1, <1>2, <2>2, WorkspaceAssumption DEF Published, GitInv, MarkerInv, Publisher
    <2>4. Desk = work /\ Desk' = work'
      BY <1>5, <2>3, DeskFacts, DeskFactsNext
    <2> DEFINE paths == {p \in Path : index[p] = work[p]}
    <2>5. Tip' = [p \in Path |-> IF p \in paths THEN Desk[p] ELSE Tip[p]]
      BY <1>2, <2>1, <2>2, <2>4
    <2>6. Promise!Register(paths)
      BY <1>1, <2>4, <2>5 DEF Promise!Register
    <2> QED BY <2>6 DEF Kept, Promise!Next
  <1> QED BY <1>3, <1>4, <1>5 DEF CommitIndex

LEMMA PromiseInitial == Init => Promise!Init
  <1> SUFFICES ASSUME Init PROVE Promise!Init
    OBVIOUS
  <1>1. Tip = Origin /\ work = Origin /\ ~Published
    BY DEF Init, Tip, Last, Published
  <1>2. Desk = work
    BY <1>1, GitInitial, DeskFacts
  <1> QED BY <1>1, <1>2, WorkspaceAssumption DEF Init, Promise!Init

LEMMA PromiseStep ==
    GitInv /\ GitInv' /\ AloneInv /\ [Next]_vars
      => [Promise!Next \/ CommitsOver]_<<Tip, Desk, saves>>
  <1> SUFFICES ASSUME GitInv, GitInv', AloneInv, [Next]_vars
               PROVE  Kept
    BY DEF Kept, Unseen
  <1>1. CASE People
    BY <1>1, SaveKeepsPromise, HandEditKeepsPromise DEF People
  <1>2. CASE UNCHANGED vars
    BY <1>2, QuietIsUnseen DEF vars, Kept
  <1>3. CASE (Machine \/ Breaks) /\ saves' = saves
    <2>1. CASE \E o \in Op : \/ Recover(o) \/ RecoverWriting(o) \/ Prepare(o)
                             \/ PublishFails(o) \/ Replace(o) \/ Clear(o)
      BY <1>3, <2>1, RecoverIsUnseen, PrepareIsUnseen, MarkerGoneIsUnseen, ReplaceIsUnseen
        DEF Kept
    <2>2. CASE \E o \in Op : Publish(o) \/ CommitIndex(o)
      BY <1>3, <2>2, PublishKeepsPromise, CommitIndexKeepsPromise
    <2>3. ASSUME \/ \E o \in Op : \/ Begin(o) \/ Retry(o) \/ Answer(o) \/ Ensured(o)
                                  \/ ReplayFails(o) \/ Refuse(o) \/ ReplaceFails(o) \/ Stage(o)
                                  \/ Compare(o) \/ Reconcile(o) \/ ReconcileFails(o)
                 \/ \E a \in Adoption : AdoptPrepare(a)
                 \/ Crash \/ Restart
          PROVE  Kept
      <3>1. UNCHANGED <<head, marker, work>>
        BY <2>3 DEF Begin, Retry, Enter, Answer, Ensured, ReplayFails, Refuse, ReplaceFails,
                    Stage, Compare, Reconcile, ReconcileFails, AdoptPrepare, Crash, Restart,
                    gitVars
      <3> QED BY <1>3, <3>1, QuietIsUnseen DEF Kept
    <2> QED BY <1>3, <2>1, <2>2, <2>3 DEF Machine, Breaks
  <1> QED BY <1>1, <1>2, <1>3 DEF Next

\* A batch is published whole and a saved edit stays until it is registered or
\* edited again, whatever runs at once and wherever Core stops or Git fails; only
\* a legacy project's registrar may commit over a publication left half done.
THEOREM ImplementsPromise == Spec => KeepsPromise
  <1>1. GitInv /\ GitInv' /\ AloneInv /\ [Next]_vars
          => [Promise!Next \/ CommitsOver]_<<Tip, Desk, saves>>
    BY PromiseStep
  <1> QED BY <1>1, PromiseInitial, GitInvariant, AloneInvariant, PTL
        DEF Spec, KeepsPromise, Promise!vars

-----------------------------------------------------------------------------
(* The revisions that Core registers from the commits.                      *)

\* A request registers a commit of the history; in a modern project the last one.
Registering(o) ==
    op[o].pc \in {"register", "append"} =>
        /\ op[o].commit \in DOMAIN head
        /\ modern /\ o \notin Adoption => op[o].commit = Len(head)

Registered(p, c) == \E i \in DOMAIN rev[p] : rev[p][i].content = c

\* What a request decided with no lock: in a modern project it is still so, and in
\* any what it leaves out is among the revisions.
Compared(o) ==
    op[o].pc = "append" =>
        LET tree == head[op[o].commit].tree
        IN  /\ \A p \in op[o].fresh : p \in Scope(o) /\ tree[p] # Absent
            /\ modern => op[o].fresh = Fresh(o)
            /\ \A p \in Scope(o) \ op[o].fresh :
                  p \in Path /\ tree[p] # Absent => Registered(p, tree[p])

RequestsInv == \A o \in Op : Registering(o) /\ Compared(o)

Entry == [content : Content, commit : Nat, by : Op]

RevisionType ==
    /\ rev \in [Path -> Seq(Entry)]
    /\ \A p \in Path : \A i \in DOMAIN rev[p] : rev[p][i].commit \in DOMAIN head

RevisionInv ==
    RequestsInv /\ RevisionType /\ RevisionsAreCommitted /\ RevisionsFollowHistory

\* Commits are only added, one at a time.
Extended == head' = head \/ \E c \in Commit : head' = Append(head, c)

LEMMA ExtendedFacts ==
    ASSUME TypeOK, Extended
    PROVE  \A i \in DOMAIN head : i \in DOMAIN head' /\ head'[i] = head[i]
  BY AppendFacts DEF Extended

\* The revisions stay true while none is added.
LEMMA RevisionsStay ==
    ASSUME GitInv, RevisionInv, Extended, UNCHANGED <<modern, rev>>, RequestsInv'
    PROVE  RevisionInv'
  <1>1. \A i \in DOMAIN head : i \in DOMAIN head' /\ head'[i] = head[i]
    BY ExtendedFacts DEF GitInv
  <1>2. RevisionType'
    BY <1>1 DEF RevisionInv, RevisionType
  <1>3. RevisionsAreCommitted' /\ RevisionsFollowHistory'
    BY <1>1 DEF RevisionInv, RevisionType, RevisionsAreCommitted, RevisionsFollowHistory
  <1> QED BY <1>2, <1>3 DEF RevisionInv

\* What a request has decided stays decided while no revision is added.
LEMMA ComparedStays ==
    ASSUME GitInv, RevisionInv, Extended, UNCHANGED <<modern, rev>>,
           NEW o \in Op, op'[o] = op[o]
    PROVE  Compared(o)'
  <1> SUFFICES ASSUME op[o].pc = "append"
               PROVE  Compared(o)'
    BY DEF Compared
  <1>1. op[o].commit \in DOMAIN head /\ Compared(o)
    BY DEF RevisionInv, RequestsInv, Registering
  <1>2. head'[op[o].commit] = head[op[o].commit]
    BY <1>1, ExtendedFacts DEF GitInv
  <1>3. Scope(o)' = Scope(o)
    BY DEF Scope
  <1>4. Fresh(o)' = Fresh(o)
    BY <1>2, <1>3 DEF Fresh
  <1> QED BY <1>1, <1>2, <1>3, <1>4 DEF Compared, Registered

\* One request moves; if it comes to register it has a commit to register.
LEMMA ComesToRegister ==
    ASSUME GitInv, RevisionInv, NEW o \in Op, Moved(o, op'[o]), UNCHANGED <<modern, head, rev>>,
           op'[o].pc # "append",
           op'[o].pc = "register" =>
             /\ op'[o].commit \in DOMAIN head
             /\ modern /\ o \notin Adoption => op'[o].commit = Len(head)
    PROVE  RevisionInv'
  <1>1. ASSUME NEW q \in Op
        PROVE  Registering(q)' /\ Compared(q)'
    <2>1. CASE q = o
      BY <2>1 DEF Registering, Compared
    <2>2. CASE q # o
      <3>1. op'[q] = op[q]
        BY <2>2 DEF Moved
      <3>2. Registering(q)'
        BY <3>1 DEF RevisionInv, RequestsInv, Registering
      <3> QED BY <3>1, <3>2, ComparedStays DEF Extended
    <2> QED BY <2>1, <2>2
  <1>2. RequestsInv'
    BY <1>1 DEF RequestsInv
  <1> QED BY <1>2, RevisionsStay DEF Extended

\* One request commits: in a modern project nobody else is about to register.
LEMMA CommitsAlone ==
    ASSUME GitInv, RevisionInv, NEW o \in Op, Moved(o, op'[o]), UNCHANGED <<modern, rev>>,
           op[o].pc \notin Resting, NEW c \in Commit, head' = Append(head, c),
           op'[o].pc # "append",
           op'[o].pc = "register" => op'[o].commit = Len(head')
    PROVE  RevisionInv'
  <1>1. /\ Len(head') \in DOMAIN head' /\ Len(head') = Len(head) + 1
        /\ \A i \in DOMAIN head : i \in DOMAIN head' /\ head'[i] = head[i]
    BY AppendFacts, HeadFacts DEF GitInv
  <1>2. ASSUME NEW q \in Op, q # o, op'[q].pc \in {"register", "append"}
        PROVE  op'[q].commit \in DOMAIN head' /\ ~modern
    <2>1. op[q].pc \in {"register", "append"} /\ op'[q].commit = op[q].commit
      BY <1>2 DEF Moved
    <2>2. modern => session = q /\ session = o
      BY <2>1 DEF GitInv, LocksInv, Exclusive, Resting
    <2> QED BY <1>1, <1>2, <2>1, <2>2 DEF RevisionInv, RequestsInv, Registering
  <1>3. ASSUME NEW q \in Op
        PROVE  Compared(q)'
    <2>1. CASE q = o
      BY <2>1 DEF Compared
    <2>2. CASE q # o
      BY <2>2, ComparedStays DEF Moved, Extended
    <2> QED BY <2>1, <2>2
  <1>4. RequestsInv'
    BY <1>1, <1>2, <1>3 DEF RequestsInv, Registering
  <1> QED BY <1>4, RevisionsStay DEF Extended

LEMMA LeavingKeepsRevisions ==
    ASSUME GitInv, RevisionInv, NEW o \in Op, NEW pc \in Resting, Leave(o, pc),
           UNCHANGED <<head, rev>>
    PROVE  RevisionInv'
  <1>1. Moved(o, op'[o]) /\ op'[o].pc \notin {"register", "append"} /\ modern' = modern
    BY LeaveMoves DEF GitInv, Resting
  <1> QED BY <1>1, ComesToRegister

LEMMA GoingKeepsRevisions ==
    ASSUME GitInv, RevisionInv, NEW o \in Op, NEW pc \in Place \ {"register", "append"},
           Goto(o, pc), UNCHANGED <<modern, head, rev>>
    PROVE  RevisionInv'
  <1>1. Moved(o, op'[o]) /\ op'[o].pc \notin {"register", "append"}
    <2>1. 0 \in Nat
      OBVIOUS
    <2> QED BY <2>1, GotoMoves DEF GitInv
  <1> QED BY <1>1, ComesToRegister

LEMMA RecoverKeepsRevisions ==
    ASSUME GitInv, RevisionInv, NEW o \in Op, Recover(o) \/ RecoverWriting(o)
    PROVE  RevisionInv'
  <1>1. PICK back \in Back : RecoverFrom(o, back)
    BY DEF Recover, RecoverWriting, Back
  <1>2. UNCHANGED <<head, rev>>
    BY <1>1 DEF RecoverFrom
  <1>3. ASSUME Goto(o, back), modern' = modern
        PROVE  RevisionInv'
    <2>1. back \in Place \ {"register", "append"}
      BY DEF Back, Place, Waiting, Holding
    <2> QED BY <1>2, <1>3, <2>1, GoingKeepsRevisions
  <1>4. ASSUME op' = [op EXCEPT ![o].pc = "replay", ![o].back = back], modern' = modern
        PROVE  RevisionInv'
    <2>1. Moved(o, op'[o]) /\ op'[o].pc = "replay"
      BY <1>4 DEF GitInv, TypeOK, OpRecord, Moved, Place, Holding
    <2> QED BY <1>2, <1>4, <2>1, ComesToRegister
  <1>5. ASSUME Leave(o, "failed")
        PROVE  RevisionInv'
    BY <1>2, <1>5, LeavingKeepsRevisions DEF Resting
  <1> QED BY <1>1, <1>3, <1>4, <1>5 DEF RecoverFrom, RecoveryError

LEMMA PassingKeepsRevisions ==
    ASSUME GitInv, RevisionInv, NEW o \in Op,
           \/ Begin(o) \/ Retry(o) \/ Answer(o) \/ Ensured(o) \/ ReplayFails(o) \/ Refuse(o)
           \/ PublishFails(o) \/ ReplaceFails(o) \/ Replace(o) \/ ReconcileFails(o)
           \/ (o \in Editor /\ Save(o))
    PROVE  RevisionInv'
  <1> USE DEF GitInv
  <1>1. UNCHANGED <<modern, head, rev>>
    BY DEF Begin, Retry, Enter, Answer, Ensured, ReplayFails, RecoveryError, Refuse, PublishFails,
           ReplaceFails, Replace, ReconcileFails, Save, Leave, gitVars, dbVars
  <1>2. CASE Begin(o) \/ Retry(o)
    <2>1. PICK files \in Asks[o] : Enter(o, files)
      BY <1>2 DEF Begin, Retry, TypeOK
    <2>2. files \in Batch
      BY WorkspaceAssumption
    <2>3. Moved(o, op'[o]) /\ op'[o].pc = "git"
      BY <2>1, <2>2 DEF Enter, TypeOK, OpRecord, Moved, Place, Waiting
    <2> QED BY <1>1, <2>3, ComesToRegister
  <1>3. CASE \E pc \in Resting : Leave(o, pc)
    BY <1>1, <1>3, LeavingKeepsRevisions
  <1>4. CASE \E pc \in {"clear", "cleared", "adopt", "write"} : Goto(o, pc)
    BY <1>1, <1>4, GoingKeepsRevisions DEF Place, Holding, Waiting
  <1>5. CASE UNCHANGED op
    <2>1. Moved(o, op'[o])
      BY <1>5 DEF TypeOK, Moved
    <2>2. RequestsInv'
      BY <1>1, <1>5, ComparedStays DEF RevisionInv, RequestsInv, Registering, Extended
    <2> QED BY <1>1, <2>2, RevisionsStay DEF Extended
  <1> QED BY <1>2, <1>3, <1>4, <1>5
        DEF Answer, Ensured, ReplayFails, RecoveryError, Refuse, PublishFails, ReplaceFails,
            Replace, ReconcileFails, Save, Resting

LEMMA CommitKeepsRevisions ==
    ASSUME GitInv, RevisionInv, NEW o \in Op,
           Prepare(o) \/ Publish(o) \/ Clear(o) \/ Stage(o) \/ CommitIndex(o)
    PROVE  RevisionInv'
  <1> USE DEF GitInv
  <1>1. UNCHANGED <<modern, rev>> /\ Len(head) \in DOMAIN head /\ Len(head) \in Nat
    BY HeadFacts DEF Prepare, Publish, Clear, Stage, CommitIndex, Leave, dbVars
  <1>2. CASE GotoAt(o, "register", Len(head)) /\ UNCHANGED head
    <2>1. Moved(o, op'[o]) /\ op'[o].commit = Len(head) /\ op'[o].pc = "register"
      BY <1>1, <1>2, GotoMoves DEF Place, Waiting
    <2> QED BY <1>1, <1>2, <2>1, ComesToRegister
  <1>3. CASE (\E pc \in Back \cup {"publish", "commit"} : Goto(o, pc)) /\ UNCHANGED head
    BY <1>1, <1>3, GoingKeepsRevisions DEF Place, Holding, Waiting, Back
  <1>4. CASE op[o].pc = "clear" /\ Goto(o, "register") /\ UNCHANGED head
    <2>1. op[o].commit = Len(head)
      BY <1>4 DEF StepInv
    <2>2. Moved(o, op'[o]) /\ op'[o].commit = Len(head) /\ op'[o].pc = "register"
      BY <1>1, <1>4, <2>1, GotoMoves DEF Place, Waiting
    <2> QED BY <1>1, <1>4, <2>2, ComesToRegister
  <1>5. CASE Publish(o)
    <2>1. marker \in Commit
      BY <1>5 DEF Publish, StepInv, Publishing, TypeOK
    <2>2. Len(head) + 1 \in Nat /\ "replace" \in Place
      BY <1>1 DEF Place, Holding
    <2>3. Moved(o, op'[o]) /\ op'[o].pc = "replace"
      BY <1>5, <2>2, GotoMoves DEF Publish
    <2>4. op[o].pc \notin Resting /\ head' = Append(head, marker)
      BY <1>5 DEF Publish, Resting
    <2> QED BY <1>1, <2>1, <2>3, <2>4, CommitsAlone
  <1>6. CASE CommitIndex(o) /\ ~UNCHANGED head
    <2> DEFINE c == [tree |-> index, by |-> o]
    <2>1. c \in Commit
      BY DEF TypeOK, Commit
    <2>2. Len(head) + 1 \in Nat /\ "register" \in Place
      BY <1>1 DEF Place, Waiting
    <2>3. /\ op[o].pc = "commit" /\ head' = Append(head, c)
          /\ GotoAt(o, "register", Len(head) + 1)
      BY <1>6 DEF CommitIndex
    <2>4. Moved(o, op'[o]) /\ op'[o].commit = Len(head) + 1 /\ op'[o].pc = "register"
      BY <2>2, <2>3, GotoMoves
    <2>5. Len(head') = Len(head) + 1
      BY <2>1, <2>3, AppendFacts
    <2> HIDE DEF c
    <2> QED BY <1>1, <2>1, <2>3, <2>4, <2>5, CommitsAlone DEF Resting
  <1>7. CASE Leave(o, "failed") /\ UNCHANGED head
    BY <1>1, <1>7, LeavingKeepsRevisions DEF Resting
  <1>8. ASSUME Clear(o)
        PROVE  RevisionInv'
    <2>1. UNCHANGED head /\ op[o].pc \in {"clear", "cleared"} /\ op[o].back \in Back
      BY <1>8 DEF Clear, TypeOK, OpRecord
    <2> QED BY <1>3, <1>4, <1>8, <2>1 DEF Clear
  <1> QED BY <1>2, <1>3, <1>5, <1>6, <1>7, <1>8 DEF Prepare, Stage, CommitIndex

LEMMA RecoveredFacts ==
    ASSUME TypeOK, NEW a \in Adoption, Cardinality(Recovered(a)) = 1
    PROVE  /\ (CHOOSE i \in Recovered(a) : TRUE) \in Recovered(a)
           /\ Recovered(a) \subseteq DOMAIN head
           /\ (CHOOSE i \in Recovered(a) : TRUE) \in Nat
  <1>1. Recovered(a) # {}
    BY FS_EmptySet
  <1>2. Recovered(a) \subseteq DOMAIN head /\ DOMAIN head \subseteq Nat
    BY HeadFacts DEF Recovered
  <1> QED BY <1>1, <1>2

LEMMA AdoptKeepsRevisions ==
    ASSUME GitInv, RevisionInv, NEW a \in Adoption, AdoptPrepare(a)
    PROVE  RevisionInv'
  <1> USE DEF GitInv
  <1>1. a \in Op /\ UNCHANGED <<modern, head, rev>>
    BY DEF AdoptPrepare, Leave, Op, gitVars
  <1>2. CASE Leave(a, "failed")
    BY <1>1, <1>2, LeavingKeepsRevisions DEF Resting
  <1>3. CASE Goto(a, "again")
    BY <1>1, <1>3, GoingKeepsRevisions DEF Place, Waiting
  <1>4. CASE /\ Cardinality(Recovered(a)) = 1
             /\ GotoAt(a, "register", CHOOSE i \in Recovered(a) : TRUE)
    <2> DEFINE i == CHOOSE i \in Recovered(a) : TRUE
    <2>1. i \in DOMAIN head /\ i \in Nat
      BY <1>4, RecoveredFacts
    <2> HIDE DEF i
    <2>2. Moved(a, op'[a]) /\ op'[a].commit = i /\ op'[a].pc = "register"
      BY <1>1, <1>4, <2>1, GotoMoves DEF Place, Waiting, i
    <2> QED BY <1>1, <2>1, <2>2, ComesToRegister
  <1> QED BY <1>2, <1>3, <1>4 DEF AdoptPrepare

\* A path that is not fresh has the bytes of the commit as its latest revision.
LEMMA CompareKeepsRevisions ==
    ASSUME GitInv, RevisionInv, NEW o \in Op, Compare(o)
    PROVE  RevisionInv'
  <1>1. /\ op[o].pc = "register" /\ UNCHANGED <<modern, head, rev>>
        /\ op' = [op EXCEPT ![o].pc = "append", ![o].fresh = Fresh(o)]
    BY DEF Compare, gitVars, dbVars
  <1>2. Registering(o)
    BY DEF RevisionInv, RequestsInv
  <1>3. /\ op'[o].pc = "append" /\ op'[o].fresh = Fresh(o)
        /\ op'[o].files = op[o].files /\ op'[o].commit = op[o].commit
        /\ \A q \in Op \ {o} : op'[q] = op[q]
    BY <1>1 DEF GitInv, TypeOK, OpRecord
  <1>4. Scope(o)' = Scope(o)
    BY <1>3 DEF Scope
  <1>5. Fresh(o)' = Fresh(o)
    BY <1>1, <1>3, <1>4 DEF Fresh
  <1>6. ASSUME NEW p \in Scope(o) \ Fresh(o), p \in Path, head[op[o].commit].tree[p] # Absent
        PROVE  Registered(p, head[op[o].commit].tree[p])
    <2>1. rev[p] # <<>> /\ Last(rev[p]).content = head[op[o].commit].tree[p]
      BY <1>6 DEF Fresh
    <2>2. rev[p] \in Seq(Entry)
      BY <1>6 DEF RevisionInv, RevisionType
    <2>3. Len(rev[p]) \in DOMAIN rev[p] /\ Last(rev[p]) = rev[p][Len(rev[p])]
      BY <2>1, <2>2 DEF Last
    <2> QED BY <2>1, <2>3 DEF Registered
  <1>7. Compared(o)'
    <2>1. \A p \in Fresh(o) : p \in Scope(o) /\ head[op[o].commit].tree[p] # Absent
      BY DEF Fresh
    <2> QED BY <1>1, <1>3, <1>4, <1>5, <1>6, <2>1 DEF Compared, Registered
  <1>8. Registering(o)'
    BY <1>1, <1>2, <1>3 DEF Registering
  <1>9. ASSUME NEW q \in Op, q # o
        PROVE  Registering(q)' /\ Compared(q)'
    BY <1>1, <1>3, <1>9, ComparedStays DEF RevisionInv, RequestsInv, Registering, Extended
  <1>10. RequestsInv'
    BY <1>7, <1>8, <1>9 DEF RequestsInv
  <1> QED BY <1>1, <1>10, RevisionsStay DEF Extended

\* What a registration adds to the revisions of a path.
LEMMA NewRevisionFacts ==
    ASSUME GitInv, RevisionInv, NEW o \in Op, op[o].pc = "append", rev' = NewRevisions(o),
           NEW p \in Path
    PROVE  LET n == op[o].commit
               c == head[n].tree[p]
               r == [content |-> c, commit |-> n, by |-> o]
           IN  /\ n \in DOMAIN head /\ r \in Entry
               /\ \/ rev'[p] = rev[p] /\ (p \in Scope(o) /\ c # Absent => Registered(p, c))
                  \/ /\ rev'[p] = Append(rev[p], r)
                     /\ modern => rev[p] = <<>> \/ Last(rev[p]).content # c
  <1>1. op[o].commit \in DOMAIN head /\ op[o].commit \in Nat /\ Compared(o)
    BY DEF RevisionInv, RequestsInv, Registering, GitInv, TypeOK, OpRecord
  <1>2. head[op[o].commit] \in Commit
    BY <1>1, HeadFacts, ElementOfSeq DEF GitInv, TypeOK
  <1>3. CASE p \in op[o].fresh
    <2>1. modern => rev[p] = <<>> \/ Last(rev[p]).content # head[op[o].commit].tree[p]
      BY <1>1, <1>3 DEF Compared, Fresh
    <2> QED BY <1>1, <1>2, <1>3, <2>1 DEF NewRevisions, Commit, Entry
  <1>4. CASE p \notin op[o].fresh
    BY <1>1, <1>2, <1>4 DEF NewRevisions, Commit, Compared, Entry
  <1> QED BY <1>3, <1>4

\* No revision goes.
LEMMA RevisionsGrow ==
    ASSUME GitInv, RevisionInv, NEW o \in Op, op[o].pc = "append", rev' = NewRevisions(o),
           NEW p \in Path, NEW i \in DOMAIN rev[p]
    PROVE  i \in DOMAIN rev'[p] /\ rev'[p][i] = rev[p][i]
  <1>1. rev[p] \in Seq(Entry)
    BY DEF RevisionInv, RevisionType
  <1>2. CASE rev'[p] = rev[p]
    BY <1>2
  <1>3. ASSUME NEW r \in Entry, rev'[p] = Append(rev[p], r)
        PROVE  i \in DOMAIN rev'[p] /\ rev'[p][i] = rev[p][i]
    <2> HIDE DEF Entry
    <2> QED BY <1>1, <1>3
  <1> QED BY <1>2, <1>3, NewRevisionFacts

LEMMA ReconcileKeepsRevisions ==
    ASSUME GitInv, RevisionInv, NEW o \in Op, Reconcile(o)
    PROVE  RevisionInv'
  <1>1. /\ op[o].pc = "append" /\ rev' = NewRevisions(o) /\ Leave(o, "done")
        /\ UNCHANGED <<modern, head>>
    BY DEF Reconcile, Leave, gitVars
  <1>2. RequestsInv'
    <2>1. Moved(o, op'[o]) /\ op'[o].pc = "done"
      BY <1>1, LeaveMoves DEF GitInv, Resting
    <2>2. Registering(o)' /\ Compared(o)'
      BY <2>1 DEF Registering, Compared
    <2>3. ASSUME NEW q \in Op, q # o
          PROVE  Registering(q)' /\ Compared(q)'
      <3>1. op'[q] = op[q] /\ Registering(q) /\ Compared(q)
        BY <2>1, <2>3 DEF Moved, RevisionInv, RequestsInv
      <3>2. op[q].pc = "append" => ~modern
        BY <1>1, <2>3 DEF GitInv, LocksInv, Exclusive, Resting
      <3>3. \A p \in Path, c \in Content : Registered(p, c) => Registered(p, c)'
        BY <1>1, RevisionsGrow DEF Registered
      <3>4. Scope(q)' = Scope(q)
        BY <3>1 DEF Scope
      <3>5. ASSUME op[q].pc = "append", NEW p \in Path
            PROVE  head[op[q].commit].tree[p] \in Content
        <4>1. op[q].commit \in DOMAIN head
          BY <3>1, <3>5 DEF Registering
        <4>2. head[op[q].commit] \in Commit
          BY <4>1, HeadFacts, ElementOfSeq DEF GitInv, TypeOK
        <4> QED BY <4>2 DEF Commit
      <3>6. Compared(q)'
        BY <1>1, <3>1, <3>2, <3>3, <3>4, <3>5 DEF Compared
      <3> QED BY <1>1, <3>1, <3>6 DEF Registering
    <2> QED BY <2>2, <2>3 DEF RequestsInv
  <1> DEFINE n == op[o].commit
  <1>3. modern /\ o \notin Adoption => n = Len(head)
    BY <1>1 DEF RevisionInv, RequestsInv, Registering
  <1>4. ASSUME NEW p \in Path
        PROVE  /\ rev'[p] \in Seq(Entry)
               /\ \A i \in DOMAIN rev'[p] :
                     /\ rev'[p][i].commit \in DOMAIN head
                     /\ rev'[p][i].content = head[rev'[p][i].commit].tree[p]
                     /\ modern /\ i > 1 => rev'[p][i].content # rev'[p][i - 1].content
                     /\ modern /\ i > 1 /\ rev'[p][i].by \notin Adoption =>
                          rev'[p][i - 1].commit < rev'[p][i].commit
    <2> DEFINE s == rev[p]
               r == [content |-> head[n].tree[p], commit |-> n, by |-> o]
    <2>1. /\ s \in Seq(Entry) /\ Len(s) \in Nat /\ DOMAIN s = 1..Len(s)
          /\ \A i \in DOMAIN s :
                /\ s[i].commit \in DOMAIN head
                /\ s[i].content = head[s[i].commit].tree[p]
                /\ modern /\ i > 1 => s[i].content # s[i - 1].content
                /\ modern /\ i > 1 /\ s[i].by \notin Adoption => s[i - 1].commit < s[i].commit
      <3>1. s \in Seq(Entry)
        BY DEF RevisionInv, RevisionType
      <3>2. Len(s) \in Nat /\ DOMAIN s = 1..Len(s)
        BY <3>1
      <3>3. \A i \in DOMAIN s :
              /\ s[i].commit \in DOMAIN head
              /\ s[i].content = head[s[i].commit].tree[p]
              /\ modern /\ i > 1 => s[i].content # s[i - 1].content
        BY DEF RevisionInv, RevisionType, RevisionsAreCommitted
      <3>4. modern => \A i \in 2..Len(s) : s[i].by \notin Adoption => s[i - 1].commit < s[i].commit
        BY DEF RevisionInv, RevisionsFollowHistory
      <3>5. ASSUME NEW i \in 1..Len(s), i > 1
            PROVE  i \in 2..Len(s)
        BY <3>2, <3>5
      <3> HIDE DEF s, Entry
      <3> QED BY <3>1, <3>2, <3>3, <3>4, <3>5
    <2>2. CASE rev'[p] = s
      BY <2>1, <2>2
    <2>3. CASE /\ rev'[p] = Append(s, r) /\ r \in Entry /\ n \in DOMAIN head
               /\ modern => s = <<>> \/ Last(s).content # head[n].tree[p]
      <3> HIDE DEF Entry
      <3>1. /\ Append(s, r) \in Seq(Entry) /\ DOMAIN Append(s, r) = 1..(Len(s) + 1)
            /\ \A i \in 1..Len(s) : Append(s, r)[i] = s[i]
            /\ Append(s, r)[Len(s) + 1] = r
        BY <2>1, <2>3
      <3>2. modern /\ Len(s) > 0 => s[Len(s)].content # head[n].tree[p]
        BY <2>1, <2>3 DEF Last
      <3>3. ASSUME modern, Len(s) > 0
            PROVE  /\ s[Len(s)].commit \in 1..Len(head)
                   /\ s[Len(s)].commit # n
        BY <2>1, <3>2, <3>3, HeadFacts DEF GitInv
      <3>4. modern /\ o \notin Adoption /\ Len(s) > 0 => s[Len(s)].commit < n
        BY <1>3, <3>3, HeadFacts DEF GitInv
      <3>5. ASSUME NEW i \in 1..Len(s)
            PROVE  /\ i > 1 => Append(s, r)[i - 1] = s[i - 1]
                   /\ Append(s, r)[i] = s[i]
        BY <2>1, <3>1
      <3>6. Len(s) + 1 > 1 => Len(s) > 0 /\ Append(s, r)[Len(s) + 1 - 1] = s[Len(s)]
        BY <2>1, <3>1
      <3>7. r.commit = n /\ r.content = head[n].tree[p] /\ r.by = o
        OBVIOUS
      <3> HIDE DEF r, s
      <3>8. ASSUME NEW i \in 1..(Len(s) + 1)
            PROVE  /\ Append(s, r)[i].commit \in DOMAIN head
                   /\ Append(s, r)[i].content = head[Append(s, r)[i].commit].tree[p]
                   /\ modern /\ i > 1 => Append(s, r)[i].content # Append(s, r)[i - 1].content
                   /\ modern /\ i > 1 /\ Append(s, r)[i].by \notin Adoption =>
                        Append(s, r)[i - 1].commit < Append(s, r)[i].commit
        <4>1. CASE i \in 1..Len(s)
          BY <2>1, <3>5, <4>1
        <4>2. CASE i = Len(s) + 1
          BY <2>3, <3>1, <3>2, <3>4, <3>6, <3>7, <4>2
        <4> QED BY <2>1, <4>1, <4>2
      <3> QED BY <2>3, <3>1, <3>8
    <2> QED BY <1>1, <2>2, <2>3, NewRevisionFacts
  <1>5. rev' \in [Path -> Seq(Entry)]
    <2>1. DOMAIN rev' = Path /\ rev' = [p \in Path |-> rev'[p]]
      BY <1>1 DEF NewRevisions
    <2> QED BY <1>4, <2>1
  <1>6. RevisionType'
    BY <1>1, <1>4, <1>5 DEF RevisionType
  <1>7. RevisionsAreCommitted'
    BY <1>1, <1>4 DEF RevisionsAreCommitted
  <1>8. RevisionsFollowHistory'
    <2>1. \A p \in Path : Len(rev'[p]) \in Nat /\ DOMAIN rev'[p] = 1..Len(rev'[p])
      BY <1>5
    <2> QED BY <1>1, <1>4, <2>1 DEF RevisionsFollowHistory
  <1> QED BY <1>2, <1>6, <1>7, <1>8 DEF RevisionInv

LEMMA RevisionStep == GitInv /\ RevisionInv /\ [Next]_vars => RevisionInv'
  <1> SUFFICES ASSUME GitInv, RevisionInv, [Next]_vars PROVE RevisionInv'
    OBVIOUS
  <1>1. CASE \E o \in Op :
               \/ Begin(o) \/ Retry(o) \/ Answer(o) \/ Ensured(o) \/ ReplayFails(o) \/ Refuse(o)
               \/ PublishFails(o) \/ ReplaceFails(o) \/ Replace(o) \/ ReconcileFails(o)
               \/ (o \in Editor /\ Save(o))
    BY <1>1, PassingKeepsRevisions
  <1>2. CASE \E o \in Op : Prepare(o) \/ Publish(o) \/ Clear(o) \/ Stage(o) \/ CommitIndex(o)
    BY <1>2, CommitKeepsRevisions
  <1>3. CASE (\E a \in Adoption : AdoptPrepare(a)) \/ (\E o \in Op : Recover(o) \/ RecoverWriting(o))
    BY <1>3, AdoptKeepsRevisions, RecoverKeepsRevisions
  <1>4. CASE \E o \in Op : Compare(o) \/ Reconcile(o)
    BY <1>4, CompareKeepsRevisions, ReconcileKeepsRevisions
  <1>5. CASE Crash
    <2>1. \A o \in Op : op'[o].pc \notin {"register", "append"}
      BY <1>5 DEF Crash, Ended, GitInv, TypeOK
    <2>2. RequestsInv'
      BY <2>1 DEF RequestsInv, Registering, Compared
    <2> QED BY <1>5, <2>2, RevisionsStay DEF Crash, gitVars, dbVars, Extended
  <1>6. CASE Restart \/ (\E p \in Path : HandEdit(p)) \/ UNCHANGED vars
    <2>1. UNCHANGED <<modern, head, op, rev>>
      BY <1>6 DEF Restart, HandEdit, vars, gitVars, dbVars
    <2>2. RequestsInv'
      BY <2>1, ComparedStays DEF RevisionInv, RequestsInv, Registering, Extended
    <2> QED BY <2>1, <2>2, RevisionsStay DEF Extended
  <1> QED BY <1>1, <1>2, <1>3, <1>4, <1>5, <1>6 DEF Next, Machine, People, Breaks, Op

LEMMA RevisionInitial == Init => RevisionInv
  <1> SUFFICES ASSUME Init PROVE RevisionInv
    OBVIOUS
  <1>1. RequestsInv
    BY DEF Init, Ended, RequestsInv, Registering, Compared
  <1>2. RevisionType /\ RevisionsAreCommitted /\ RevisionsFollowHistory
    BY DEF Init, RevisionType, RevisionsAreCommitted, RevisionsFollowHistory
  <1> QED BY <1>1, <1>2 DEF RevisionInv

\* Whoever registers has a commit to register, in a modern project the last one, and
\* what it has decided before any lock is still so in a modern project; every
\* revision is of a commit.
THEOREM RevisionInvariant == Spec => []RevisionInv
  BY RevisionInitial, RevisionStep, GitInvariant, PTL DEF Spec

\* A revision is the bytes of its commit, and in a modern project no two in a row are
\* the same bytes.
THEOREM RevisionsAreOfCommits == Spec => []RevisionsAreCommitted
  <1>1. RevisionInv => RevisionsAreCommitted
    BY DEF RevisionInv
  <1> QED BY <1>1, RevisionInvariant, PTL

\* In a modern project a newer version of an artifact is of a newer commit.
THEOREM RevisionsInOrder == Spec => []RevisionsFollowHistory
  <1>1. RevisionInv => RevisionsFollowHistory
    BY DEF RevisionInv
  <1> QED BY <1>1, RevisionInvariant, PTL

-----------------------------------------------------------------------------
(* Adoptions: the row, the commit and the revisions tell the same.          *)

Uncommitted(a) == \A i \in DOMAIN head : head[i].by # a

\* From its first transaction to its commit; a recovery on the way goes back to it.
Starting(a) ==
    \/ op[a].pc \in {"again", "write", "prepare", "publish"}
    \/ op[a].pc \in {"replay", "cleared"} /\ op[a].back # "git"

Working(a) == Starting(a) \/ op[a].pc \in {"replace", "clear", "register", "append"}

\* Where an adoption is, what its row says and what it has committed.
AdoptionInv(a) ==
    /\ op[a].pc = "idle" => row[a] = "none"
    /\ op[a].pc = "adopt" => row[a] \in {"none", "applying"}
    /\ Working(a) => row[a] = "applying"
    /\ Starting(a) \/ row[a] = "none" => Uncommitted(a)
    /\ op[a].pc \in {"register", "append"} =>
          op[a].commit \in DOMAIN head /\ head[op[a].commit].by = a
    /\ \A i \in DOMAIN head : head[i].by = a => Recovered(a) = {i}
    /\ row[a] = "failed" => Uncommitted(a) \/ a \in broken
    /\ row[a] = "conflicted" =>
          Uncommitted(a) \/ \E p \in DOMAIN op[a].files : Adopted(p)
    /\ row[a] = "applied" =>
          /\ ~Uncommitted(a)
          /\ \A p \in DOMAIN op[a].files :
                \E i \in DOMAIN rev[p] : rev[p][i].content = op[a].files[p]
    /\ a \in broken => ~Uncommitted(a) /\ row[a] = "failed"

RowState == {"none", "applying", "applied", "conflicted", "failed"}

AdoptionsInv == row \in [Adoption -> RowState] /\ \A a \in Adoption : AdoptionInv(a)

\* What revisions and applied rows keep from one state to the next.
Retained ==
    /\ \A p \in Path : \A i \in DOMAIN rev[p] : i \in DOMAIN rev'[p] /\ rev'[p][i] = rev[p][i]
    /\ \A b \in Adoption : row[b] = "applied" =>
          row'[b] = "applied" /\ op'[b].files = op[b].files

LEMMA AdoptedStays ==
    ASSUME Retained, NEW p \in Path, Adopted(p)
    PROVE  Adopted(p)'
  BY DEF Retained, Adopted

\* What the history says of an adoption does not change while others commit.
LEMMA HistoryStays ==
    ASSUME GitInv, NEW a \in Adoption, op'[a].files = op[a].files,
           \/ head' = head
           \/ \E c \in Commit : c.by # a /\ head' = Append(head, c)
    PROVE  /\ Uncommitted(a)' <=> Uncommitted(a)
           /\ Recovered(a)' = Recovered(a)
           /\ \A i \in DOMAIN head : i \in DOMAIN head' /\ head'[i] = head[i]
           /\ \A i \in DOMAIN head' : head'[i].by = a => i \in DOMAIN head
  <1>1. CASE head' = head
    BY <1>1 DEF Uncommitted, Recovered
  <1>2. ASSUME NEW c \in Commit, c.by # a, head' = Append(head, c)
        PROVE  /\ Uncommitted(a)' <=> Uncommitted(a)
               /\ Recovered(a)' = Recovered(a)
               /\ \A i \in DOMAIN head : i \in DOMAIN head' /\ head'[i] = head[i]
               /\ \A i \in DOMAIN head' : head'[i].by = a => i \in DOMAIN head
    <2>1. /\ Len(head') = Len(head) + 1 /\ head'[Len(head) + 1] = c
          /\ \A i \in DOMAIN head : i \in DOMAIN head' /\ head'[i] = head[i]
          /\ DOMAIN head' = 1..(Len(head) + 1) /\ DOMAIN head = 1..Len(head)
          /\ Len(head) \in Nat
      BY <1>2, AppendFacts, HeadFacts DEF GitInv
    <2>2. ASSUME NEW i \in DOMAIN head', head'[i].by = a
          PROVE  i \in DOMAIN head
      <3>1. i # Len(head) + 1
        BY <1>2, <2>1, <2>2
      <3>2. i \in 1..(Len(head) + 1)
        BY <2>1
      <3> QED BY <2>1, <3>1, <3>2
    <2>3. Uncommitted(a)' <=> Uncommitted(a)
      BY <2>1, <2>2 DEF Uncommitted
    <2>4. ASSUME NEW i \in 2..Len(head)
          PROVE  head'[i] = head[i] /\ head'[i - 1] = head[i - 1] /\ i \in 2..Len(head')
      <3>1. i \in DOMAIN head /\ i - 1 \in DOMAIN head
        BY <2>1
      <3> QED BY <2>1, <3>1
    <2>5. ASSUME NEW i \in 2..Len(head'), head'[i].by = a
          PROVE  i \in 2..Len(head)
      <3>1. i \in 2..(Len(head) + 1) /\ DOMAIN head' = 1..(Len(head) + 1)
        BY <2>1
      <3>2. i \in DOMAIN head'
        BY <2>1, <3>1
      <3> QED BY <2>1, <2>2, <2>5, <3>1, <3>2
    <2>6. Recovered(a)' = Recovered(a)
      BY <2>4, <2>5 DEF Recovered
    <2> QED BY <2>1, <2>2, <2>3, <2>6
  <1> QED BY <1>1, <1>2

\* An adoption that does nothing itself.
LEMMA WaitingAdoption ==
    ASSUME GitInv, AdoptionsInv, Retained, NEW a \in Adoption,
           op'[a] = op[a], row'[a] = row[a], a \in broken' <=> a \in broken,
           \/ head' = head
           \/ \E c \in Commit : c.by # a /\ head' = Append(head, c)
    PROVE  AdoptionInv(a)'
  <1>1. /\ Uncommitted(a)' <=> Uncommitted(a)
        /\ Recovered(a)' = Recovered(a)
        /\ \A i \in DOMAIN head : i \in DOMAIN head' /\ head'[i] = head[i]
        /\ \A i \in DOMAIN head' : head'[i].by = a => i \in DOMAIN head
    BY HistoryStays
  <1>2. AdoptionInv(a)
    BY DEF AdoptionsInv
  <1>3. (Starting(a)' <=> Starting(a)) /\ (Working(a)' <=> Working(a))
    BY DEF Starting, Working
  <1>4. op[a].pc # "idle" => DOMAIN op[a].files \subseteq Path
    BY AskedFacts DEF GitInv, Op
  <1>5. row[a] = "conflicted" =>
          Uncommitted(a)' \/ \E p \in DOMAIN op'[a].files : Adopted(p)'
    BY <1>1, <1>2, <1>4, AdoptedStays DEF AdoptionInv
  <1>6. row[a] = "applied" =>
          \A p \in DOMAIN op'[a].files :
             \E i \in DOMAIN rev'[p] : rev'[p][i].content = op'[a].files[p]
    BY <1>2, <1>4 DEF AdoptionInv, Retained
  <1> QED BY <1>1, <1>2, <1>3, <1>5, <1>6 DEF AdoptionInv

\* A step of an adoption that makes no commit and registers nothing.
LEMMA OwnStep ==
    ASSUME GitInv, AdoptionsInv, Retained, NEW a \in Adoption,
           head' = head, op'[a].files = op[a].files, a \in broken' <=> a \in broken,
           op'[a].pc = "idle" => row'[a] = "none",
           op'[a].pc = "adopt" => row'[a] \in {"none", "applying"},
           Working(a)' => row'[a] = "applying",
           Starting(a)' \/ row'[a] = "none" => Uncommitted(a),
           row'[a] = "failed" => Uncommitted(a) \/ a \in broken,
           op'[a].pc \in {"register", "append"} =>
               op'[a].commit \in DOMAIN head /\ head[op'[a].commit].by = a,
           row'[a] = "conflicted" =>
               \/ row[a] = "conflicted" \/ Uncommitted(a)
               \/ op[a].pc # "idle" /\ \E p \in DOMAIN op[a].files : Adopted(p),
           row'[a] = "applied" => row[a] = "applied",
           a \in broken => row'[a] = "failed"
    PROVE  AdoptionInv(a)'
  <1>1. /\ Uncommitted(a)' <=> Uncommitted(a)
        /\ Recovered(a)' = Recovered(a)
    BY HistoryStays
  <1>2. AdoptionInv(a)
    BY DEF AdoptionsInv
  <1>4. op[a].pc # "idle" => DOMAIN op[a].files \subseteq Path
    BY AskedFacts DEF GitInv, Op
  <1>5. row'[a] = "conflicted" =>
          Uncommitted(a)' \/ \E p \in DOMAIN op'[a].files : Adopted(p)'
    BY <1>1, <1>2, <1>4, AdoptedStays DEF AdoptionInv
  <1>6. row'[a] = "applied" =>
          \A p \in DOMAIN op'[a].files :
             \E i \in DOMAIN rev'[p] : rev'[p][i].content = op'[a].files[p]
    BY <1>2, <1>4 DEF AdoptionInv, Retained
  <1>7. row'[a] = "applied" => ~Uncommitted(a)'
    BY <1>1, <1>2 DEF AdoptionInv
  <1>8. \A i \in DOMAIN head' : head'[i].by = a => Recovered(a)' = {i}
    BY <1>1, <1>2 DEF AdoptionInv
  <1> QED BY <1>1, <1>2, <1>5, <1>6, <1>7, <1>8 DEF AdoptionInv

LEMMA BeginKeepsAdoption ==
    ASSUME GitInv, AdoptionsInv, NEW a \in Adoption, Begin(a), UNCHANGED broken
    PROVE  AdoptionInv(a)'
  <1>1. a \in Op /\ op[a].pc = "idle" /\ head' = head /\ row' = row
    BY DEF Begin, Enter, gitVars, dbVars, Op
  <1>2. row[a] = "none" /\ Uncommitted(a)
    BY <1>1 DEF AdoptionsInv, AdoptionInv
  <1>3. op'[a].pc = "git"
    BY <1>1 DEF Begin, Enter, GitInv, TypeOK
  <1>4. a \notin broken /\ \A i \in DOMAIN head : head[i].by # a
    BY <1>2 DEF AdoptionsInv, AdoptionInv, Uncommitted
  <1> QED BY <1>1, <1>2, <1>3, <1>4 DEF AdoptionInv, Uncommitted, Starting, Working

\* Once there is no commit, the next attempt finds none; once there is one, it finds it.
LEMMA NothingFound ==
    ASSUME AdoptionsInv, NEW a \in Adoption, Cardinality(Recovered(a)) # 1
    PROVE  Uncommitted(a)
  <1> SUFFICES ASSUME NEW i \in DOMAIN head, head[i].by = a
               PROVE  FALSE
    BY DEF Uncommitted
  <1>1. Recovered(a) = {i}
    BY DEF AdoptionsInv, AdoptionInv
  <1> QED BY <1>1, FS_Singleton

LEMMA AdoptPrepareKeepsAdoption ==
    ASSUME GitInv, AdoptionsInv, Retained, NEW a \in Adoption, AdoptPrepare(a), UNCHANGED broken
    PROVE  AdoptionInv(a)'
  <1>1. /\ a \in Op /\ TypeOK /\ op[a].pc = "adopt" /\ head' = head /\ AdoptionInv(a)
        /\ row \in [Adoption -> RowState]
    BY DEF AdoptPrepare, gitVars, Op, GitInv, AdoptionsInv
  <1>2. row[a] \in {"none", "applying"} /\ a \notin broken
    BY <1>1 DEF AdoptionInv
  <1>3. CASE /\ \/ \E p \in DOMAIN op[a].files : Adopted(p)
                \/ ~(row[a] = "applying" /\ Cardinality(Recovered(a)) = 1)
             /\ row' = [row EXCEPT ![a] = "conflicted"] /\ Leave(a, "failed")
    <2>1. op'[a].pc = "failed" /\ op'[a].files = op[a].files /\ row'[a] = "conflicted"
      BY <1>1, <1>3, LeaveMoves DEF Resting
    <2>2. Uncommitted(a) \/ \E p \in DOMAIN op[a].files : Adopted(p)
      BY <1>1, <1>2, <1>3, NothingFound DEF AdoptionInv
    <2>3. ~Starting(a)' /\ ~Working(a)'
      BY <2>1 DEF Starting, Working
    <2> QED BY <1>1, <1>2, <2>1, <2>2, <2>3, OwnStep
  <1>4. CASE /\ row[a] = "applying" /\ Cardinality(Recovered(a)) = 1
             /\ GotoAt(a, "register", CHOOSE i \in Recovered(a) : TRUE) /\ row' = row
    <2> DEFINE i == CHOOSE i \in Recovered(a) : TRUE
    <2>1. i \in Recovered(a) /\ i \in DOMAIN head /\ i \in Nat
      BY <1>1, <1>4, RecoveredFacts
    <2>2. head[i].by = a
      BY <2>1 DEF Recovered
    <2> HIDE DEF i
    <2>3. op'[a].pc = "register" /\ op'[a].files = op[a].files /\ op'[a].commit = i
      BY <1>1, <1>4, <2>1, GotoMoves DEF Place, Waiting, i
    <2>4. ~Starting(a)'
      BY <2>3 DEF Starting
    <2> QED BY <1>1, <1>2, <1>4, <2>1, <2>2, <2>3, <2>4, OwnStep
  <1>5. CASE /\ ~(row[a] = "applying" /\ Cardinality(Recovered(a)) = 1)
             /\ row' = [row EXCEPT ![a] = "applying"] /\ Goto(a, "again")
    <2>1. op'[a].pc = "again" /\ op'[a].files = op[a].files /\ row'[a] = "applying"
      BY <1>1, <1>5, GotoMoves DEF Place, Waiting
    <2>2. Uncommitted(a)
      BY <1>1, <1>2, <1>5, NothingFound DEF AdoptionInv
    <2> QED BY <1>1, <1>2, <2>1, <2>2, OwnStep
  <1> QED BY <1>3, <1>4, <1>5 DEF AdoptPrepare

\* The guards of an adoption see the original files, so its batch is a change.
LEMMA PrepareKeepsAdoption ==
    ASSUME GitInv, AdoptionsInv, Retained, NEW a \in Adoption, Prepare(a), UNCHANGED broken
    PROVE  AdoptionInv(a)'
  <1> DEFINE files == op[a].files
  <1>1. /\ a \in Op /\ TypeOK /\ op[a].pc \in {"write", "prepare"} /\ head' = head
        /\ row' = row /\ AdoptionInv(a) /\ Seen(a)
    BY Preparing DEF Prepare, dbVars, Op, GitInv, AdoptionsInv
  <1>2. /\ files \in Asks[a] /\ DOMAIN files \subseteq Path /\ DOMAIN files # {}
        /\ \A p \in DOMAIN files : files[p] # Origin[p]
    BY <1>1, AskedFacts, WorkspaceAssumption DEF TypeOK
  <1>3. \A p \in DOMAIN files : Tip[p] = Origin[p]
    BY <1>1 DEF Seen
  <1>4. NewTree(files) # Tip
    <2>1. PICK p \in DOMAIN files : TRUE
      BY <1>2
    <2>2. NewTree(files)[p] = files[p]
      BY <1>2 DEF NewTree
    <2> QED BY <1>2, <1>3, <2>2
  <1>5. Goto(a, "publish")
    BY <1>4 DEF Prepare
  <1>6. op'[a].pc = "publish" /\ op'[a].files = files
    BY <1>1, <1>5, GotoMoves DEF Place, Holding
  <1>7. Uncommitted(a) /\ row[a] = "applying"
    BY <1>1 DEF AdoptionInv, Starting, Working
  <1> QED BY <1>1, <1>6, <1>7, OwnStep DEF AdoptionInv

\* The commit of an adoption is the one that a later attempt finds.
LEMMA PublishKeepsAdoption ==
    ASSUME GitInv, AdoptionsInv, NEW a \in Adoption, Publish(a), UNCHANGED broken
    PROVE  AdoptionInv(a)'
  <1> DEFINE files == op[a].files
             n == Len(head) + 1
  <1>1. /\ a \in Op /\ TypeOK /\ op[a].pc = "publish" /\ row' = row
        /\ head' = Append(head, marker) /\ GotoAt(a, "replace", Len(head) + 1)
        /\ AdoptionInv(a) /\ Publishing(a)
    BY DEF Publish, dbVars, Op, GitInv, AdoptionsInv, StepInv
  <1>2. /\ files \in Asks[a] /\ DOMAIN files \subseteq Path
        /\ \A p \in DOMAIN files : files[p] # Origin[p] /\ Tip[p] = Origin[p]
    BY <1>1, AskedFacts, WorkspaceAssumption DEF TypeOK, Publishing, Seen
  <1>3. marker \in Commit /\ marker.by = a /\ marker.tree = NewTree(files)
    BY <1>1 DEF Publishing, TypeOK
  <1>4. /\ Len(head) \in Nat /\ Len(head) >= 1 /\ DOMAIN head = 1..Len(head)
        /\ Tip = head[Len(head)].tree
    BY <1>1, HeadFacts
  <1>5. /\ Len(head') = n /\ head'[n] = marker /\ DOMAIN head' = 1..n
        /\ \A i \in DOMAIN head : head'[i] = head[i]
    BY <1>1, <1>3, AppendFacts
  <1>6. op'[a].pc = "replace" /\ op'[a].files = files
    <2>1. Len(head) + 1 \in Nat /\ "replace" \in Place
      BY <1>4 DEF Place, Holding
    <2> QED BY <1>1, <2>1, GotoMoves
  <1>7. ASSUME NEW i \in DOMAIN head', head'[i].by = a
        PROVE  i = n
    <2>1. i \notin DOMAIN head
      BY <1>1, <1>5, <1>7 DEF AdoptionInv, Starting, Uncommitted
    <2> QED BY <1>4, <1>5, <2>1
  <1>8. /\ n \in 2..Len(head') /\ n - 1 = Len(head) /\ n \in DOMAIN head'
        /\ head'[n - 1] = head[Len(head)]
    BY <1>4, <1>5
  <1>9. {p \in Path : marker.tree[p] # Tip[p]} = DOMAIN files
    BY <1>2, <1>3 DEF NewTree
  <1>10. \A p \in DOMAIN files : Tip[p] = Origin[p] /\ marker.tree[p] = files[p]
    BY <1>2, <1>3 DEF NewTree
  <1>11. \A i \in 2..Len(head') : i \in DOMAIN head'
    BY <1>4, <1>5
  <1> HIDE DEF n, files
  <1>12. Recovered(a)' = {n}
    <2>1. ASSUME NEW i, i \in Recovered(a)'
          PROVE  i = n
      BY <1>7, <1>11, <2>1 DEF Recovered
    <2>2. {p \in Path : head'[n].tree[p] # head'[n - 1].tree[p]} = DOMAIN op'[a].files
      BY <1>4, <1>5, <1>6, <1>8, <1>9
    <2>3. \A p \in DOMAIN op'[a].files :
             head'[n - 1].tree[p] = Origin[p] /\ head'[n].tree[p] = op'[a].files[p]
      BY <1>4, <1>5, <1>6, <1>8, <1>10
    <2>4. head'[n].by = a
      BY <1>3, <1>5
    <2>5. n \in Recovered(a)'
      BY <1>8, <2>2, <2>3, <2>4 DEF Recovered
    <2> QED BY <2>1, <2>5
  <1>13. row[a] = "applying" /\ a \notin broken
    BY <1>1 DEF AdoptionInv, Starting, Working
  <1>14. ~Starting(a)'
    BY <1>6 DEF Starting
  <1> QED BY <1>1, <1>6, <1>7, <1>12, <1>13, <1>14 DEF AdoptionInv

\* A registration leaves every path of the batch with a revision of those bytes.
LEMMA ReconcileKeepsAdoption ==
    ASSUME GitInv, RevisionInv, AdoptionsInv, NEW a \in Adoption, Reconcile(a), UNCHANGED broken
    PROVE  AdoptionInv(a)'
  <1> DEFINE n == op[a].commit
             files == op[a].files
  <1>1. /\ a \in Op /\ TypeOK /\ op[a].pc = "append" /\ head' = head
        /\ rev' = NewRevisions(a) /\ Leave(a, "done") /\ AdoptionInv(a)
    BY DEF Reconcile, gitVars, Op, GitInv, AdoptionsInv
  <1>2. op'[a].pc = "done" /\ op'[a].files = files /\ row'[a] = "applied"
    BY <1>1, LeaveMoves DEF Resting, Reconcile, Told, AdoptionsInv
  <1>3. n \in DOMAIN head /\ head[n].by = a /\ Recovered(a) = {n}
    BY <1>1 DEF AdoptionInv
  <1>4. \A p \in DOMAIN files : head[n].tree[p] = files[p]
    BY <1>3 DEF Recovered
  <1>5. Scope(a) = DOMAIN files
    BY WorkspaceAssumption DEF Scope
  <1>6. ASSUME NEW p \in DOMAIN files
        PROVE  \E i \in DOMAIN rev'[p] : rev'[p][i].content = files[p]
    <2>1. p \in Path /\ files[p] # Absent
      BY <1>1, AskedFacts
    <2>2. rev[p] \in Seq(Entry)
      BY <2>1 DEF RevisionInv, RevisionType
    <2>3. CASE rev'[p] = rev[p] /\ Registered(p, files[p])
      BY <2>3 DEF Registered
    <2>4. ASSUME NEW r \in Entry, rev'[p] = Append(rev[p], r), r.content = files[p]
          PROVE  \E i \in DOMAIN rev'[p] : rev'[p][i].content = files[p]
      <3> HIDE DEF Entry
      <3>1. Len(rev[p]) + 1 \in DOMAIN rev'[p] /\ rev'[p][Len(rev[p]) + 1] = r
        BY <2>2, <2>4
      <3> QED BY <2>4, <3>1
    <2> DEFINE r == [content |-> head[n].tree[p], commit |-> n, by |-> a]
    <2>5. /\ r \in Entry /\ r.content = files[p]
          /\ \/ rev'[p] = rev[p] /\ Registered(p, files[p])
             \/ rev'[p] = Append(rev[p], r)
      BY <1>1, <1>4, <1>5, <2>1, NewRevisionFacts
    <2> HIDE DEF r
    <2> QED BY <2>3, <2>4, <2>5
  <1>7. ~Uncommitted(a)' /\ Recovered(a)' = Recovered(a)
    BY <1>1, <1>2, <1>3 DEF Uncommitted, Recovered
  <1>8. \A i \in DOMAIN head' : head'[i].by = a => Recovered(a)' = {i}
    BY <1>1, <1>7 DEF AdoptionInv
  <1>9. a \notin broken
    BY <1>1 DEF AdoptionInv, Working
  <1>10. ~Starting(a)' /\ ~Working(a)'
    BY <1>2 DEF Starting, Working
  <1> QED BY <1>2, <1>6, <1>7, <1>8, <1>9, <1>10 DEF AdoptionInv

\* What is left of an adoption that ends with an error before its commit.
LEMMA EndsUncommitted ==
    ASSUME GitInv, AdoptionsInv, Retained, NEW a \in Adoption,
           Leave(a, "failed"), head' = head, UNCHANGED broken,
           \/ row' = row
           \/ /\ Starting(a)
              /\ \E state \in {"failed", "conflicted"} : row' = [row EXCEPT ![a] = state]
    PROVE  AdoptionInv(a)'
  <1>1. a \in Op /\ TypeOK /\ AdoptionInv(a) /\ row \in [Adoption -> RowState]
    BY DEF Op, GitInv, AdoptionsInv
  <1>2. op'[a].pc = "failed" /\ op'[a].files = op[a].files
    BY <1>1, LeaveMoves DEF Resting
  <1>3. ~Starting(a)' /\ ~Working(a)'
    BY <1>2 DEF Starting, Working
  <1>4. CASE row' = row
    BY <1>1, <1>2, <1>3, <1>4, OwnStep DEF AdoptionInv
  <1>5. CASE Starting(a) /\ \E state \in {"failed", "conflicted"} : row' = [row EXCEPT ![a] = state]
    <2>1. Uncommitted(a) /\ a \notin broken /\ row'[a] \in {"failed", "conflicted"}
      BY <1>1, <1>5 DEF AdoptionInv
    <2> QED BY <1>1, <1>2, <1>3, <2>1, OwnStep
  <1> QED BY <1>4, <1>5

LEMMA RecoverFromKeepsAdoption ==
    ASSUME GitInv, AdoptionsInv, Retained, NEW a \in Adoption, UNCHANGED broken,
           NEW back \in Back, RecoverFrom(a, back),
           \/ op[a].pc = back /\ back # "prepare" /\ ~Decided(a)
           \/ op[a].pc = "write" /\ back = "prepare"
    PROVE  AdoptionInv(a)'
  <1>1. a \in Op /\ TypeOK /\ AdoptionInv(a) /\ head' = head /\ row \in [Adoption -> RowState]
    BY DEF RecoverFrom, Op, GitInv, AdoptionsInv
  <1>2. back # "git" => Starting(a)
    BY DEF Starting, Back
  <1>3. ASSUME Goto(a, back), row' = row
        PROVE  AdoptionInv(a)'
    <2>1. op'[a].pc = back /\ op'[a].files = op[a].files
      <3>1. back \in Place /\ 0 \in Nat
        BY DEF Back, Place, Waiting, Holding
      <3> QED BY <1>1, <1>3, <3>1, GotoMoves
    <2>2. (Starting(a)' => Starting(a)) /\ (Working(a)' => Working(a))
      BY <2>1 DEF Starting, Working, Back
    <2>3. op'[a].pc \notin {"idle", "adopt", "register", "append"}
      BY <2>1 DEF Back
    <2> QED BY <1>1, <1>3, <2>1, <2>2, <2>3, OwnStep DEF AdoptionInv
  <1>4. ASSUME op' = [op EXCEPT ![a].pc = "replay", ![a].back = back], row' = row
        PROVE  AdoptionInv(a)'
    <2>1. op'[a].pc = "replay" /\ op'[a].back = back /\ op'[a].files = op[a].files
      BY <1>1, <1>4 DEF TypeOK, OpRecord
    <2>2. (Starting(a)' => Starting(a)) /\ (Working(a)' => Working(a))
      BY <1>2, <2>1 DEF Starting, Working
    <2> QED BY <1>1, <1>4, <2>1, <2>2, OwnStep DEF AdoptionInv
  <1>5. ASSUME RecoveryError(a, back, "conflicted")
        PROVE  AdoptionInv(a)'
    BY <1>1, <1>2, <1>5, EndsUncommitted DEF RecoveryError, Told
  <1> QED BY <1>3, <1>4, <1>5 DEF RecoverFrom

LEMMA RecoverKeepsAdoption ==
    ASSUME GitInv, AdoptionsInv, Retained, NEW a \in Adoption, UNCHANGED broken,
           Recover(a) \/ RecoverWriting(a)
    PROVE  AdoptionInv(a)'
  <1>1. CASE Recover(a)
    <2>1. PICK pc \in {"git", "again"} : Ensuring(a, pc) /\ RecoverFrom(a, pc)
      BY <1>1 DEF Recover
    <2>2. op[a].pc = pc /\ pc # "prepare" /\ ~Decided(a) /\ pc \in Back
      BY <2>1 DEF Ensuring, AtGit, Back
    <2> QED BY <2>1, <2>2, RecoverFromKeepsAdoption
  <1>2. CASE RecoverWriting(a)
    <2>1. op[a].pc = "write" /\ RecoverFrom(a, "prepare") /\ "prepare" \in Back
      BY <1>2 DEF RecoverWriting, Writing, AtGit, Back
    <2> QED BY <2>1, RecoverFromKeepsAdoption
  <1> QED BY <1>1, <1>2

\* A recovery that fails on the way to the commit, and a commit that fails.
LEMMA FailingKeepsAdoption ==
    ASSUME GitInv, AdoptionsInv, Retained, NEW a \in Adoption, UNCHANGED broken,
           ReplayFails(a) \/ PublishFails(a) \/ Refuse(a) \/ ReconcileFails(a)
    PROVE  AdoptionInv(a)'
  <1>1. head' = head /\ Leave(a, "failed")
    BY DEF ReplayFails, RecoveryError, PublishFails, Refuse, ReconcileFails, gitVars
  <1>2. CASE ReplayFails(a)
    <2>1. op[a].pc \in {"replay", "cleared"} /\ RecoveryError(a, op[a].back, "failed")
      BY <1>2 DEF ReplayFails
    <2> QED BY <1>1, <2>1, EndsUncommitted DEF RecoveryError, Told, Starting
  <1>3. CASE PublishFails(a)
    BY <1>1, <1>3, EndsUncommitted DEF PublishFails, Told, Starting
  <1>4. CASE Refuse(a)
    BY <1>1, <1>4, EndsUncommitted DEF Refuse, Writing, AtGit, Told, Starting
  <1>5. CASE ReconcileFails(a)
    BY <1>1, <1>5, EndsUncommitted DEF ReconcileFails, dbVars
  <1> QED BY <1>2, <1>3, <1>4, <1>5

\* The checkout finds what it made, so the row says failed, of a commit that is there.
LEMMA BreakingKeepsAdoption ==
    ASSUME GitInv, AdoptionsInv, Retained, NEW a \in Adoption, ReplaceFails(a)
    PROVE  AdoptionInv(a)' /\ a \in broken'
  <1>1. /\ a \in Op /\ TypeOK /\ op[a].pc \in {"replace", "clear"} /\ head' = head
        /\ AdoptionInv(a) /\ StepInv(a) /\ row \in [Adoption -> RowState]
        /\ Leave(a, "failed") /\ broken' = broken \cup {a}
    BY DEF ReplaceFails, gitVars, Op, GitInv, AdoptionsInv
  <1>2. Recoverable /\ Published /\ marker.by = a
    BY <1>1 DEF StepInv, Recoverable
  <1>3. op'[a].pc = "failed" /\ op'[a].files = op[a].files /\ row'[a] = "failed"
    <2>1. row' = [row EXCEPT ![a] = "failed"]
      BY <1>2 DEF ReplaceFails, Told
    <2> QED BY <1>1, <2>1, LeaveMoves DEF Resting
  <1>4. ~Uncommitted(a)
    BY <1>1, <1>2, HeadFacts DEF Published, Uncommitted
  <1>5. (Uncommitted(a)' <=> Uncommitted(a)) /\ Recovered(a)' = Recovered(a)
    BY <1>1, <1>3, HistoryStays
  <1>6. ~Starting(a)' /\ ~Working(a)'
    BY <1>3 DEF Starting, Working
  <1>7. \A i \in DOMAIN head' : head'[i].by = a => Recovered(a)' = {i}
    BY <1>1, <1>5 DEF AdoptionInv
  <1> QED BY <1>1, <1>3, <1>4, <1>5, <1>6, <1>7 DEF AdoptionInv

\* The other steps an adoption takes.
LEMMA PassingKeepsAdoption ==
    ASSUME GitInv, AdoptionsInv, Retained, NEW a \in Adoption, UNCHANGED broken,
           Retry(a) \/ Answer(a) \/ Ensured(a) \/ Replace(a) \/ Clear(a) \/ Compare(a)
    PROVE  AdoptionInv(a)'
  <1>1. /\ a \in Op /\ TypeOK /\ head' = head /\ AdoptionInv(a) /\ StepInv(a)
        /\ row \in [Adoption -> RowState] /\ row' = row
    BY DEF Retry, Enter, Answer, Ensured, Replace, Clear, Compare, gitVars, dbVars, Op, GitInv,
           AdoptionsInv
  <1>2. ASSUME NEW pc \in Place, Goto(a, pc)
        PROVE  /\ op'[a].pc = pc /\ op'[a].files = op[a].files
               /\ op'[a].back = op[a].back /\ op'[a].commit = op[a].commit
    <2>1. 0 \in Nat
      OBVIOUS
    <2> QED BY <1>1, <1>2, <2>1, GotoMoves
  <1>3. CASE Retry(a)
    <2>1. op'[a].pc = "git" /\ op'[a].files = op[a].files
      BY <1>1, <1>3 DEF Retry, Enter, TypeOK
    <2>2. ~Starting(a)' /\ ~Working(a)'
      BY <2>1 DEF Starting, Working
    <2> QED BY <1>1, <2>1, <2>2, OwnStep DEF AdoptionInv
  <1>4. CASE Answer(a)
    <2>1. op'[a].pc = "done" /\ op'[a].files = op[a].files
      BY <1>1, <1>4, LeaveMoves DEF Answer, Resting
    <2>2. ~Starting(a)' /\ ~Working(a)'
      BY <2>1 DEF Starting, Working
    <2> QED BY <1>1, <2>1, <2>2, OwnStep DEF AdoptionInv
  <1>5. CASE Ensured(a)
    <2>1. PICK pc \in {"git", "again"} :
             /\ op[a].pc = pc /\ ~Decided(a)
             /\ Goto(a, IF pc = "git" THEN "adopt" ELSE "write")
      BY <1>5 DEF Ensured, Ensuring, AtGit
    <2>2. /\ op'[a].pc = IF pc = "git" THEN "adopt" ELSE "write"
          /\ op'[a].files = op[a].files
      BY <1>2, <2>1 DEF Place, Waiting
    <2>3. (Starting(a)' => Starting(a)) /\ (Working(a)' => Working(a))
      BY <2>1, <2>2 DEF Starting, Working
    <2>4. row[a] \in {"none", "applying"}
      BY <1>1, <2>1 DEF Decided, RowState
    <2> QED BY <1>1, <2>2, <2>3, <2>4, OwnStep DEF AdoptionInv
  <1>6. CASE Replace(a)
    <2>1. CASE UNCHANGED op
      <3>1. (Starting(a)' => Starting(a)) /\ (Working(a)' => Working(a))
        BY <2>1 DEF Starting, Working
      <3> QED BY <1>1, <2>1, <3>1, OwnStep DEF AdoptionInv
    <2>2. CASE /\ op[a].pc \in {"replace", "replay"}
               /\ Goto(a, IF op[a].pc = "replace" THEN "clear" ELSE "cleared")
      <3>1. /\ op'[a].pc = IF op[a].pc = "replace" THEN "clear" ELSE "cleared"
            /\ op'[a].files = op[a].files /\ op'[a].back = op[a].back
        BY <1>2, <2>2 DEF Place, Holding
      <3>2. (Starting(a)' => Starting(a)) /\ (Working(a)' => Working(a))
        BY <2>2, <3>1 DEF Starting, Working
      <3> QED BY <1>1, <3>1, <3>2, OwnStep DEF AdoptionInv
    <2> QED BY <1>6, <2>1, <2>2 DEF Replace
  <1>7. CASE Clear(a)
    <2>1. CASE op[a].pc = "clear" /\ Goto(a, "register")
      <3>1. Published /\ marker.by = a /\ op[a].commit = Len(head)
        BY <1>1, <2>1 DEF StepInv
      <3>2. Len(head) \in DOMAIN head /\ head[Len(head)].by = a
        BY <1>1, <3>1, HeadFacts DEF Published
      <3>3. op'[a].pc = "register" /\ op'[a].files = op[a].files /\ op'[a].commit = Len(head)
        BY <1>2, <2>1, <3>1 DEF Place, Waiting
      <3>4. ~Starting(a)' /\ Working(a)
        BY <2>1, <3>3 DEF Starting, Working
      <3> QED BY <1>1, <3>2, <3>3, <3>4, OwnStep DEF AdoptionInv
    <2>2. CASE op[a].pc = "cleared" /\ Goto(a, op[a].back)
      <3>1. op[a].back \in Back /\ op[a].back \in Place
        BY <1>1 DEF TypeOK, OpRecord, Back, Place, Waiting, Holding
      <3>2. op'[a].pc = op[a].back /\ op'[a].files = op[a].files
        BY <1>2, <2>2, <3>1
      <3>3. (Starting(a)' => Starting(a)) /\ (Working(a)' => Working(a))
        BY <2>2, <3>1, <3>2 DEF Starting, Working, Back
      <3>4. op'[a].pc \notin {"idle", "adopt", "register", "append"}
        BY <3>1, <3>2 DEF Back
      <3> QED BY <1>1, <3>2, <3>3, <3>4, OwnStep DEF AdoptionInv
    <2> QED BY <1>7, <2>1, <2>2 DEF Clear
  <1>8. CASE Compare(a)
    <2>1. op[a].pc = "register" /\ op' = [op EXCEPT ![a].pc = "append", ![a].fresh = Fresh(a)]
      BY <1>8 DEF Compare
    <2>2. op'[a].pc = "append" /\ op'[a].files = op[a].files /\ op'[a].commit = op[a].commit
      BY <1>1, <2>1 DEF TypeOK, OpRecord
    <2>3. /\ row[a] = "applying" /\ a \notin broken
          /\ op'[a].commit \in DOMAIN head /\ head[op'[a].commit].by = a
      BY <1>1, <2>1, <2>2 DEF AdoptionInv, Working
    <2>4. ~Starting(a)'
      BY <2>2 DEF Starting
    <2> QED BY <1>1, <2>2, <2>3, <2>4, OwnStep
  <1> QED BY <1>3, <1>4, <1>5, <1>6, <1>7, <1>8

\* The steps of one request.
StepOf(o) ==
    \/ Begin(o) \/ Retry(o) \/ Answer(o) \/ Recover(o) \/ Ensured(o) \/ RecoverWriting(o)
    \/ ReplayFails(o) \/ Prepare(o) \/ Refuse(o) \/ Publish(o) \/ PublishFails(o)
    \/ Replace(o) \/ ReplaceFails(o) \/ Clear(o) \/ Stage(o) \/ CommitIndex(o)
    \/ Compare(o) \/ Reconcile(o) \/ ReconcileFails(o) \/ (o \in Editor /\ Save(o))
    \/ (o \in Adoption /\ AdoptPrepare(o))

\* Only a checkout that fails together with its recovery breaks an adoption.
LEMMA BreaksOnly ==
    ASSUME [Next]_vars
    PROVE  UNCHANGED broken \/ \E o \in Op : ReplaceFails(o)
  BY DEF Next, Breaks, vars

\* A request's step touches no other adoption.
LEMMA OnlyItself ==
    ASSUME GitInv, AdoptionsInv, NEW o \in Op, StepOf(o)
    PROVE  /\ \A a \in Adoption \ {o} : op'[a] = op[a] /\ row'[a] = row[a]
           /\ row' \in [Adoption -> RowState]
  <1>1. /\ row \in [Adoption -> RowState] /\ Adoption \subseteq Op
        /\ op \in [Op -> OpRecord]
    BY DEF AdoptionsInv, GitInv, TypeOK, Op
  <1>2. ASSUME NEW state \in RowState, Told(o, state)
        PROVE  /\ \A a \in Adoption \ {o} : row'[a] = row[a]
               /\ row' \in [Adoption -> RowState]
    BY <1>1, <1>2 DEF Told
  <1>3. \A state : Leave(o, state) => \A a \in Adoption \ {o} : op'[a] = op[a]
    BY <1>1 DEF Leave
  <1>4. CASE Begin(o) \/ Retry(o)
    BY <1>1, <1>4 DEF Begin, Retry, Enter, dbVars
  <1>5. ASSUME NEW back, RecoverFrom(o, back)
        PROVE  /\ \A a \in Adoption \ {o} : op'[a] = op[a] /\ row'[a] = row[a]
               /\ row' \in [Adoption -> RowState]
    BY <1>1, <1>2, <1>3, <1>5 DEF RecoverFrom, RecoveryError, Goto, RowState
  <1>6. CASE Recover(o) \/ RecoverWriting(o)
    BY <1>5, <1>6 DEF Recover, RecoverWriting
  <1>7. CASE Ensured(o) \/ Prepare(o) \/ Publish(o) \/ Replace(o) \/ Clear(o) \/ Compare(o)
    BY <1>1, <1>7 DEF Ensured, Prepare, Publish, Replace, Clear, Compare, Goto, GotoAt, dbVars
  <1>8. CASE Answer(o) \/ Refuse(o) \/ PublishFails(o) \/ Reconcile(o) \/ ReconcileFails(o)
    BY <1>1, <1>2, <1>3, <1>8 DEF Answer, Refuse, PublishFails, Reconcile, ReconcileFails, dbVars,
           RowState
  <1>9. CASE ReplayFails(o) \/ ReplaceFails(o)
    BY <1>1, <1>2, <1>3, <1>9 DEF ReplayFails, RecoveryError, ReplaceFails, RowState
  <1>10. CASE Stage(o) \/ CommitIndex(o) \/ Save(o)
    BY <1>1, <1>3, <1>10 DEF Stage, CommitIndex, Save, Goto, GotoAt, dbVars
  <1>11. CASE o \in Adoption /\ AdoptPrepare(o)
    BY <1>1, <1>3, <1>11 DEF AdoptPrepare, Goto, GotoAt, RowState
  <1> QED BY <1>4, <1>6, <1>7, <1>8, <1>9, <1>10, <1>11 DEF StepOf

\* Once the row says applied it stays so, with the files it is about.
LEMMA AppliedStays ==
    ASSUME GitInv, AdoptionsInv, NEW a \in Adoption, row[a] = "applied", StepOf(a)
    PROVE  row'[a] = "applied" /\ op'[a].files = op[a].files
  <1>1. /\ a \in Op /\ TypeOK /\ AdoptionInv(a) /\ a \notin Registrar \cup Editor
        /\ ~Working(a) /\ op[a].pc \notin {"idle", "adopt"} /\ Decided(a)
    BY WorkspaceAssumption DEF AdoptionsInv, AdoptionInv, GitInv, Op, Decided
  <1>2. CASE Retry(a) \/ Answer(a)
    BY <1>1, <1>2 DEF Retry, Enter, Answer, Leave, Ended, dbVars, TypeOK, OpRecord
  <1>3. CASE Replace(a) \/ Clear(a)
    BY <1>1, <1>3 DEF Replace, Clear, Goto, dbVars, TypeOK, OpRecord
  <1>4. CASE ReplayFails(a)
    <2>1. op[a].back = "git"
      BY <1>1, <1>4 DEF ReplayFails, Working, Starting
    <2>2. row' = row /\ Leave(a, "failed")
      BY <1>4, <2>1 DEF ReplayFails, RecoveryError
    <2> QED BY <1>1, <2>2, LeaveMoves DEF Resting
  <1>5. CASE CommitIndex(a)
    BY <1>1, <1>5 DEF CommitIndex, GitInv, StepInv
  <1>6. op[a].pc \notin {"idle", "adopt", "write", "prepare", "publish", "replace", "clear",
                         "register", "append", "again"}
    BY <1>1 DEF Working, Starting
  <1> QED BY <1>1, <1>2, <1>3, <1>4, <1>5, <1>6
        DEF Begin, Recover, Ensured, Ensuring, RecoverWriting, Prepare, Refuse, Publish,
            PublishFails, ReplaceFails, Stage, Compare, Reconcile, ReconcileFails, AdoptPrepare,
            Writing, AtGit, StepOf

LEMMA RevisionsRetained ==
    ASSUME GitInv, RevisionInv, [Next]_vars, NEW p \in Path, NEW i \in DOMAIN rev[p]
    PROVE  i \in DOMAIN rev'[p] /\ rev'[p][i] = rev[p][i]
  <1>1. CASE \E o \in Op : Reconcile(o)
    <2>1. PICK o \in Op : op[o].pc = "append" /\ rev' = NewRevisions(o)
      BY <1>1 DEF Reconcile
    <2> QED BY <2>1, RevisionsGrow
  <1>2. CASE UNCHANGED rev
    BY <1>2
  <1> QED BY <1>1, <1>2
        DEF Next, Machine, People, Breaks, vars, Begin, Retry, Enter, Answer, Recover, Ensured,
            RecoverWriting, RecoverFrom, ReplayFails, Prepare, Refuse, Publish, PublishFails,
            Replace, ReplaceFails, Clear, Stage, CommitIndex, Compare, ReconcileFails,
            AdoptPrepare, Crash, Restart, Save, HandEdit, dbVars

LEMMA NextSteps ==
    ASSUME [Next]_vars
    PROVE  \/ \E o \in Op : StepOf(o)
           \/ Crash \/ Restart \/ (\E p \in Path : HandEdit(p)) \/ UNCHANGED vars
  BY DEF Next, Machine, People, Breaks, Op, StepOf

LEMMA Retains ==
    ASSUME GitInv, RevisionInv, AdoptionsInv, [Next]_vars
    PROVE  Retained
  <1> SUFFICES ASSUME NEW a \in Adoption, row[a] = "applied"
               PROVE  row'[a] = "applied" /\ op'[a].files = op[a].files
    BY RevisionsRetained DEF Retained
  <1>0. a \in Op /\ a \notin Editor
    BY WorkspaceAssumption DEF Op
  <1>1. ASSUME NEW o \in Op, StepOf(o)
        PROVE  row'[a] = "applied" /\ op'[a].files = op[a].files
    <2>1. CASE o = a
      BY <1>0, <1>1, <2>1, AppliedStays
    <2>2. CASE o # a
      BY <1>1, <2>2, OnlyItself
    <2> QED BY <2>1, <2>2
  <1>2. CASE Crash
    BY <1>0, <1>2 DEF Crash, Ended, dbVars, GitInv, TypeOK
  <1>3. CASE Restart \/ (\E p \in Path : HandEdit(p)) \/ UNCHANGED vars
    BY <1>3 DEF Restart, HandEdit, vars, dbVars
  <1> QED BY <1>1, <1>2, <1>3, NextSteps

\* A commit of somebody else.
LEMMA HistoryOf ==
    ASSUME GitInv, NEW o \in Op, NEW a \in Adoption, o # a, StepOf(o)
    PROVE  head' = head \/ \E c \in Commit : c.by # a /\ head' = Append(head, c)
  <1>1. CASE Publish(o)
    <2>1. op[o].pc = "publish" /\ head' = Append(head, marker) /\ Publishing(o)
      BY <1>1 DEF Publish, GitInv, StepInv
    <2>2. marker \in Commit /\ marker.by # a
      BY <2>1 DEF Publishing, GitInv, TypeOK
    <2> QED BY <2>1, <2>2
  <1>2. CASE CommitIndex(o)
    <2> DEFINE c == [tree |-> index, by |-> o]
    <2>1. c \in Commit /\ c.by # a
      BY DEF GitInv, TypeOK, Commit
    <2>2. head' = head \/ head' = Append(head, c)
      BY <1>2 DEF CommitIndex
    <2> HIDE DEF c
    <2> QED BY <2>1, <2>2
  <1> QED BY <1>1, <1>2
        DEF Begin, Retry, Enter, Answer, Recover, Ensured, RecoverWriting, RecoverFrom,
            ReplayFails, Prepare, Refuse, PublishFails, Replace, ReplaceFails, Clear, Stage,
            Compare, Reconcile, ReconcileFails, AdoptPrepare, Save, gitVars, StepOf

\* What an adoption's own step makes of it.
LEMMA OwnStepKeepsAdoption ==
    ASSUME GitInv, RevisionInv, AdoptionsInv, Retained, NEW a \in Adoption, StepOf(a),
           UNCHANGED broken \/ ReplaceFails(a)
    PROVE  AdoptionInv(a)'
  <1>1. ~Stage(a) /\ ~CommitIndex(a) /\ a \notin Editor /\ a \in Op
    BY WorkspaceAssumption DEF Stage, CommitIndex, GitInv, StepInv, Op
  <1>2. CASE ReplaceFails(a)
    BY <1>2, BreakingKeepsAdoption
  <1>3. CASE UNCHANGED broken /\ ~ReplaceFails(a)
    BY <1>1, <1>3, BeginKeepsAdoption, AdoptPrepareKeepsAdoption, PrepareKeepsAdoption,
       PublishKeepsAdoption, ReconcileKeepsAdoption, PassingKeepsAdoption, RecoverKeepsAdoption,
       FailingKeepsAdoption
    DEF StepOf
  <1> QED BY <1>2, <1>3

LEMMA AdoptionStep ==
    GitInv /\ RevisionInv /\ AdoptionsInv /\ [Next]_vars => AdoptionsInv'
  <1> SUFFICES ASSUME GitInv, RevisionInv, AdoptionsInv, [Next]_vars
               PROVE  AdoptionsInv'
    OBVIOUS
  <1>1. Retained /\ row \in [Adoption -> RowState]
    BY Retains DEF AdoptionsInv
  <1>2. ASSUME NEW o \in Op, StepOf(o), UNCHANGED broken \/ ReplaceFails(o)
        PROVE  AdoptionsInv'
    <2>1. ASSUME NEW a \in Adoption, a # o
          PROVE  AdoptionInv(a)'
      <3>1. op'[a] = op[a] /\ row'[a] = row[a]
        BY <1>2, <2>1, OnlyItself
      <3>2. head' = head \/ \E c \in Commit : c.by # a /\ head' = Append(head, c)
        BY <1>2, <2>1, HistoryOf
      <3>3. a \in broken' <=> a \in broken
        BY <1>2, <2>1 DEF ReplaceFails
      <3> QED BY <1>1, <3>1, <3>2, <3>3, WaitingAdoption
    <2>2. o \in Adoption => AdoptionInv(o)'
      BY <1>1, <1>2, OwnStepKeepsAdoption
    <2>3. row' \in [Adoption -> RowState]
      BY <1>2, OnlyItself
    <2> QED BY <2>1, <2>2, <2>3 DEF AdoptionsInv
  <1>3. CASE Crash /\ UNCHANGED broken
    <2>1. UNCHANGED <<head, row>>
      BY <1>3 DEF Crash, gitVars, dbVars
    <2>2. ASSUME NEW a \in Adoption
          PROVE  AdoptionInv(a)'
      <3>1. a \in Op /\ a \notin Editor /\ AdoptionInv(a)
        BY WorkspaceAssumption DEF Op, AdoptionsInv
      <3>2. /\ op'[a].files = op[a].files
            /\ op'[a].pc \in {"idle", "done", "failed"}
            /\ op'[a].pc = "idle" => op[a].pc = "idle"
        BY <1>3, <3>1 DEF Crash, Ended, GitInv, TypeOK
      <3>3. ~Starting(a)' /\ ~Working(a)'
        BY <3>2 DEF Starting, Working
      <3> QED BY <1>1, <1>3, <2>1, <3>1, <3>2, <3>3, OwnStep DEF AdoptionInv
    <2> QED BY <1>1, <2>1, <2>2 DEF AdoptionsInv
  <1>4. CASE (Restart \/ (\E p \in Path : HandEdit(p)) \/ UNCHANGED vars) /\ UNCHANGED broken
    <2>1. UNCHANGED <<head, row, op>>
      BY <1>4 DEF Restart, HandEdit, vars, gitVars, dbVars
    <2>2. \A a \in Adoption : AdoptionInv(a)'
      BY <1>1, <1>4, <2>1, WaitingAdoption
    <2> QED BY <1>1, <2>1, <2>2 DEF AdoptionsInv
  <1>5. CASE \E o \in Op : ReplaceFails(o)
    BY <1>2, <1>5 DEF StepOf
  <1> QED BY <1>2, <1>3, <1>4, <1>5, NextSteps, BreaksOnly

LEMMA AdoptionInitial == Init => AdoptionsInv
  <1> SUFFICES ASSUME Init, NEW a \in Adoption
               PROVE  AdoptionInv(a) /\ row \in [Adoption -> RowState]
    BY DEF Init, AdoptionsInv, RowState
  <1>1. /\ row[a] = "none" /\ op[a].pc = "idle" /\ row \in [Adoption -> RowState]
    BY DEF Init, Ended, Op, RowState
  <1>2. (\A i \in DOMAIN head : head[i].by = NoOne) /\ broken = {}
    BY DEF Init
  <1>3. a # NoOne
    BY WorkspaceAssumption DEF Op
  <1> QED BY <1>1, <1>2, <1>3 DEF AdoptionInv, Uncommitted, Starting, Working

\* Where an adoption stands, what its row says and what Git holds agree, but for a row
\* that a failed checkout and recovery left at failed.
THEOREM AdoptionInvariant == Spec => []AdoptionsInv
  BY AdoptionInitial, AdoptionStep, GitInvariant, RevisionInvariant, PTL DEF Spec

\* An adoption is in Git once or not at all, as its row says, and applied only with
\* its bytes registered, whatever stopped or failed in between; only a failed checkout
\* with a failed recovery leaves a commit whose row says failed.
THEOREM AdoptionsAreTold == Spec => []AdoptionTold
  <1>1. AdoptionsInv => AdoptionTold
    <2> SUFFICES ASSUME AdoptionsInv, NEW a \in Adoption
                 PROVE  LET commits == {i \in DOMAIN head : head[i].by = a}
                        IN  /\ Cardinality(commits) <= 1
                            /\ row[a] = "none" => commits = {}
                            /\ row[a] = "failed" => commits = {} \/ a \in broken
                            /\ row[a] = "conflicted" =>
                                 commits = {} \/ \E p \in DOMAIN op[a].files : Adopted(p)
                            /\ row[a] = "applied" =>
                                 /\ commits # {}
                                 /\ \A p \in DOMAIN op[a].files :
                                      \E i \in DOMAIN rev[p] :
                                         rev[p][i].content = op[a].files[p]
                            /\ a \in broken => commits # {} /\ row[a] = "failed"
      BY DEF AdoptionTold
    <2> DEFINE commits == {i \in DOMAIN head : head[i].by = a}
    <2>1. AdoptionInv(a)
      BY DEF AdoptionsInv
    <2>2. Uncommitted(a) <=> commits = {}
      BY DEF Uncommitted
    <2>3. Cardinality(commits) <= 1
      <3>1. CASE commits = {}
        <4>1. Cardinality(commits) = 0
          BY <3>1, FS_EmptySet
        <4> QED BY <4>1
      <3>2. CASE commits # {}
        <4>1. PICK i : i \in commits
          BY <3>2
        <4>2. \A j \in commits : {j} = {i}
          BY <2>1, <4>1 DEF AdoptionInv
        <4>3. commits = {i}
          BY <4>1, <4>2
        <4>4. Cardinality(commits) = 1
          BY <4>3, FS_Singleton
        <4> QED BY <4>4
      <3> QED BY <3>1, <3>2
    <2> HIDE DEF commits
    <2> QED BY <2>1, <2>2, <2>3 DEF AdoptionInv, commits
  <1> QED BY <1>1, AdoptionInvariant, PTL

=============================================================================
