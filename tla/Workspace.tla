----------------------------- MODULE Workspace ------------------------------
(***************************************************************************)
(* The Git workspace of one project and the revisions Core registers from  *)
(* it: core/src/workspace/git.ts and store.ts, api/workspace-handlers.ts   *)
(* and the adoption of a side task's result in api/side-task-handlers.ts.  *)
(*                                                                         *)
(* A request is a writer (an agent's batch of files), a registrar (one     *)
(* commit of everything pending), an editor (saves one file, no commit) or *)
(* an adoption.  Each holds the project's mutation lock for its whole      *)
(* length in a modern project; in a legacy one only adoptions exclude each *)
(* other and the Git part alone is serial (withProjectLock).  Core may     *)
(* stop between any two effects on Git or the database, and an update of a *)
(* ref, a checkout or a transaction may fail; while Core is down people    *)
(* edit and stage files by hand.                                           *)
(***************************************************************************)
EXTENDS Naturals, FiniteSets, Sequences, SequencesExt

CONSTANTS
    Path, Content,
    Absent,             \* the content of a path that is not there
    Origin,             \* [Path -> Content], the tree everything starts from
    Writer, Registrar, Editor, Adoption,
    Asks,               \* [Op -> sets of batches], what each request may carry
    NoOne,
    MaxCommits,         \* commits after the first
    MaxEdits,           \* edits and stagings by people
    MaxCrashes,
    MaxFails            \* failures of Git and of transactions

Op == Writer \cup Registrar \cup Editor \cup Adoption

\* A batch gives some paths new bytes; an adoption's differ from the originals.
Batch == UNION {[S -> Content \ {Absent}] : S \in SUBSET Path}

Commit == [tree : [Path -> Content], by : Op \cup {NoOne}]

ASSUME WorkspaceAssumption ==
    /\ Absent \in Content
    /\ Origin \in [Path -> Content]
    /\ Asks \in [Op -> SUBSET Batch]
    /\ \A a \in Adoption : \A files \in Asks[a] :
          DOMAIN files # {} /\ \A p \in DOMAIN files : files[p] # Origin[p]
    /\ \A e \in Editor : \A files \in Asks[e] : \E p \in Path : DOMAIN files = {p}
    /\ Writer \cap (Registrar \cup Editor \cup Adoption) = {}
    /\ Registrar \cap (Editor \cup Adoption) = {}
    /\ Editor \cap Adoption = {}
    /\ NoOne \notin Op \cup Commit
    /\ {MaxCommits, MaxEdits, MaxCrashes, MaxFails} \subseteq Nat

VARIABLES
    modern,     \* whether the project is a modern P4 one
    up,         \* whether Core is running
    head,       \* the commits from the first to HEAD
    marker,     \* refs/synthia/workspace-publish: a commit, or NoOne
    index, work,
    session,    \* the holder of the project's mutation lock
    git,        \* the holder of withProjectLock
    op,         \* each request: where it is, its files, its commit, where a
                \* recovery returns to, the paths it found to need a revision
    row,        \* task_adoption.state
    rev,        \* the revisions of each path, oldest first
    saves,      \* how often people changed a file
    broken,     \* the adoptions whose checkout and its recovery both failed
    budget      \* what is left of each bound

vars == <<modern, up, head, marker, index, work, session, git, op, row, rev,
          saves, broken, budget>>
gitVars == <<head, marker, index, work>>
dbVars == <<row, rev>>

Tip == Last(head).tree

\* A request that is over: only its files stay, for a repetition.
Ended(pc, files) ==
    [pc |-> pc, files |-> files, commit |-> 0, back |-> "git", fresh |-> {}]

Init ==
    /\ modern \in BOOLEAN
    /\ up = TRUE
    /\ head = <<[tree |-> Origin, by |-> NoOne]>>
    /\ marker = NoOne
    /\ index = Origin /\ work = Origin
    /\ session = NoOne /\ git = NoOne
    /\ op = [o \in Op |-> Ended("idle", <<>>)]
    /\ row = [a \in Adoption |-> "none"]
    /\ rev = [p \in Path |-> <<>>]
    /\ saves = 0
    /\ broken = {}
    /\ budget = [edits |-> MaxEdits, crashes |-> MaxCrashes, fails |-> MaxFails]

Spend(what) ==
    /\ budget[what] > 0
    /\ budget' = [budget EXCEPT ![what] = @ - 1]

Goto(o, pc) == op' = [op EXCEPT ![o].pc = pc]
GotoAt(o, pc, n) == op' = [op EXCEPT ![o].pc = pc, ![o].commit = n]

\* Bug: only adoptions take the lock, whatever the project.
ExclusiveForAdoptions(o) == o \in Adoption

\* The lock that a request holds from end to end.
Exclusive(o) == modern \/ o \in Adoption

\* A request ends and gives its lock back.
Leave(o, pc) ==
    /\ op' = [op EXCEPT ![o] = Ended(pc, IF pc = "idle" THEN <<>> ELSE @.files)]
    /\ session' = IF session = o THEN NoOne ELSE session
    /\ UNCHANGED <<modern, up>>

-----------------------------------------------------------------------------
(* Arrival                                                                 *)

Enter(o, files) ==
    /\ up
    /\ IF Exclusive(o) THEN session = NoOne /\ session' = o ELSE UNCHANGED session
    /\ op' = [op EXCEPT ![o].pc = "git", ![o].files = files]
    /\ UNCHANGED <<modern, up, gitVars, git, dbVars>>

\* A new request; editors come back, the others have one key each.
Begin(o) ==
    /\ op[o].pc = "idle"
    /\ \E files \in Asks[o] : Enter(o, files)
    /\ IF o \in Editor THEN Spend("edits") ELSE UNCHANGED budget

\* The same request under the same key, after an error or a restart.
Retry(o) ==
    /\ op[o].pc = "failed"
    /\ Enter(o, op[o].files)
    /\ UNCHANGED budget

-----------------------------------------------------------------------------
(* ensureWorkspace and recoverWorkspacePublish                             *)

Published == marker # NoOne /\ marker = Last(head)
Parent == head[Len(head) - 1].tree
Changed == {p \in Path : marker.tree[p] # Parent[p]}

\* Bug: the recovery replays the commit over whatever it finds.
RecoverableAnyway == TRUE

\* Every changed path still is the parent's or the marker's version.
Recoverable ==
    \A p \in Changed : {index[p], work[p]} \subseteq {Parent[p], marker.tree[p]}

AtGit(o, pc) ==
    /\ up
    /\ op[o].pc = pc
    /\ git = NoOne

\* What an error after the adoption's first transaction does to its row.
Told(o, state) == row' = IF o \in Adoption THEN [row EXCEPT ![o] = state] ELSE row

\* An error of a recovery that returns to a given place.
RecoveryError(o, back, state) ==
    /\ Leave(o, "failed")
    /\ IF back = "git" THEN UNCHANGED row ELSE Told(o, state)

\* From a given place: a marker that is not HEAD is dropped, one that is HEAD is
\* replayed, and a change under it is an error that leaves the marker.
RecoverFrom(o, back) ==
    /\ marker # NoOne
    /\ \/ /\ ~Published
          /\ marker' = NoOne
          /\ Goto(o, back)
          /\ git' = IF back = "prepare" THEN o ELSE NoOne
          /\ UNCHANGED <<modern, up, session, row>>
       \/ /\ Published /\ Recoverable
          /\ git' = o
          /\ op' = [op EXCEPT ![o].pc = "replay", ![o].back = back]
          /\ UNCHANGED <<modern, up, session, marker, row>>
       \/ /\ Published /\ ~Recoverable
          /\ RecoveryError(o, back, "conflicted")
          /\ UNCHANGED <<git, marker>>
    /\ UNCHANGED <<head, index, work, rev, budget>>

\* An adoption whose row says how it ended does nothing more.
Decided(o) == o \in Adoption /\ row[o] \in {"applied", "conflicted", "failed"}

Answer(o) ==
    /\ up /\ op[o].pc = "git"
    /\ Decided(o)
    /\ Leave(o, "done")
    /\ UNCHANGED <<gitVars, git, dbVars, budget>>

\* ensureWorkspace; an adoption passes it again in writeAndCommit.
Ensuring(o, pc) == AtGit(o, pc) /\ ~Decided(o)

Recover(o) == \E pc \in {"git", "again"} : Ensuring(o, pc) /\ RecoverFrom(o, pc)

\* Nothing is half published when the request goes on.
Ensured(o) ==
    /\ \E pc \in {"git", "again"} :
          /\ Ensuring(o, pc)
          /\ Goto(o, IF pc = "git" /\ o \in Adoption THEN "adopt" ELSE "write")
    /\ marker = NoOne
    /\ UNCHANGED <<modern, up, gitVars, session, git, dbVars, budget>>

\* Git fails while a commit is replayed; the marker stays.
ReplayFails(o) ==
    /\ up /\ op[o].pc \in {"replay", "cleared"}
    /\ Spend("fails")
    /\ RecoveryError(o, op[o].back, "failed")
    /\ git' = NoOne
    /\ UNCHANGED <<gitVars, rev>>

-----------------------------------------------------------------------------
(* writeAndCommit and commitFilesAtomically                                *)

Dirty(p) == index[p] # Tip[p] \/ work[p] # Tip[p]

\* A batch may overwrite a file only when it is clean or holds the same bytes;
\* an adoption's guards also refuse any pending change and any other content.
Refused(o, files) ==
    \/ \E p \in DOMAIN files : Dirty(p) /\ work[p] # files[p]
    \/ o \in Adoption /\ \E p \in DOMAIN files : Dirty(p) \/ work[p] # Origin[p]

\* The tree of the new commit: HEAD's with the batch, built in an index of its own.
NewTree(files) == [p \in Path |-> IF p \in DOMAIN files THEN files[p] ELSE Tip[p]]

Writing(o) == o \in Writer \cup Adoption /\ AtGit(o, "write")

\* In a legacy project another request may have left a marker since
\* ensureWorkspace: the files are looked at first, then it is recovered.
RecoverWriting(o) ==
    /\ Writing(o)
    /\ ~Refused(o, op[o].files)
    /\ RecoverFrom(o, "prepare")

Prepare(o) ==
    /\ \/ Writing(o) /\ marker = NoOne /\ ~Refused(o, op[o].files)
       \/ up /\ op[o].pc = "prepare"
    /\ IF NewTree(op[o].files) = Tip
       THEN /\ GotoAt(o, "register", Len(head))
            /\ git' = NoOne
            /\ UNCHANGED marker
       ELSE /\ Len(head) <= MaxCommits
            /\ marker' = [tree |-> NewTree(op[o].files), by |-> o]
            /\ git' = o
            /\ Goto(o, "publish")
    /\ UNCHANGED <<modern, up, head, index, work, session, dbVars, budget>>

\* The adoption's row takes the outcome in a transaction of its own.
Refuse(o) ==
    /\ Writing(o)
    /\ Refused(o, op[o].files)
    /\ Told(o, "conflicted")
    /\ Leave(o, "failed")
    /\ UNCHANGED <<gitVars, git, rev, budget>>

\* HEAD moves to the commit the marker names, by compare-and-swap.
Publish(o) ==
    /\ up /\ op[o].pc = "publish"
    /\ head' = Append(head, marker)
    /\ GotoAt(o, "replace", Len(head) + 1)
    /\ UNCHANGED <<modern, up, marker, index, work, session, git, dbVars, budget>>

\* The compare-and-swap fails; so may the removal of the marker.
PublishFails(o) ==
    /\ up /\ op[o].pc = "publish"
    /\ Spend("fails")
    /\ marker' \in {NoOne, marker}
    /\ git' = NoOne
    /\ Told(o, "failed")
    /\ Leave(o, "failed")
    /\ UNCHANGED <<head, index, work, rev>>

\* git checkout of the commit's paths, one file at a time and the index last.
Replace(o) ==
    /\ up /\ op[o].pc \in {"replace", "replay"}
    /\ \/ \E p \in Changed :
             /\ work[p] # marker.tree[p]
             /\ work' = [work EXCEPT ![p] = marker.tree[p]]
             /\ UNCHANGED <<index, op>>
       \/ /\ \A p \in Changed : work[p] = marker.tree[p]
          /\ index' = [p \in Path |-> IF p \in Changed THEN marker.tree[p] ELSE index[p]]
          /\ Goto(o, IF op[o].pc = "replace" THEN "clear" ELSE "cleared")
          /\ UNCHANGED work
    /\ UNCHANGED <<modern, up, head, marker, session, git, dbVars, budget>>

\* The checkout or the removal of the marker fails, and so does the recovery
\* that is tried at once: the marker stays, the caller gets the error.
ReplaceFails(o) ==
    /\ up /\ op[o].pc \in {"replace", "clear"}
    /\ Spend("fails")
    /\ git' = NoOne
    /\ broken' = broken \cup ({o} \cap Adoption)
    /\ Told(o, IF Recoverable THEN "failed" ELSE "conflicted")
    /\ Leave(o, "failed")
    /\ UNCHANGED <<gitVars, rev>>

\* The marker goes; a recovering request goes back, the publisher goes on.
Clear(o) ==
    /\ up /\ op[o].pc \in {"clear", "cleared"}
    /\ marker' = NoOne
    /\ LET next == IF op[o].pc = "clear" THEN "register" ELSE op[o].back
       IN  /\ Goto(o, next)
           /\ git' = IF next = "prepare" THEN o ELSE NoOne
    /\ UNCHANGED <<modern, up, head, index, work, session, dbVars, budget>>

-----------------------------------------------------------------------------
(* The editor and the registrar                                            *)

\* putWorkspaceFileHandler: to disk only.
Save(o) ==
    /\ o \in Editor
    /\ AtGit(o, "write")
    /\ work' = [p \in Path |-> IF p \in DOMAIN op[o].files THEN op[o].files[p] ELSE work[p]]
    /\ saves' = saves + 1
    /\ Leave(o, "idle")
    /\ UNCHANGED <<head, marker, index, git, dbVars, budget>>

\* commitPending: git add of every pending path that is on disk; no look at the
\* marker here.
Stage(o) ==
    /\ o \in Registrar
    /\ AtGit(o, "write")
    /\ LET pending == {p \in Path : Dirty(p) /\ work[p] # Absent}
       IN  IF pending = {}
           THEN /\ GotoAt(o, "register", Len(head))
                /\ UNCHANGED <<index, git>>
           ELSE /\ index' = [p \in Path |-> IF p \in pending THEN work[p] ELSE index[p]]
                /\ git' = o
                /\ Goto(o, "commit")
    /\ UNCHANGED <<modern, up, head, marker, work, session, dbVars, budget>>

\* git commit of the index; with nothing staged there is no commit and the
\* handler answers with an error.
CommitIndex(o) ==
    /\ up /\ op[o].pc = "commit"
    /\ git' = NoOne
    /\ IF index = Tip
       THEN Leave(o, "failed") /\ UNCHANGED head
       ELSE /\ Len(head) <= MaxCommits
            /\ head' = Append(head, [tree |-> index, by |-> o])
            /\ GotoAt(o, "register", Len(head) + 1)
            /\ UNCHANGED <<modern, up, session>>
    /\ UNCHANGED <<marker, index, work, dbVars, budget>>

-----------------------------------------------------------------------------
(* Adoption: the row before Git, the revisions after it                    *)

\* Bug: the interrupted commit is looked for at HEAD only.
RecoveredAtHead(a) ==
    {i \in {Len(head)} \ {1} :
        /\ head[i].by = a
        /\ \A p \in DOMAIN op[a].files : head[i].tree[p] = op[a].files[p]}

\* findRecoveredAdoptionCommit: the commit an interrupted attempt left behind.
Recovered(a) ==
    {i \in 2..Len(head) :
        /\ head[i].by = a
        /\ {p \in Path : head[i].tree[p] # head[i - 1].tree[p]} = DOMAIN op[a].files
        /\ \A p \in DOMAIN op[a].files :
              /\ head[i - 1].tree[p] = Origin[p]
              /\ head[i].tree[p] = op[a].files[p]}

Adopted(p) == \E b \in Adoption : row[b] = "applied" /\ p \in DOMAIN op[b].files

\* The targets are read without the Git lock; the guards look again under it.
\* What another adoption has taken is refused even when the commit is found.
AdoptPrepare(a) ==
    /\ up /\ op[a].pc = "adopt"
    /\ LET taken == \E p \in DOMAIN op[a].files : Adopted(p)
           found == row[a] = "applying" /\ Cardinality(Recovered(a)) = 1
           moved == \E p \in DOMAIN op[a].files : work[p] # Origin[p]
       IN  \/ /\ taken \/ (moved /\ ~found)
              /\ row' = [row EXCEPT ![a] = "conflicted"]
              /\ Leave(a, "failed")
           \/ /\ found /\ ~taken
              /\ GotoAt(a, "register", CHOOSE i \in Recovered(a) : TRUE)
              /\ UNCHANGED <<modern, up, session, row>>
           \/ /\ ~taken /\ ~found /\ ~moved
              /\ row' = [row EXCEPT ![a] = "applying"]
              /\ Goto(a, "again")
              /\ UNCHANGED <<modern, up, session>>
    /\ UNCHANGED <<gitVars, git, rev, budget>>

-----------------------------------------------------------------------------
(* The database                                                            *)

Scope(o) == IF o \in Registrar THEN Path ELSE DOMAIN op[o].files

\* The paths of which the latest revision is not what the request's commit has.
Fresh(o) ==
    {p \in Scope(o) :
        LET c == head[op[o].commit].tree[p]
        IN  c # Absent /\ (rev[p] = <<>> \/ Last(rev[p]).content # c)}

\* reconcileIntoRevisions reads the latest revisions and decides, with no lock.
Compare(o) ==
    /\ up /\ op[o].pc = "register"
    /\ op' = [op EXCEPT ![o].pc = "append", ![o].fresh = Fresh(o)]
    /\ UNCHANGED <<modern, up, gitVars, session, git, dbVars, budget>>

\* Bug: the bytes are read from disk.
NewRevisionsOfDisk(o) ==
    [p \in Path |->
        IF p \in op[o].fresh
        THEN Append(rev[p], [content |-> work[p], commit |-> op[o].commit, by |-> o])
        ELSE rev[p]]

\* What it has decided, each under the next version of its artifact.
NewRevisions(o) ==
    [p \in Path |->
        IF p \in op[o].fresh
        THEN Append(rev[p], [content |-> head[op[o].commit].tree[p],
                             commit |-> op[o].commit, by |-> o])
        ELSE rev[p]]

\* The artifacts are locked one by one until the transaction commits; the
\* adoption's row is of the same transaction.
Reconcile(o) ==
    /\ up /\ op[o].pc = "append"
    /\ rev' = NewRevisions(o)
    /\ Told(o, "applied")
    /\ Leave(o, "done")
    /\ UNCHANGED <<gitVars, git, budget>>

\* The transaction is rolled back, with the idempotency record.
ReconcileFails(o) ==
    /\ up /\ op[o].pc \in {"register", "append"}
    /\ Spend("fails")
    /\ Leave(o, "failed")
    /\ UNCHANGED <<gitVars, git, dbVars>>

-----------------------------------------------------------------------------
(* Stops, restarts and hands on the files                                  *)

Crash ==
    /\ up
    /\ Spend("crashes")
    /\ up' = FALSE
    /\ session' = NoOne /\ git' = NoOne
    /\ op' = [o \in Op |-> IF op[o].pc \in {"idle", "done"} THEN op[o]
                           ELSE Ended(IF o \in Editor THEN "idle" ELSE "failed",
                                      op[o].files)]
    /\ UNCHANGED <<modern, gitVars, dbVars>>

Restart ==
    /\ ~up
    /\ up' = TRUE
    /\ UNCHANGED <<modern, gitVars, session, git, op, dbVars, budget>>

HandEdit(p) ==
    /\ ~up
    /\ Spend("edits")
    /\ \/ \E c \in Content \ {Absent, work[p]} :
             work' = [work EXCEPT ![p] = c] /\ saves' = saves + 1 /\ UNCHANGED index
       \/ /\ index[p] # work[p]
          /\ index' = [index EXCEPT ![p] = work[p]]
          /\ UNCHANGED <<work, saves>>
    /\ UNCHANGED <<modern, up, head, marker, session, git, op, dbVars>>

Machine ==
    \/ \E o \in Op :
          \/ Begin(o) \/ Retry(o) \/ Answer(o)
          \/ Recover(o) \/ Ensured(o) \/ RecoverWriting(o) \/ ReplayFails(o)
          \/ Prepare(o) \/ Refuse(o) \/ Publish(o) \/ PublishFails(o)
          \/ Replace(o) \/ Clear(o)
          \/ Stage(o) \/ CommitIndex(o)
          \/ Compare(o) \/ Reconcile(o) \/ ReconcileFails(o)
    \/ \E a \in Adoption : AdoptPrepare(a)
    \/ Crash \/ Restart

Breaks == \E o \in Op : ReplaceFails(o)

People == (\E o \in Editor : Save(o)) \/ (\E p \in Path : HandEdit(p))

Next ==
    \/ People /\ UNCHANGED broken
    \/ Machine /\ UNCHANGED <<saves, broken>>
    \/ Breaks /\ UNCHANGED saves

Spec == Init /\ [][Next]_vars

-----------------------------------------------------------------------------
(* Properties                                                              *)

\* The files, with those of a half done publication as the recovery leaves them.
Desk ==
    [p \in Path |->
        IF Published /\ p \in Changed /\ work[p] = Parent[p]
        THEN marker.tree[p] ELSE work[p]]

Promise ==
    INSTANCE WorkspacePromise
    WITH tree <- Tip, desk <- Desk,
         Batches <- UNION {Asks[o] : o \in Writer \cup Adoption}

\* A legacy project's registrar was past ensureWorkspace when a publication was
\* left half done, and commits what is staged (commitPending).
CommitsOver == ~modern /\ Published /\ \E g \in Registrar : CommitIndex(g)

\* Publication is atomic and no saved edit is lost: every step is, on Desk, one
\* of WorkspacePromise (recoverWorkspacePublish and the dirty check of
\* writeAndCommit), but for a legacy project's commit over a half done one.
KeepsPromise == Promise!Init /\ [][Promise!Next \/ CommitsOver]_(Promise!vars)

\* A revision is the bytes of its path in the commit its content_location
\* names, whatever failed between Git and the database, and in a modern project
\* no two in a row are the same bytes (reconcileIntoRevisions reads the tree, and
\* decides before it locks).
RevisionsAreCommitted ==
    \A p \in Path : \A i \in DOMAIN rev[p] :
        /\ rev[p][i].content = head[rev[p][i].commit].tree[p]
        /\ modern /\ i > 1 => rev[p][i].content # rev[p][i - 1].content

\* In a modern project a newer version of an artifact is never an older
\* commit, but for an adoption that is finished after a crash
\* (withP4WorkspaceMutationLock covers the commit and the registration).
RevisionsFollowHistory ==
    modern =>
        \A p \in Path : \A i \in 2..Len(rev[p]) :
            rev[p][i].by \notin Adoption => rev[p][i - 1].commit < rev[p][i].commit

\* What an adoption's row says is what Git did: applied once and registered, or
\* not at all (adoptSideTaskHandler, findRecoveredAdoptionCommit).  Only when the
\* checkout of its commit and the recovery both failed does the row deny a
\* commit that HEAD has, and then for good (catch of commitFilesAtomically).
AdoptionTold ==
    \A a \in Adoption :
        LET commits == {i \in DOMAIN head : head[i].by = a}
        IN  /\ Cardinality(commits) <= 1
            /\ row[a] = "none" => commits = {}
            /\ row[a] = "failed" => commits = {} \/ a \in broken
            /\ row[a] = "conflicted" =>
                  commits = {} \/ \E p \in DOMAIN op[a].files : Adopted(p)
            /\ row[a] = "applied" =>
                  /\ commits # {}
                  /\ \A p \in DOMAIN op[a].files :
                        \E i \in DOMAIN rev[p] : rev[p][i].content = op[a].files[p]
            /\ a \in broken => commits # {} /\ row[a] = "failed"

=============================================================================
