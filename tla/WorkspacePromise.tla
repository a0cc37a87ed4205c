-------------------------- MODULE WorkspacePromise --------------------------
(***************************************************************************)
(* What the project workspace promises whoever reads it between two        *)
(* operations: a batch of files is published whole, and a saved edit stays *)
(* until it is registered or edited again (core/src/workspace).            *)
(***************************************************************************)
EXTENDS Naturals

CONSTANTS
    Path, Content,
    Batches     \* the batches of files somebody may ask to publish

VARIABLES
    tree,   \* the registered content of every path
    desk,   \* the content a reader of the workspace finds
    saves   \* how often people changed a file

vars == <<tree, desk, saves>>

Init ==
    /\ tree \in [Path -> Content]
    /\ desk = tree
    /\ saves = 0

\* An edit of one file, by hand or through the editor.
Save(p, c) ==
    /\ desk' = [desk EXCEPT ![p] = c]
    /\ saves' = saves + 1
    /\ UNCHANGED tree

With(files, base) == [p \in Path |-> IF p \in DOMAIN files THEN files[p] ELSE base[p]]

\* A batch is published: only over files without an unregistered edit.
Publish(files) ==
    /\ \A p \in DOMAIN files : desk[p] \in {tree[p], files[p]}
    /\ tree' = With(files, tree)
    /\ desk' = With(files, desk)
    /\ UNCHANGED saves

\* The edits of some files are registered.
Register(paths) ==
    /\ tree' = [p \in Path |-> IF p \in paths THEN desk[p] ELSE tree[p]]
    /\ UNCHANGED <<desk, saves>>

Next ==
    \/ \E p \in Path, c \in Content : Save(p, c)
    \/ \E paths \in SUBSET Path : Register(paths)
    \/ \E files \in Batches : Publish(files)

Spec == Init /\ [][Next]_vars
=============================================================================
