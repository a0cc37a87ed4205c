---------------------------- MODULE MCWorkspace -----------------------------
EXTENDS Workspace, TLC
CONSTANTS a, b, absent, p, q, w1, g1, e1, d1, d2
\* One file that is there from the start and one that is not.
MCOrigin == p :> a @@ q :> absent
\* The writer and an adoption want different bytes for q and the same for p, which
\* another adoption wants too.
MCAsks ==
    w1 :> {p :> b @@ q :> a} @@ g1 :> {<<>>}
    @@ e1 :> {p :> b} @@ d1 :> {p :> b @@ q :> b} @@ d2 :> {p :> b}

=============================================================================
