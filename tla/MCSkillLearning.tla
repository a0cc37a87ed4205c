--------------------------- MODULE MCSkillLearning ---------------------------
EXTENDS SkillLearning

Failed == <<"failure", "failure">>

\* No skill; a candidate that failed its scan; an active version that is one
\* verdict from quarantine.
MCStart ==
    {[row |-> NoSkill, versions |-> <<>>],
     [row |-> [NoSkill EXCEPT !.there = TRUE], versions |-> <<Version(0, "fail")>>],
     [row |-> [NoSkill EXCEPT !.there = TRUE, !.active = 1],
      versions |-> <<[Version(0, "pass") EXCEPT !.history = Failed,
                                                !.quality = "degraded"]>>]}
==============================================================================
