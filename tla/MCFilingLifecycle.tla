------------------------- MODULE MCFilingLifecycle -------------------------
(***************************************************************************)
(* Model checking instances of FilingLifecycle.                            *)
(***************************************************************************)
EXTENDS FilingLifecycle, TLC

CONSTANTS rec1, match1, build1, build2, hr1

Kinds ==
    [r \in Run |-> CASE r = rec1 -> "recommend" [] r = match1 -> "match" [] OTHER -> "package"]
Targets == [h \in Human |-> IF h = hr1 THEN "recommendation" ELSE "package"]

\* Builds are alike.
Alike == Permutations({build1, build2})
=============================================================================
