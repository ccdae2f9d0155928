------------------------------ MODULE MCEvidence ------------------------------
(***************************************************************************)
(* Model checking instance of PackageCitations: two documents of one text, *)
(* and crews small enough to be explored and large enough to interfere.    *)
(***************************************************************************)
EXTENDS PackageCitations, TLC

CONSTANTS i1, i2, i3, m1, m2, g1, b1, b2, p1, p2, o1

\* Packages are built while a gap is resolved, or a mapping done, and the
\* profile is built again.
Sellers == {{g1, b1}, {b1, b2, m1}}

Teams == {{i1, i2, i3}, {i1, m1, m2}, {i1, m1, g1}, {i1, m1, b1}, {m1, b1, g1}, {b1, b2, m1},
          {b1, p1, p2}, {o1, b1, p1}} \cup Sellers

\* A mapping, a rebuild of the profile and the document they work with.
Builders == {{i1, m1, b1}}

Symmetry == Permutations(Doc) \cup Permutations(Requirement)
=============================================================================
