---------------------------- MODULE VersionedStore ----------------------------
(***************************************************************************)
(* What the shared corpus promises its readers (models/corpus.py: the law  *)
(* in force, and the one in force when a past filing was submitted): the   *)
(* versions of a document are only ever added to, and a new one differs    *)
(* from the one it supersedes.                                             *)
(***************************************************************************)
EXTENDS Sequences, SequencesExt, Naturals

CONSTANT Doc

VARIABLE law   \* [Doc -> sequence of the contents of its versions]

\* Each version differs from the one before.
Progressive(versions) ==
    \A i \in 2..Len(versions) : versions[i] # versions[i-1]

Init == law = [d \in Doc |-> <<>>]

\* A transaction adds versions to some of the documents.
Amend ==
    /\ DOMAIN law' = Doc
    /\ \A d \in Doc : IsPrefix(law[d], law'[d]) /\ Progressive(law'[d])

Spec == Init /\ [][Amend]_law
=============================================================================
