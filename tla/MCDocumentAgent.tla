-------------------------- MODULE MCDocumentAgent --------------------------
(***************************************************************************)
(* Instances of DocumentAgent for TLC.                                     *)
(***************************************************************************)
EXTENDS DocumentAgent, TLC

Symmetry == Permutations(Jobs) \cup Permutations(Docs) \cup Permutations(Deletions)
=============================================================================
