-------------------------- MODULE MCDocumentCreate --------------------------
(***************************************************************************)
(* Instances of DocumentCreate for TLC: two requests side by side.         *)
(***************************************************************************)
EXTENDS DocumentCreate, TLC

Symmetry == Permutations(Docs)
=============================================================================
