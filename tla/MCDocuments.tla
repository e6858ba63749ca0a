---------------------------- MODULE MCDocuments ----------------------------
(***************************************************************************)
(* Instances of Documents for TLC.  Requests for different documents touch *)
(* different rows and keys, so one document with several requests on it    *)
(* has every interference there is.                                        *)
(***************************************************************************)
EXTENDS Documents, TLC

Symmetry == Permutations(Deletions) \cup Permutations(Readers)
=============================================================================
