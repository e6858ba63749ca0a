----------------------------- MODULE MCApiKeys -----------------------------
(***************************************************************************)
(* Instances of ApiKeys for TLC: two names, one of them written in two     *)
(* ways, and a blank one.                                                  *)
(***************************************************************************)
EXTENDS ApiKeys, TLC

CONSTANTS u1, u2, home, work, padded, spaces

MCStripped == (home :> home) @@ (work :> work) @@ (padded :> home) @@ (spaces :> Blank)

Symmetry == Permutations(KeyIds) \cup Permutations(Requests) \cup Permutations(Users)
=============================================================================
