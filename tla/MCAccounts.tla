----------------------------- MODULE MCAccounts -----------------------------
(***************************************************************************)
(* Instances of Accounts for TLC: two addresses, one of them written in    *)
(* two ways, a malformed one, one API key of each user and an unknown one. *)
(***************************************************************************)
EXTENDS Accounts, TLC

CONSTANTS u1, u2, ann, annUpper, bob, noAddress, k1, k2, k3

MCNormalized == (ann :> ann) @@ (annUpper :> ann) @@ (bob :> bob) @@ (noAddress :> Malformed)
MCKeyOwner   == (k1 :> u1) @@ (k2 :> u2) @@ (k3 :> NoUser)

Symmetry == Permutations(Entries) \cup Permutations(Visits) \cup Permutations(Passwords)
=============================================================================
