---------------------------- MODULE MCParseJobs ----------------------------
(***************************************************************************)
(* Instances of ParseJobs for TLC.  Jobs, document ids and workers are     *)
(* interchangeable model values; the symmetry is used by the runs without  *)
(* liveness properties.  Two document ids are enough for two jobs: a job   *)
(* is started at most once and a started job draws one id, so none of the  *)
(* runs stops for want of one (TLC checks deadlock in all of them).        *)
(***************************************************************************)
EXTENDS ParseJobs, TLC

Symmetry == Permutations(Jobs) \cup Permutations(Docs) \cup Permutations(Workers)
=============================================================================
