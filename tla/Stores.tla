------------------------------- MODULE Stores -------------------------------
(***************************************************************************)
(* What the components share: the identities, the object keys they build   *)
(* and the ways in which a call to a subsystem can fail.                   *)
(***************************************************************************)
CONSTANTS
  Jobs,             \* job ids, one per upload request
  Docs,             \* document ids
  NoJob, NoDoc,     \* SQL NULL
  Refused,          \* subsystems whose calls may fail without effect
  Unacknowledged,   \* subsystems whose calls may fail after their effect
  Crashes           \* kinds of process that may stop at any point

Subsystems == {"storage", "db", "queue"}

ASSUME NullsDistinct == NoJob \notin Jobs /\ NoDoc \notin Docs
ASSUME FaultClasses  == /\ Refused \subseteq Subsystems
                        /\ Unacknowledged \subseteq Subsystems
                        /\ Crashes \subseteq {"api", "worker"}

(***************************************************************************)
(* A call that raises: to = old (no effect) or to = new (took effect).     *)
(***************************************************************************)
Fails(s) == s \in Refused \cup Unacknowledged

RaisesWith(s, old, new, to) == \/ s \in Refused /\ to = old
                               \/ s \in Unacknowledged /\ to = new

(***************************************************************************)
(* Object keys: parse-jobs/<job>/source/..., documents/<doc>/result/...    *)
(* document[d] names the job whose upload and parse result the documents   *)
(* row d holds, NoJob when there is no row.                                *)
(***************************************************************************)
Source(j)   == <<"source", j>>
Markdown(d) == <<"markdown", d>>
Json(d)     == <<"json", d>>
ResultKeys  == {"markdown", "json"} \X Docs
Keys        == ({"source"} \X Jobs) \cup ResultKeys
=============================================================================
