------------------------------ MODULE ApiKeys ------------------------------
(***************************************************************************)
(* The API keys of the users: AuthService.issue_api_key, revoke_api_key    *)
(* and rename_api_key, each a request of its own on a thread pool.  Every  *)
(* SELECT and every commit is a step, so a request acts on what it read    *)
(* before the others' commits; the unique index on (user_id, name) and the *)
(* row counts of UPDATE and DELETE are what it learns at its commit.       *)
(*                                                                         *)
(* A definition marked "deviant" is what the next one would be with a bug. *)
(***************************************************************************)
EXTENDS Naturals

CONSTANTS
  Users, KeyIds,
  RawNames,           \* names as clients write them
  Names,              \* names once stripped
  Stripped,           \* [RawNames -> Names, or Blank when nothing is left]
  Requests,           \* concurrent requests
  NoUser, NoKey, NoName, Blank

ASSUME KeyNulls     == NoUser \notin Users /\ NoKey \notin KeyIds /\ NoName \notin Names
ASSUME StrippedType == Stripped \in [RawNames -> Names \cup {Blank}] /\ Blank \notin Names

VARIABLES
  key,       \* [KeyIds -> row of user_api_keys, NoRow when there is none]
  drawn,     \* ids ever inserted (uuid4 never repeats one)
  request    \* [Requests -> local variables of the request]

keyVars == <<key, drawn, request>>

NoRow  == [owner |-> NoUser, name |-> NoName]
KeyRow == [owner : Users, name : Names] \cup {NoRow}

(***************************************************************************)
(* 201, 200, 204, 404, 409, 400, 500                                       *)
(***************************************************************************)
Answers == {"issued", "renamed", "revoked", "missing", "conflict", "invalid", "errored"}
RequestPcs == {"idle", "inserting", "inserted", "deleting", "loaded", "updating",
               "updated"} \cup Answers

Request == [pc : RequestPcs, user : Users \cup {NoUser}, key : KeyIds \cup {NoKey},
            name : Names \cup {NoName}]

At(r, pc) == request[r].pc = pc
Go(r, pc) == request' = [request EXCEPT ![r].pc = pc]

Asked(r, pc, u, k, n) ==
  request' = [request EXCEPT ![r] = [pc |-> pc, user |-> u, key |-> k, name |-> n]]

(* _normalize_api_key_name left nothing and raised *)
NeverBlank(n) == FALSE                 \* deviant
IsBlank(n)    == n = Blank

(* SELECT ... WHERE id = k AND user_id = u *)
Found(u, k) == key[k] # NoRow          \* deviant
Owned(u, k) == key[k].owner = u

(* SELECT ... WHERE user_id = u AND name = n AND id != k *)
Taken(u, n, k) == \E o \in KeyIds \ {k} : key[o] = [owner |-> u, name |-> n]

(* ix_user_api_keys_user_id_name refuses the row *)
NotIndexed(u, n, k) == FALSE           \* deviant
Refused(u, n, k)    == Taken(u, n, k)

(* _is_api_key_name_unique_violation recognises the index *)
Untranslated   == "errored"            \* deviant
NameViolation  == "conflict"

-----------------------------------------------------------------------------
(***************************************************************************)
(* issue_api_key                                                           *)
(***************************************************************************)
CheckIssue(r) ==
  /\ At(r, "idle")
  /\ \E u \in Users, raw \in RawNames :
       LET n == Stripped[raw]
       IN  \/ IsBlank(n) /\ Asked(r, "invalid", u, NoKey, NoName)
           \/ /\ ~IsBlank(n)
              /\ Asked(r, IF Taken(u, n, NoKey) THEN "conflict" ELSE "inserting", u, NoKey, n)
  /\ UNCHANGED <<key, drawn>>

CommitIssue(r) ==
  LET u == request[r].user
      n == request[r].name
  IN  /\ At(r, "inserting")
      /\ \/ \E k \in KeyIds \ drawn :
              /\ ~Refused(u, n, k)
              /\ key' = [key EXCEPT ![k] = [owner |-> u, name |-> n]]
              /\ drawn' = drawn \cup {k}
              /\ Asked(r, "inserted", u, k, n)
         \/ Refused(u, n, NoKey) /\ Go(r, NameViolation) /\ UNCHANGED <<key, drawn>>

-----------------------------------------------------------------------------
(***************************************************************************)
(* revoke_api_key                                                          *)
(***************************************************************************)
LoadRevoke(r) ==
  /\ At(r, "idle")
  /\ \E u \in Users, k \in KeyIds :
       Asked(r, IF Owned(u, k) THEN "deleting" ELSE "missing", u, k, NoName)
  /\ UNCHANGED <<key, drawn>>

(* a DELETE that matches no row is only a warning *)
CommitRevoke(r) ==
  /\ At(r, "deleting")
  /\ key' = [key EXCEPT ![request[r].key] = NoRow]
  /\ Go(r, "revoked")
  /\ UNCHANGED drawn

-----------------------------------------------------------------------------
(***************************************************************************)
(* rename_api_key: the key, then the other keys, then UPDATE and commit    *)
(***************************************************************************)
LoadRename(r) ==
  /\ At(r, "idle")
  /\ \E u \in Users, k \in KeyIds, raw \in RawNames :
       LET n == Stripped[raw]
       IN  \/ ~Owned(u, k) /\ Asked(r, "missing", u, k, NoName)
           \/ Owned(u, k) /\ IsBlank(n) /\ Asked(r, "invalid", u, k, NoName)
           \/ /\ Owned(u, k) /\ ~IsBlank(n)
              /\ Asked(r, IF key[k].name = n THEN "renamed" ELSE "loaded", u, k, n)
  /\ UNCHANGED <<key, drawn>>

CheckRename(r) ==
  LET m == request[r]
  IN  /\ At(r, "loaded")
      /\ Go(r, IF Taken(m.user, m.name, m.key) THEN "conflict" ELSE "updating")
      /\ UNCHANGED <<key, drawn>>

(* an UPDATE that matches no row raises StaleDataError, which nobody handles *)
Upserted(k)   == TRUE                  \* deviant: the row is written anyway
RowMatches(k) == key[k] # NoRow

CommitRename(r) ==
  LET m == request[r]
  IN  /\ At(r, "updating")
      /\ \/ /\ RowMatches(m.key) /\ ~Refused(m.user, m.name, m.key)
            /\ key' = [key EXCEPT ![m.key] = [owner |-> m.user, name |-> m.name]]
            /\ Go(r, "updated")
         \/ /\ RowMatches(m.key) /\ Refused(m.user, m.name, m.key)
            /\ key' = key /\ Go(r, NameViolation)
         \/ /\ ~RowMatches(m.key)
            /\ key' = key /\ Go(r, "errored")
      /\ UNCHANGED drawn

(* session.refresh after either commit raises when the row is gone again *)
RefreshKey(r) ==
  /\ \/ At(r, "inserted") /\ RowMatches(request[r].key) /\ Go(r, "issued")
     \/ At(r, "updated") /\ RowMatches(request[r].key) /\ Go(r, "renamed")
     \/ /\ At(r, "inserted") \/ At(r, "updated")
        /\ ~RowMatches(request[r].key) /\ Go(r, "errored")
  /\ UNCHANGED <<key, drawn>>

-----------------------------------------------------------------------------
Init == /\ key = [k \in KeyIds |-> NoRow]
        /\ drawn = {}
        /\ request = [r \in Requests |-> [pc |-> "idle", user |-> NoUser,
                                          key |-> NoKey, name |-> NoName]]

Next == \E r \in Requests : \/ CheckIssue(r) \/ CommitIssue(r)
                            \/ LoadRevoke(r) \/ CommitRevoke(r)
                            \/ LoadRename(r) \/ CheckRename(r) \/ CommitRename(r)
                            \/ RefreshKey(r)

Spec == Init /\ [][Next]_keyVars

-----------------------------------------------------------------------------
TypeOK == /\ key \in [KeyIds -> KeyRow]
          /\ drawn \subseteq KeyIds
          /\ request \in [Requests -> Request]

(***************************************************************************)
(* A user never has two keys of one name, although issue_api_key and       *)
(* rename_api_key look for the name before they write it.                  *)
(***************************************************************************)
NamesUnique ==
  \A k, o \in KeyIds : key[k] = key[o] /\ key[k] # NoRow => k = o

(***************************************************************************)
(* A revoked key never works again: no request that read it before the     *)
(* revocation writes its row back (rename_api_key against revoke_api_key). *)
(***************************************************************************)
RevokedForever ==
  [][\A k \in drawn : key[k] = NoRow => key'[k] = NoRow]_keyVars

(***************************************************************************)
(* A key is renamed or revoked only by a request of its owner that names   *)
(* this very key.                                                          *)
(***************************************************************************)
ChangedByOwner ==
  [][\A k \in KeyIds : key[k] # NoRow /\ key'[k] # key[k] =>
       \E r \in Requests : /\ request'[r] # request[r]
                           /\ request[r].key = k /\ request[r].user = key[k].owner]_keyVars

(***************************************************************************)
(* No request on keys ends in an internal error, unless its key was        *)
(* revoked under it: losing the race for a name is a conflict.             *)
(***************************************************************************)
ErrorsOnlyForRevoked ==
  \A r \in Requests : At(r, "errored") =>
    request[r].key \in drawn /\ key[request[r].key] = NoRow
=============================================================================
