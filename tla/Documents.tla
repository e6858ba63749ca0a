----------------------------- MODULE Documents -----------------------------
(***************************************************************************)
(* DocumentService as the API uses it on documents made by the worker: the *)
(* delete that removes three objects and a row and undoes what it did when *)
(* a later call fails, and the reads of source and result that run beside  *)
(* it.  Endpoints are synchronous functions on a thread pool, so requests  *)
(* interleave between any two calls.  Every request is the owner's or ends *)
(* like a request for an unknown id: 404.                                  *)
(***************************************************************************)
EXTENDS Stores, Naturals, Sequences

CONSTANTS Deletions,   \* DELETE /documents/{id} requests
          Readers      \* GET .../source, .../result and .../download requests

VARIABLES
  document,   \* [Docs -> job of the documents row, NoJob when there is none]
  objects,    \* keys present in the object storage
  removal,    \* [Deletions -> local variables of delete_document]
  reading     \* [Readers -> local variables of the reading request]

docVars == <<document, objects, removal, reading>>

(* A definition marked "deviant" is what the next one would be with a bug. *)
OnlyMarkdownOf(d) == <<Markdown(d)>>                        \* deviant
RepeatedKeysOf(d) == <<Markdown(d), Json(d), Markdown(d)>>  \* deviant
ResultKeysOf(d)   == <<Markdown(d), Json(d)>>

(***************************************************************************)
(* delete_document.  keys is what _collect_object_keys returned, at the    *)
(* position of the loop over it; backup, deleted and lost are              *)
(* backup_payloads, deleted_keys and restore_failed_keys # [].             *)
(***************************************************************************)
DeletionAnswers == {"deleted", "notFound", "failed", "rollbackFailed"}
DeletionPcs == {"idle", "found", "backup", "delete", "commit", "restore",
                "crashed", "crashedRestoring"} \cup DeletionAnswers

Removal == [pc : DeletionPcs, doc : Docs \cup {NoDoc}, keys : Seq(Keys),
            at : 1..3, backup : SUBSET Keys, deleted : SUBSET Keys,
            lost : BOOLEAN]

IdleRemoval == [pc |-> "idle", doc |-> NoDoc, keys |-> <<>>, at |-> 1,
                backup |-> {}, deleted |-> {}, lost |-> FALSE]

RemovalAt(r, pc) == removal[r].pc = pc
RemovalGo(r, pc) == removal' = [removal EXCEPT ![r].pc = pc]

KeyAt(r) == removal[r].keys[removal[r].at]

(* the loop over keys goes on, or its successor starts at the first key *)
Advanced(m, next) == IF m.at < Len(m.keys) THEN [m EXCEPT !.at = @ + 1]
                                           ELSE [m EXCEPT !.pc = next, !.at = 1]

(* SELECT of the documents row, by id and owner *)
FindDocument(r) ==
  /\ RemovalAt(r, "idle")
  /\ \/ \E d \in Docs :
          /\ document[d] # NoJob
          /\ removal' = [removal EXCEPT ![r].pc = "found", ![r].doc = d,
                           ![r].keys = <<Source(document[d])>>]
     \/ RemovalGo(r, "notFound")
     \/ Fails("db") /\ RemovalGo(r, "failed")
  /\ UNCHANGED <<document, objects, reading>>

(* _collect_object_keys: document.result is a second, lazy SELECT *)
CollectObjectKeys(r) ==
  LET d == removal[r].doc
  IN  /\ RemovalAt(r, "found")
      /\ \/ removal' = [removal EXCEPT ![r].pc = "backup",
              ![r].keys = IF document[d] # NoJob THEN @ \o ResultKeysOf(d) ELSE @]
         \/ Fails("db") /\ RemovalGo(r, "failed")
      /\ UNCHANGED <<document, objects, reading>>

(* _delete_objects_strict, first loop: get_bytes; a missing object is skipped *)
BackupObject(r) ==
  LET saved(m) == [m EXCEPT !.backup = @ \cup ({KeyAt(r)} \cap objects)]
  IN  /\ RemovalAt(r, "backup")
      /\ \/ removal' = [removal EXCEPT ![r] = saved(Advanced(@, "delete"))]
         \/ Fails("storage") /\ RemovalGo(r, "failed")
      /\ UNCHANGED <<document, objects, reading>>

(* _delete_objects_strict, second loop.  Deleting a missing object succeeds; *)
(* LocalObjectStorage, which looks before it unlinks, may also report it as  *)
(* missing, and the key is then not counted as deleted                       *)
Forgotten(deleted, key) == deleted             \* deviant
Deleted(deleted, key)   == deleted \cup {key}  \* deleted_keys.append(key)

DeleteObject(r) ==
  LET key == KeyAt(r)
      gone(m) == [m EXCEPT !.deleted = Deleted(@, key)]
  IN  /\ RemovalAt(r, "delete")
      /\ \/ /\ objects' = objects \ {key}
            /\ removal' = [removal EXCEPT ![r] = gone(Advanced(@, "commit"))]
         \/ /\ key \notin objects /\ objects' = objects
            /\ removal' = [removal EXCEPT ![r] = Advanced(@, "commit")]
         \/ /\ RaisesWith("storage", objects, objects \ {key}, objects')
            /\ RemovalGo(r, "restore")
      /\ UNCHANGED <<document, reading>>

(* session.delete(document); session.commit(): documents and document_results. *)
(* Deleting rows that another request has deleted is only a warning.           *)
CommitDelete(r) ==
  LET removed == [document EXCEPT ![removal[r].doc] = NoJob]
  IN  /\ RemovalAt(r, "commit")
      /\ \/ document' = removed /\ RemovalGo(r, "deleted")
         \/ RaisesWith("db", document, removed, document') /\ RemovalGo(r, "restore")
      /\ UNCHANGED <<objects, reading>>

(* _restore_objects_best_effort, one key a step *)
RestoreObject(r) ==
  LET pending == removal[r].deleted
      forget(key) == removal' = [removal EXCEPT ![r].deleted = @ \ {key}]
      lose(key) == removal' = [removal EXCEPT ![r].deleted = @ \ {key}, ![r].lost = TRUE]
  IN  /\ RemovalAt(r, "restore")
      /\ \/ \E key \in pending :
              \/ /\ key \in removal[r].backup
                 /\ objects' = objects \cup {key} /\ forget(key)
              \/ /\ key \notin removal[r].backup
                 /\ objects' = objects /\ lose(key)
              \/ /\ key \in removal[r].backup
                 /\ RaisesWith("storage", objects, objects \cup {key}, objects')
                 /\ lose(key)
         \/ /\ pending = {} /\ objects' = objects
            /\ RemovalGo(r, IF removal[r].lost THEN "rollbackFailed" ELSE "failed")
      /\ UNCHANGED <<document, reading>>

CrashRemoval(r) ==
  /\ "api" \in Crashes
  /\ removal[r].pc \in {"found", "backup", "delete", "commit", "restore"}
  /\ RemovalGo(r, IF RemovalAt(r, "restore") THEN "crashedRestoring" ELSE "crashed")
  /\ UNCHANGED <<document, objects, reading>>

DeleteDocument(r) == \/ FindDocument(r) \/ CollectObjectKeys(r) \/ BackupObject(r)
                     \/ DeleteObject(r) \/ CommitDelete(r) \/ RestoreObject(r)

-----------------------------------------------------------------------------
(***************************************************************************)
(* get_document_source and get_document_result, of documents without       *)
(* inline payloads (the worker stores none).  wants is the objects still   *)
(* to be read.                                                             *)
(***************************************************************************)
ReaderPcs == {"idle", "reading", "ok", "notFound", "unavailable"}

Reading == [pc : ReaderPcs, doc : Docs \cup {NoDoc}, wants : Seq(Keys)]

IdleReading == [pc |-> "idle", doc |-> NoDoc, wants |-> <<>>]

OpenDocument(g) ==
  /\ reading[g].pc = "idle"
  /\ \/ \E d \in Docs :
          /\ document[d] # NoJob
          /\ \E keys \in {<<Source(document[d])>>, ResultKeysOf(d)} :
               reading' = [reading EXCEPT ![g] =
                             [pc |-> "reading", doc |-> d, wants |-> keys]]
     \/ reading' = [reading EXCEPT ![g].pc = "notFound"]
     \/ Fails("db") /\ reading' = [reading EXCEPT ![g].pc = "unavailable"]
  /\ UNCHANGED <<document, objects, removal>>

(* get_bytes; there is no inline payload to fall back on *)
ReadObject(g) ==
  LET key == Head(reading[g].wants)
  IN  /\ reading[g].pc = "reading"
      /\ \/ /\ key \in objects
            /\ reading' = [reading EXCEPT ![g].wants = Tail(@),
                 ![g].pc = IF Tail(reading[g].wants) = <<>> THEN "ok" ELSE @]
         \/ /\ key \notin objects \/ Fails("storage")
            /\ reading' = [reading EXCEPT ![g].pc = "unavailable"]
      /\ UNCHANGED <<document, objects, removal>>

-----------------------------------------------------------------------------
Requests == \/ \E r \in Deletions : DeleteDocument(r) \/ CrashRemoval(r)
            \/ \E g \in Readers : OpenDocument(g) \/ ReadObject(g)

InitRequests == /\ removal = [r \in Deletions |-> IdleRemoval]
                /\ reading = [g \in Readers |-> IdleReading]

(***************************************************************************)
(* On its own the component starts with what the pipeline leaves behind:   *)
(* every document complete, each from an upload of its own.                *)
(***************************************************************************)
Init == /\ document \in [Docs -> Jobs]
        /\ \A d, e \in Docs : document[d] = document[e] => d = e
        /\ objects = {Source(document[d]) : d \in Docs} \cup ResultKeys
        /\ InitRequests

Next == Requests

Spec == Init /\ [][Next]_docVars

-----------------------------------------------------------------------------
TypeOK == /\ document \in [Docs -> Jobs \cup {NoJob}]
          /\ objects \subseteq Keys
          /\ removal \in [Deletions -> Removal]
          /\ reading \in [Readers -> Reading]

AtWork(r) == removal[r].pc \in {"found", "backup", "delete", "commit", "restore"}

CutOff(r) == removal[r].pc \in {"crashed", "crashedRestoring"}

Missing(d) == {Source(document[d]), Markdown(d), Json(d)} \ objects

(***************************************************************************)
(* A delete that fails leaves the document readable, or says that it could *)
(* not: while the row exists an object of it is missing only because a     *)
(* delete is at work, was cut off by a crash, or answered that the         *)
(* rollback failed too.                                                    *)
(***************************************************************************)
LossIsReported ==
  \A d \in Docs : document[d] # NoJob /\ Missing(d) # {} =>
    \E r \in Deletions :
      removal[r].doc = d /\ (AtWork(r) \/ CutOff(r) \/ removal[r].pc = "rollbackFailed")

(***************************************************************************)
(* Deleting a document deletes its source and result (docs/API_SPEC.md):   *)
(* once no delete is at work, none of its objects is left.                 *)
(***************************************************************************)
LeftBehind(r) ==
  LET d == removal[r].doc
  IN  IF d = NoDoc \/ document[d] # NoJob THEN {}
      ELSE {removal[r].keys[1], Markdown(d), Json(d)} \cap objects

DeletedLeavesNothing ==
  (\A r \in Deletions : ~AtWork(r)) => \A r \in Deletions : LeftBehind(r) = {}

(***************************************************************************)
(* What is left of a deleted document was put back by another delete of it *)
(* that failed: no crash before the commit, and no pair of deletes that    *)
(* took the keys from rows the other had removed, loses track of an object.*)
(***************************************************************************)
PutBack(r) == removal[r].pc \in {"failed", "rollbackFailed", "crashedRestoring"}

OnlyRollbacksLeaveObjects ==
  (\A r \in Deletions : ~AtWork(r)) =>
    \A r \in Deletions : LeftBehind(r) # {} =>
      \E o \in Deletions : removal[o].doc = removal[r].doc /\ PutBack(o)

(***************************************************************************)
(* A read finds an object missing only beside or after a delete that       *)
(* succeeded, was cut off by a crash or could not be undone: a delete that *)
(* failed and was rolled back does not break the reads that come later.    *)
(***************************************************************************)
Breaks(r) == AtWork(r) \/ CutOff(r) \/ removal[r].pc \in {"deleted", "rollbackFailed"}

FindsNothing(g) == reading[g].pc = "reading" /\ Head(reading[g].wants) \notin objects

ReadsFailOnlyBesideDeletes ==
  [][\A g \in Readers : FindsNothing(g) /\ reading'[g].pc = "unavailable" =>
       \E r \in Deletions : removal[r].doc = reading[g].doc /\ Breaks(r)]_docVars
=============================================================================
