-------------------------- MODULE DocumentCreate --------------------------
(***************************************************************************)
(* DocumentService.create_document: store source and mock result, insert   *)
(* the rows, and when a call fails delete what was stored or, when that    *)
(* fails too, keep the payloads in the row itself.  No endpoint calls it   *)
(* any more.  Here a document is made from an upload of its own, under the *)
(* key documents/<doc>/source/..., written <<"source", d>> below.          *)
(***************************************************************************)
EXTENDS Naturals, Sequences, FiniteSets

CONSTANTS Docs,             \* document ids, one per request
          Refused,          \* subsystems whose calls may fail without effect
          Unacknowledged    \* subsystems whose calls may fail after their effect

ASSUME CreateFaults == Refused \cup Unacknowledged \subseteq {"storage", "db"}

VARIABLES
  create,    \* [Docs -> local variables of create_document]
  row,       \* [Docs -> documents and document_results row]
  objects    \* keys present in the object storage

createVars == <<create, row, objects>>

Parts == <<"source", "markdown", "json">>
Kinds == {"source", "markdown", "json"}

(***************************************************************************)
(* A definition marked "deviant" is what the next one would be with a bug. *)
(* stored: a row exists; keys: the parts it has an object key for; inline: *)
(* it carries file_data, markdown and canonical_json itself.               *)
(***************************************************************************)
Row   == [stored : BOOLEAN, keys : SUBSET Kinds, inline : BOOLEAN]
NoRow == [stored |-> FALSE, keys |-> {}, inline |-> FALSE]

ObjectsRow       == [stored |-> TRUE, keys |-> Kinds, inline |-> FALSE]
RowNaming(left)   == [stored |-> TRUE, keys |-> left, inline |-> FALSE]  \* deviant
FallbackRow(left) == [stored |-> TRUE, keys |-> left, inline |-> TRUE]

Answers == {"created", "failed", "incomplete"}
CreatePcs == {"idle", "put", "commit", "refresh", "cleanup", "fallback",
              "fallbackRefresh"} \cup Answers

(* uploaded is uploaded_keys, left is cleanup_failed_keys *)
Create == [pc : CreatePcs, uploaded : SUBSET Kinds, left : SUBSET Kinds]

At(d, pc) == create[d].pc = pc
Go(d, pc) == create' = [create EXCEPT ![d].pc = pc]

Fails(s) == s \in Refused \cup Unacknowledged

RaisesWith(s, old, new, to) == \/ s \in Refused /\ to = old
                               \/ s \in Unacknowledged /\ to = new

Begin(d) == /\ At(d, "idle") /\ Go(d, "put")
            /\ UNCHANGED <<row, objects>>

(* put_bytes of source, markdown and json, in this order *)
PutPart(d) ==
  LET part   == Parts[Cardinality(create[d].uploaded) + 1]
      stored == objects \cup {<<part, d>>}
  IN  /\ At(d, "put")
      /\ \/ /\ objects' = stored
            /\ create' = [create EXCEPT ![d].uploaded = @ \cup {part},
                            ![d].pc = IF part = "json" THEN "commit" ELSE @]
         \/ RaisesWith("storage", objects, stored, objects') /\ Go(d, "cleanup")
      /\ UNCHANGED row

CommitRow(d) ==
  LET inserted == [row EXCEPT ![d] = ObjectsRow]
  IN  /\ At(d, "commit")
      /\ \/ row' = inserted /\ Go(d, "refresh")
         \/ RaisesWith("db", row, inserted, row') /\ Go(d, "cleanup")
      /\ UNCHANGED objects

(* the two refreshes and the response *)
RefreshCreated(d) ==
  /\ At(d, "refresh")
  /\ Go(d, "created") \/ (Fails("db") /\ Go(d, "failed"))
  /\ UNCHANGED <<row, objects>>

(* _delete_objects_best_effort(uploaded_keys, retries=3), one key a step *)
KeyForgotten(left, part) == left            \* deviant
KeyFailed(left, part)    == left \cup {part}

CleanupPart(d) ==
  /\ At(d, "cleanup")
  /\ \/ \E part \in create[d].uploaded :
          \/ /\ objects' = objects \ {<<part, d>>}
             /\ create' = [create EXCEPT ![d].uploaded = @ \ {part}]
          \/ /\ RaisesWith("storage", objects, objects \ {<<part, d>>}, objects')
             /\ create' = [create EXCEPT ![d].uploaded = @ \ {part},
                                         ![d].left = KeyFailed(@, part)]
     \/ /\ create[d].uploaded = {} /\ objects' = objects
        /\ Go(d, IF create[d].left = {} THEN "failed" ELSE "fallback")
  /\ UNCHANGED row

(* _persist_document_after_incomplete_create_cleanup: the commit.  It also   *)
(* fails when the row is there already: the id is the primary key            *)
CommitFallback(d) ==
  LET inserted == [row EXCEPT ![d] = FallbackRow(create[d].left)]
  IN  /\ At(d, "fallback")
      /\ \/ ~row[d].stored /\ row' = inserted /\ Go(d, "fallbackRefresh")
         \/ /\ ~row[d].stored /\ RaisesWith("db", row, inserted, row')
            /\ Go(d, "incomplete")
         \/ row[d].stored /\ row' = row /\ Go(d, "incomplete")
      /\ UNCHANGED objects

RefreshFallback(d) ==
  /\ At(d, "fallbackRefresh")
  /\ Go(d, "created") \/ (Fails("db") /\ Go(d, "failed"))
  /\ UNCHANGED <<row, objects>>

Init == /\ create = [d \in Docs |-> [pc |-> "idle", uploaded |-> {}, left |-> {}]]
        /\ row = [d \in Docs |-> NoRow]
        /\ objects = {}

Next == \E d \in Docs : \/ Begin(d) \/ PutPart(d) \/ CommitRow(d) \/ RefreshCreated(d)
                        \/ CleanupPart(d) \/ CommitFallback(d) \/ RefreshFallback(d)

Spec == Init /\ [][Next]_createVars

-----------------------------------------------------------------------------
(***************************************************************************)
(* _load_source_payload, _load_markdown_payload and                        *)
(* _load_canonical_json_payload: the object if the row has its key and the *)
(* object is there, else the inline payload.                               *)
(***************************************************************************)
Loads(d, part) == (part \in row[d].keys /\ <<part, d>> \in objects) \/ row[d].inline

TypeOK == /\ create \in [Docs -> Create]
          /\ row \in [Docs -> Row]
          /\ objects \subseteq Kinds \X Docs

(***************************************************************************)
(* A document that was committed as far as its request knows can be read   *)
(* back, source and result, also when it is the fallback for objects that  *)
(* could not all be removed.                                               *)
(***************************************************************************)
RowsReadable ==
  \A d \in Docs : create[d].pc \in {"refresh", "fallbackRefresh", "created"} =>
    row[d].stored /\ \A part \in Kinds : Loads(d, part)

(***************************************************************************)
(* When create_document has ended, an object that is left in the storage   *)
(* is named by a row, so that delete_document can remove it, or the client *)
(* was told that the cleanup is incomplete.                                *)
(***************************************************************************)
LeftoversKnown ==
  \A d \in Docs : create[d].pc \in Answers \ {"incomplete"} =>
    \A part \in Kinds : <<part, d>> \in objects => part \in row[d].keys
=============================================================================
