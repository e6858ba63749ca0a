-------------------------- MODULE Documents_proofs --------------------------
(***************************************************************************)
(* Proofs about Documents: for any number of documents, deletions and      *)
(* reads side by side.                                                     *)
(*                                                                         *)
(* A deletion goes on with keys it took from a row that may be gone by     *)
(* now.  The invariants therefore speak of f, the job each document was    *)
(* made from: Init fixes one, and every step keeps it.  f may say NoJob of *)
(* a document that was not made; Init leaves none, DocumentAgent does.     *)
(***************************************************************************)
EXTENDS Documents, SequenceTheorems, TLAPS

-----------------------------------------------------------------------------
(***************************************************************************)
(* The invariants                                                          *)
(***************************************************************************)
Origins == {f \in [Docs -> Jobs \cup {NoJob}] :
              \A d, e \in Docs : f[d] = f[e] /\ f[d] # NoJob => d = e}

Made(f) == {d \in Docs : f[d] # NoJob}

OwnKeys(f, d) == {Source(f[d]), Markdown(d), Json(d)}

JustSource(f, d) == <<Source(f[d])>>
AllKeys(f, d)    == <<Source(f[d]), Markdown(d), Json(d)>>

Rows(f) == \A d \in Docs : document[d] \in {f[d], NoJob}

(* what the local variables of a deletion say of each other *)
WellFormed(f, m) ==
  /\ \/ m.doc \in Made(f)
     \/ m.doc = NoDoc /\ m.pc \in {"idle", "notFound", "failed"}
  /\ m.pc = "idle" => m = IdleRemoval
  /\ m.doc \in Made(f) =>
       /\ m.keys \in {JustSource(f, m.doc), AllKeys(f, m.doc)}
       /\ m.backup \cup m.deleted \subseteq OwnKeys(f, m.doc)
  /\ m.pc \in {"backup", "delete"} => m.at \in 1..Len(m.keys)
  /\ m.pc = "found" => m.keys = JustSource(f, m.doc) /\ m.at = 1
  /\ m.pc \in {"found", "backup"} => m.deleted = {}
  /\ m.pc \in {"found", "backup", "delete", "commit"} => m.lost = FALSE

(* and of the row: a list without the results was taken when it was gone *)
InStep(m) ==
  /\ m.pc \in {"backup", "delete", "commit"} /\ document[m.doc] # NoJob => Len(m.keys) = 3
  /\ m.pc = "deleted" => document[m.doc] = NoJob

WellRead(f, m) ==
  m.pc = "reading" =>
    /\ m.doc \in Made(f)
    /\ m.wants \in {JustSource(f, m.doc), ResultKeysOf(m.doc), <<Json(m.doc)>>}

Typed(f) == /\ TypeOK /\ Rows(f)
            /\ \A r \in Deletions : WellFormed(f, removal[r]) /\ InStep(removal[r])
            /\ \A g \in Readers : WellRead(f, reading[g])

(* A missing object is accounted for: by a deletion that still knows it    *)
(* has to put it back or that it cannot, or by one that said so, was cut   *)
(* off or succeeded.                                                       *)
AnswersFor(m, d, key) ==
  /\ m.doc = d
  /\ \/ m.pc \in {"deleted", "rollbackFailed", "crashed", "crashedRestoring"}
     \/ m.pc \in {"delete", "commit", "restore"} /\ key \in m.deleted
     \/ m.pc = "restore" /\ m.lost

Accounted(f) ==
  \A d \in Made(f) : \A key \in OwnKeys(f, d) \ objects :
    \E r \in Deletions : AnswersFor(removal[r], d, key)

(* An object that a deletion has been past, or whose row is gone, is there *)
(* only because a deletion of the same document is putting it back or did. *)
Passed(m, key) ==
  \/ m.pc = "commit" /\ \E i \in 1..Len(m.keys) : m.keys[i] = key
  \/ m.pc = "delete" /\ \E i \in 1..Len(m.keys) : i < m.at /\ m.keys[i] = key

Restoring(m) == m.pc \in {"restore", "failed", "rollbackFailed", "crashedRestoring"}

Gone(d, key) == \/ document[d] = NoJob
                \/ \E r \in Deletions : removal[r].doc = d /\ Passed(removal[r], key)

Settled(f) ==
  \A d \in Made(f) : \A key \in OwnKeys(f, d) \cap objects :
    Gone(d, key) => \E o \in Deletions : removal[o].doc = d /\ Restoring(removal[o])

TypedInv   == \E f \in Origins : Typed(f)
SettledInv == \E f \in Origins : Typed(f) /\ Settled(f)
LossInv    == \E f \in Origins : Typed(f) /\ Accounted(f)
-----------------------------------------------------------------------------
(***************************************************************************)
(* What a step does to the local variables m of its deletion, as n         *)
(***************************************************************************)
Kept(m, n) == /\ n.doc = m.doc /\ n.keys = m.keys /\ n.at = m.at /\ n.backup = m.backup
              /\ n.deleted = m.deleted /\ n.lost = m.lost

Stores == <<document, objects>>

Found(f, m, n) ==
  /\ m.pc = "idle" /\ n.pc = "found" /\ n.doc \in Made(f) /\ n.keys = JustSource(f, n.doc)
  /\ n.at = 1 /\ n.backup = {} /\ n.deleted = {} /\ n.lost = FALSE
  /\ UNCHANGED Stores

GaveUp(m, n) ==
  /\ \/ m.pc = "idle" /\ n.pc \in {"notFound", "failed"}
     \/ m.pc \in {"found", "backup"} /\ n.pc = "failed"
     \/ m.pc = "restore" /\ m.deleted = {} /\ n.pc = IF m.lost THEN "rollbackFailed" ELSE "failed"
     \/ m.pc \in {"found", "backup", "delete", "commit"} /\ n.pc = "crashed"
     \/ m.pc = "restore" /\ n.pc = "crashedRestoring"
  /\ Kept(m, n) /\ UNCHANGED Stores

Collected(f, m, n) ==
  /\ m.pc = "found" /\ n.pc = "backup" /\ n.doc = m.doc /\ n.at = 1
  /\ n.keys = IF document[m.doc] # NoJob THEN AllKeys(f, m.doc) ELSE JustSource(f, m.doc)
  /\ n.backup = m.backup /\ n.deleted = m.deleted /\ n.lost = m.lost
  /\ UNCHANGED Stores

BackedUp(m, n) ==
  /\ m.pc = "backup" /\ n.doc = m.doc /\ n.keys = m.keys /\ n.deleted = m.deleted
  /\ n.lost = m.lost /\ n.backup \subseteq m.backup \cup {m.keys[m.at]}
  /\ \/ n.pc = "backup" /\ m.at < Len(m.keys) /\ n.at = m.at + 1
     \/ n.pc = "delete" /\ n.at = 1
  /\ UNCHANGED Stores

KeyGone(m, n) ==
  /\ m.pc = "delete" /\ n.doc = m.doc /\ n.keys = m.keys /\ n.backup = m.backup
  /\ n.lost = m.lost
  /\ \/ n.pc = "delete" /\ m.at < Len(m.keys) /\ n.at = m.at + 1
     \/ n.pc = "commit" /\ m.at = Len(m.keys) /\ n.at = 1
  /\ \/ objects' = objects \ {m.keys[m.at]} /\ n.deleted = m.deleted \cup {m.keys[m.at]}
     \/ objects' = objects /\ m.keys[m.at] \notin objects /\ n.deleted = m.deleted
  /\ UNCHANGED document

DeleteRaised(m, n) ==
  /\ m.pc = "delete" /\ n.pc = "restore" /\ Kept(m, n)
  /\ \/ objects' = objects
     \/ "storage" \in Unacknowledged /\ objects' = objects \ {m.keys[m.at]}
  /\ UNCHANGED document

Committed(m, n) ==
  /\ m.pc = "commit" /\ Kept(m, n)
  /\ \/ n.pc = "deleted" /\ document' = [document EXCEPT ![m.doc] = NoJob]
     \/ n.pc = "restore" /\ document' \in {document, [document EXCEPT ![m.doc] = NoJob]}
  /\ UNCHANGED objects

Restored(m, n) ==
  /\ m.pc = "restore" /\ n.pc = "restore"
  /\ n.doc = m.doc /\ n.keys = m.keys /\ n.at = m.at /\ n.backup = m.backup
  /\ \E key \in m.deleted :
       /\ n.deleted = m.deleted \ {key}
       /\ \/ objects' = objects \cup {key} /\ key \in m.backup /\ n.lost = m.lost
          \/ objects' = objects /\ n.lost = TRUE
          \/ objects' = objects \cup {key} /\ key \in m.backup /\ n.lost = TRUE
  /\ UNCHANGED document

DeletionStep(f, m, n) ==
  \/ Found(f, m, n) \/ GaveUp(m, n) \/ Collected(f, m, n) \/ BackedUp(m, n) \/ KeyGone(m, n)
  \/ DeleteRaised(m, n) \/ Committed(m, n) \/ Restored(m, n)

(* a list of one key followed by a list of two *)
LEMMA Joined ==
  ASSUME NEW x \in Keys, NEW y \in Keys, NEW z \in Keys
  PROVE  <<x>> \o <<y, z>> = <<x, y, z>>
<1>1. PICK s \in Seq(Keys) : s = <<x>> /\ Len(s) = 1 /\ s[1] = x
  <2>1. <<x>> \in Seq(Keys) /\ Len(<<x>>) = 1 /\ <<x>>[1] = x
    OBVIOUS
  <2>2. QED BY Zenon, <2>1
<1>2. PICK t \in Seq(Keys) : t = <<y, z>> /\ Len(t) = 2 /\ t[1] = y /\ t[2] = z
  <2>1. <<y, z>> \in Seq(Keys) /\ Len(<<y, z>>) = 2 /\ <<y, z>>[1] = y /\ <<y, z>>[2] = z
    OBVIOUS
  <2>2. QED BY Zenon, <2>1
<1>3. PICK u, a, b : u = s \o t /\ a = Len(s) /\ b = Len(t)
  OBVIOUS
<1>4. /\ u \in Seq(Keys) /\ Len(u) = a + b
      /\ \A i \in 1 .. a + b : u[i] = IF i <= a THEN s[i] ELSE t[i - a]
  BY Zenon, ConcatProperties, <1>3
<1>5. a = 1 /\ b = 2
  BY <1>1, <1>2, <1>3
<1>6. Len(u) = 3 /\ \A i \in 1..3 : u[i] = IF i <= 1 THEN s[i] ELSE t[i - 1]
  BY <1>4, <1>5
<1>7. u[1] = x /\ u[2] = y /\ u[3] = z
  BY <1>1, <1>2, <1>6
<1>8. u = <<x, y, z>>
  <2>1. PICK v \in Seq(Keys) : v = <<x, y, z>> /\ Len(v) = 3 /\ v[1] = x /\ v[2] = y /\ v[3] = z
    <3>1. /\ <<x, y, z>> \in Seq(Keys) /\ Len(<<x, y, z>>) = 3
          /\ <<x, y, z>>[1] = x /\ <<x, y, z>>[2] = y /\ <<x, y, z>>[3] = z
      OBVIOUS
    <3>2. QED BY Zenon, <3>1
  <2>2. \A i \in 1..3 : u[i] = v[i]
    BY <1>7, <2>1
  <2>3. Len(u) = Len(v) /\ \A i \in 1..Len(u) : u[i] = v[i]
    BY <1>6, <2>1, <2>2
  <2>4. u = v
    BY Zenon, <1>4, <2>3, SeqEqual
  <2>5. QED BY <2>1, <2>4
<1>9. QED BY <1>1, <1>2, <1>3, <1>8

LEMMA OwnKeyFacts ==
  ASSUME NEW f \in Origins, NEW d \in Made(f)
  PROVE  /\ d \in Docs /\ f[d] \in Jobs /\ OwnKeys(f, d) \subseteq Keys
         /\ \A e \in Docs : e # d => OwnKeys(f, d) \cap OwnKeys(f, e) = {}
         /\ JustSource(f, d) \in Seq(Keys) /\ Len(JustSource(f, d)) = 1
         /\ JustSource(f, d)[1] = Source(f[d])
         /\ AllKeys(f, d) \in Seq(Keys) /\ Len(AllKeys(f, d)) = 3
         /\ AllKeys(f, d)[1] = Source(f[d]) /\ AllKeys(f, d)[2] = Markdown(d)
         /\ AllKeys(f, d)[3] = Json(d)
         /\ JustSource(f, d) \o ResultKeysOf(d) = AllKeys(f, d)
<1>1. d \in Docs /\ f[d] \in Jobs
  BY DEF Origins, Made
<1>2. Source(f[d]) \in Keys /\ Markdown(d) \in Keys /\ Json(d) \in Keys
  BY <1>1 DEF Source, Markdown, Json, Keys, ResultKeys
<1>3. \A e \in Docs : e # d => OwnKeys(f, d) \cap OwnKeys(f, e) = {}
  BY <1>1 DEF OwnKeys, Source, Markdown, Json, Origins, Made
<1>4. /\ JustSource(f, d) \in Seq(Keys) /\ Len(JustSource(f, d)) = 1
      /\ JustSource(f, d)[1] = Source(f[d])
  BY <1>2 DEF JustSource
<1>5. /\ AllKeys(f, d) \in Seq(Keys) /\ Len(AllKeys(f, d)) = 3
      /\ AllKeys(f, d)[1] = Source(f[d]) /\ AllKeys(f, d)[2] = Markdown(d)
      /\ AllKeys(f, d)[3] = Json(d)
  BY <1>2 DEF AllKeys
<1>6. JustSource(f, d) \o ResultKeysOf(d) = AllKeys(f, d)
  BY Zenon, <1>2, Joined DEF JustSource, ResultKeysOf, AllKeys
<1>7. QED BY <1>1, <1>2, <1>3, <1>4, <1>5, <1>6 DEF OwnKeys

LEMMA ListLength ==
  ASSUME NEW f \in Origins, NEW d \in Made(f), NEW keys \in {JustSource(f, d), AllKeys(f, d)}
  PROVE  Len(keys) \in {1, 3} /\ Len(keys) <= 3 /\ keys \in Seq(Keys)
<1>1. CASE keys = JustSource(f, d)
  BY <1>1, OwnKeyFacts
<1>2. CASE keys = AllKeys(f, d)
  BY <1>2, OwnKeyFacts
<1>3. QED BY <1>1, <1>2

(* every key of a deletion is its document's, and a full list has them all *)
LEMMA KeysAreOwn ==
  ASSUME NEW f \in Origins, NEW d \in Made(f), NEW keys \in {JustSource(f, d), AllKeys(f, d)}
  PROVE  /\ Len(keys) \in {1, 3} /\ keys \in Seq(Keys)
         /\ \A i \in 1..Len(keys) : keys[i] \in OwnKeys(f, d)
         /\ Len(keys) = 3 => \A key \in OwnKeys(f, d) : \E i \in 1..Len(keys) : keys[i] = key
<1>1. CASE keys = JustSource(f, d)
  BY <1>1, OwnKeyFacts DEF OwnKeys
<1>2. CASE keys = AllKeys(f, d)
  <2>1. /\ Len(keys) = 3 /\ keys \in Seq(Keys) /\ keys[1] = Source(f[d])
        /\ keys[2] = Markdown(d) /\ keys[3] = Json(d)
    BY <1>2, OwnKeyFacts
  <2>2. 1 \in 1..3 /\ 2 \in 1..3 /\ 3 \in 1..3 /\ \A i \in 1..3 : i = 1 \/ i = 2 \/ i = 3
    OBVIOUS
  <2>3. QED BY <2>1, <2>2 DEF OwnKeys
<1>3. QED BY <1>1, <1>2

LEMMA RemovalParts ==
  ASSUME NEW m \in Removal
  PROVE  /\ m.pc \in DeletionPcs /\ m.doc \in Docs \cup {NoDoc} /\ m.keys \in Seq(Keys)
         /\ m.at \in 1..3 /\ m.backup \in SUBSET Keys /\ m.deleted \in SUBSET Keys
         /\ m.lost \in BOOLEAN
BY DEF Removal

(* the fields of the record that Advanced returns *)
LEMMA AdvancedFields ==
  ASSUME NEW m \in Removal, NEW next \in DeletionPcs, m.at \in 1..Len(m.keys), Len(m.keys) <= 3,
         NEW n, n = Advanced(m, next)
  PROVE  /\ n \in Removal /\ n.doc = m.doc /\ n.keys = m.keys /\ n.backup = m.backup
         /\ n.deleted = m.deleted /\ n.lost = m.lost
         /\ \/ n.pc = m.pc /\ m.at < Len(m.keys) /\ n.at = m.at + 1
            \/ n.pc = next /\ m.at = Len(m.keys) /\ n.at = 1
<1>1. Len(m.keys) \in Nat /\ m.at \in 1..3
  BY RemovalParts
<1>2. CASE m.at < Len(m.keys)
  <2>1. PICK k \in 1..3 : k = m.at + 1
    BY <1>1, <1>2
  <2>2. n = [m EXCEPT !.at = k]
    BY <1>2, <2>1 DEF Advanced
  <2>3. [m EXCEPT !.at = k] \in Removal
    BY DEF Removal
  <2>4. QED BY <1>2, <2>1, <2>2, <2>3 DEF Removal
<1>3. CASE ~(m.at < Len(m.keys))
  <2>1. m.at = Len(m.keys) /\ n = [m EXCEPT !.pc = next, !.at = 1]
    BY <1>1, <1>3 DEF Advanced
  <2>2. \A k \in 1..3 : [m EXCEPT !.pc = next, !.at = k] \in Removal
    BY DEF Removal
  <2>3. n \in Removal
    BY <2>1, <2>2
  <2>4. QED BY <2>1, <2>3 DEF Removal
<1>4. QED BY <1>2, <1>3

LEMMA DeletionSteps ==
  ASSUME NEW f \in Origins, Typed(f), NEW r \in Deletions, DeleteDocument(r) \/ CrashRemoval(r)
  PROVE  /\ reading' = reading
         /\ \E m, n \in Removal : /\ m = removal[r] /\ removal' = [removal EXCEPT ![r] = n]
                                  /\ DeletionStep(f, m, n)
<1>a. PICK m : m = removal[r]
  OBVIOUS
<1>0. /\ removal \in [Deletions -> Removal] /\ m \in Removal /\ Rows(f)
      /\ WellFormed(f, m) /\ InStep(m)
  BY <1>a DEF Typed, TypeOK
<1>1. reading' = reading
  BY DEF DeleteDocument, FindDocument, CollectObjectKeys, BackupObject, DeleteObject,
         CommitDelete, RestoreObject, CrashRemoval
<1> DEFINE Becomes(n) == n \in Removal /\ removal' = [removal EXCEPT ![r] = n]
(* a step that only moves on *)
<1>2. ASSUME NEW pc \in DeletionPcs, RemovalGo(r, pc)
      PROVE  \E n \in Removal : Becomes(n) /\ n.pc = pc /\ Kept(m, n)
  <2>1. PICK n : n = [m EXCEPT !.pc = pc]
    OBVIOUS
  <2>2. [m EXCEPT !.pc = pc] \in Removal
    BY <1>0 DEF Removal
  <2>3. n \in Removal /\ n.pc = pc /\ Kept(m, n)
    BY <1>0, <2>1, <2>2 DEF Removal, Kept
  <2>4. removal' = [removal EXCEPT ![r] = n]
    BY <1>2, <1>a, <2>1 DEF RemovalGo
  <2>5. QED BY <2>3, <2>4
<1>3. CASE FindDocument(r)
  <2>1. m.pc = "idle" /\ m = IdleRemoval /\ UNCHANGED Stores
    BY <1>0, <1>a, <1>3 DEF FindDocument, RemovalAt, WellFormed, Stores
  <2>2. ASSUME RemovalGo(r, "notFound") \/ RemovalGo(r, "failed")
        PROVE  \E n \in Removal : Becomes(n) /\ GaveUp(m, n)
    BY <1>2, <2>1, <2>2 DEF DeletionPcs, DeletionAnswers, GaveUp
  <2>3. ASSUME NEW d \in Docs, document[d] # NoJob,
               removal' = [removal EXCEPT ![r].pc = "found", ![r].doc = d,
                             ![r].keys = <<Source(document[d])>>]
        PROVE  \E n \in Removal : Becomes(n) /\ Found(f, m, n)
    <3>0. d \in Made(f)
      BY <1>0, <2>3 DEF Rows, Made
    <3>1. PICK keys \in Seq(Keys) : keys = JustSource(f, d)
      BY <3>0, OwnKeyFacts
    <3>2. <<Source(document[d])>> = keys
      BY <1>0, <2>3, <3>1 DEF Rows, JustSource
    <3>3. PICK n : n = [m EXCEPT !.pc = "found", !.doc = d, !.keys = keys]
      OBVIOUS
    <3>4. \A pc \in DeletionPcs : [m EXCEPT !.pc = pc, !.doc = d, !.keys = keys] \in Removal
      BY <1>0 DEF Removal
    <3>5. n \in Removal
      BY <3>3, <3>4 DEF DeletionPcs
    <3>6. /\ n.pc = "found" /\ n.doc = d /\ n.keys = keys /\ n.at = m.at /\ n.backup = m.backup
          /\ n.deleted = m.deleted /\ n.lost = m.lost
      BY <1>0, <3>3 DEF Removal
    <3>7. m.at = 1 /\ m.backup = {} /\ m.deleted = {} /\ m.lost = FALSE
      BY <2>1 DEF IdleRemoval
    <3>8. removal' = [removal EXCEPT ![r] = n]
      BY <1>0, <1>a, <2>3, <3>2, <3>3
    <3>9. QED BY <2>1, <3>0, <3>1, <3>5, <3>6, <3>7, <3>8 DEF Found
  <2>4. QED BY <1>0, <1>1, <1>a, <1>3, <2>2, <2>3 DEF FindDocument, DeletionStep
<1>4. CASE CollectObjectKeys(r)
  <2>1. /\ m.pc = "found" /\ m.keys = JustSource(f, m.doc) /\ m.at = 1 /\ m.doc \in Made(f)
        /\ UNCHANGED Stores
    BY <1>0, <1>a, <1>4 DEF CollectObjectKeys, RemovalAt, WellFormed, Stores
  <2>2. ASSUME RemovalGo(r, "failed")
        PROVE  \E n \in Removal : Becomes(n) /\ GaveUp(m, n)
    BY <1>2, <2>1, <2>2 DEF DeletionPcs, DeletionAnswers, GaveUp
  <2>3. ASSUME ~RemovalGo(r, "failed")
        PROVE  \E n \in Removal : Becomes(n) /\ Collected(f, m, n)
    <3>1. PICK keys \in Seq(Keys) :
            keys = IF document[m.doc] # NoJob THEN AllKeys(f, m.doc) ELSE JustSource(f, m.doc)
      BY <2>1, OwnKeyFacts
    <3>2. keys = IF document[m.doc] # NoJob THEN m.keys \o ResultKeysOf(m.doc) ELSE m.keys
      BY <2>1, <3>1, OwnKeyFacts
    <3>3. PICK n : n = [m EXCEPT !.pc = "backup", !.keys = keys]
      OBVIOUS
    <3>4. \A pc \in DeletionPcs : [m EXCEPT !.pc = pc, !.keys = keys] \in Removal
      BY <1>0 DEF Removal
    <3>5. n \in Removal
      BY <3>3, <3>4 DEF DeletionPcs
    <3>6. /\ n.pc = "backup" /\ n.doc = m.doc /\ n.keys = keys /\ n.at = m.at
          /\ n.backup = m.backup /\ n.deleted = m.deleted /\ n.lost = m.lost
      BY <1>0, <3>3 DEF Removal
    <3>7. removal' = [removal EXCEPT ![r] = n]
      <4>1. removal' = [removal EXCEPT ![r].pc = "backup",
              ![r].keys = IF document[m.doc] # NoJob THEN @ \o ResultKeysOf(m.doc) ELSE @]
        BY <1>a, <1>4, <2>3 DEF CollectObjectKeys
      <4>2. QED BY <1>0, <1>a, <3>2, <3>3, <4>1
    <3>8. QED BY <2>1, <3>1, <3>5, <3>6, <3>7 DEF Collected
  <2>4. QED BY <1>0, <1>1, <1>a, <2>2, <2>3 DEF DeletionStep
<1>5. CASE BackupObject(r)
  <2>1. /\ m.pc = "backup" /\ m.at \in 1..Len(m.keys) /\ Len(m.keys) <= 3 /\ m.doc \in Made(f)
        /\ m.keys \in Seq(Keys) /\ UNCHANGED Stores
    <3>1. m.pc = "backup" /\ m.at \in 1..Len(m.keys) /\ m.doc \in Made(f) /\ UNCHANGED Stores
      BY <1>0, <1>a, <1>5 DEF BackupObject, RemovalAt, WellFormed, Stores
    <3>2. m.keys \in {JustSource(f, m.doc), AllKeys(f, m.doc)}
      BY <1>0, <3>1 DEF WellFormed
    <3>3. m.keys \in Seq(Keys) /\ Len(m.keys) <= 3
      BY <3>1, <3>2, ListLength
    <3>4. QED BY <3>1, <3>3
  <2>2. ASSUME RemovalGo(r, "failed")
        PROVE  \E n \in Removal : Becomes(n) /\ GaveUp(m, n)
    BY <1>2, <2>1, <2>2 DEF DeletionPcs, DeletionAnswers, GaveUp
  <2>3. ASSUME ~RemovalGo(r, "failed")
        PROVE  \E n \in Removal : Becomes(n) /\ BackedUp(m, n)
    <3>1. PICK a : a = Advanced(m, "delete")
      OBVIOUS
    <3>2. /\ a \in Removal /\ a.doc = m.doc /\ a.keys = m.keys /\ a.backup = m.backup
          /\ a.deleted = m.deleted /\ a.lost = m.lost
          /\ \/ a.pc = m.pc /\ m.at < Len(m.keys) /\ a.at = m.at + 1
             \/ a.pc = "delete" /\ m.at = Len(m.keys) /\ a.at = 1
      BY <1>0, <2>1, <3>1, AdvancedFields DEF DeletionPcs
    <3>3. PICK set \in SUBSET Keys : set = a.backup \cup ({m.keys[m.at]} \cap objects)
      <4>1. m.keys[m.at] \in Keys
        BY <2>1
      <4>2. QED BY <3>2, <4>1 DEF Removal
    <3>4. PICK n : n = [a EXCEPT !.backup = set]
      OBVIOUS
    <3>5. [a EXCEPT !.backup = set] \in Removal
      BY <3>2 DEF Removal
    <3>6. /\ n \in Removal /\ n.pc = a.pc /\ n.doc = a.doc /\ n.keys = a.keys /\ n.at = a.at
          /\ n.backup = set /\ n.deleted = a.deleted /\ n.lost = a.lost
      BY <3>2, <3>4, <3>5 DEF Removal
    <3>7. removal' = [removal EXCEPT ![r] = n]
      <4>1. removal' = [removal EXCEPT ![r] =
              [a EXCEPT !.backup = @ \cup ({m.keys[m.at]} \cap objects)]]
        BY <1>a, <1>5, <2>3, <3>1 DEF BackupObject, KeyAt
      <4>2. QED BY <3>3, <3>4, <4>1
    <3>8. n.backup \subseteq m.backup \cup {m.keys[m.at]}
      BY <3>2, <3>3, <3>6
    <3>9. QED BY <2>1, <3>2, <3>6, <3>7, <3>8 DEF BackedUp
  <2>4. QED BY <1>0, <1>1, <1>a, <2>2, <2>3 DEF DeletionStep
<1>6. CASE DeleteObject(r)
  <2>1. /\ m.pc = "delete" /\ m.at \in 1..Len(m.keys) /\ Len(m.keys) <= 3 /\ m.doc \in Made(f)
        /\ m.keys \in Seq(Keys) /\ UNCHANGED document
    <3>1. m.pc = "delete" /\ m.at \in 1..Len(m.keys) /\ m.doc \in Made(f) /\ UNCHANGED document
      BY <1>0, <1>a, <1>6 DEF DeleteObject, RemovalAt, WellFormed
    <3>2. m.keys \in {JustSource(f, m.doc), AllKeys(f, m.doc)}
      BY <1>0, <3>1 DEF WellFormed
    <3>3. m.keys \in Seq(Keys) /\ Len(m.keys) <= 3
      BY <3>1, <3>2, ListLength
    <3>4. QED BY <3>1, <3>3
  <2> DEFINE key == m.keys[m.at]
  <2>2. ASSUME RaisesWith("storage", objects, objects \ {key}, objects'), RemovalGo(r, "restore")
        PROVE  \E n \in Removal : Becomes(n) /\ DeleteRaised(m, n)
    <3>1. PICK n \in Removal : Becomes(n) /\ n.pc = "restore" /\ Kept(m, n)
      BY <1>2, <2>2 DEF DeletionPcs
    <3>2. QED BY <2>1, <2>2, <3>1 DEF RaisesWith, DeleteRaised
  <2>3. PICK a : a = Advanced(m, "commit")
    OBVIOUS
  <2>4. /\ a \in Removal /\ a.doc = m.doc /\ a.keys = m.keys /\ a.backup = m.backup
        /\ a.deleted = m.deleted /\ a.lost = m.lost
        /\ \/ a.pc = m.pc /\ m.at < Len(m.keys) /\ a.at = m.at + 1
           \/ a.pc = "commit" /\ m.at = Len(m.keys) /\ a.at = 1
    BY <1>0, <2>1, <2>3, AdvancedFields DEF DeletionPcs
  <2>5. ASSUME objects' = objects \ {key},
               removal' = [removal EXCEPT ![r] = [a EXCEPT !.deleted = @ \cup {key}]]
        PROVE  \E n \in Removal : Becomes(n) /\ KeyGone(m, n)
    <3>1. PICK set \in SUBSET Keys : set = a.deleted \cup {key}
      <4>1. key \in Keys
        BY <2>1
      <4>2. QED BY <2>4, <4>1 DEF Removal
    <3>2. PICK n : n = [a EXCEPT !.deleted = set]
      OBVIOUS
    <3>3. [a EXCEPT !.deleted = set] \in Removal
      BY <2>4 DEF Removal
    <3>4. /\ n \in Removal /\ n.pc = a.pc /\ n.doc = a.doc /\ n.keys = a.keys /\ n.at = a.at
          /\ n.backup = a.backup /\ n.deleted = set /\ n.lost = a.lost
      BY <2>4, <3>2, <3>3 DEF Removal
    <3>5. removal' = [removal EXCEPT ![r] = n]
      BY <2>5, <3>1, <3>2
    <3>6. QED BY ZenonT(60), <2>1, <2>4, <2>5, <3>1, <3>4, <3>5 DEF KeyGone
  <2>6. ASSUME key \notin objects, objects' = objects, removal' = [removal EXCEPT ![r] = a]
        PROVE  \E n \in Removal : Becomes(n) /\ KeyGone(m, n)
    BY <2>1, <2>4, <2>6 DEF KeyGone
  <2>7. \/ /\ objects' = objects \ {key}
           /\ removal' = [removal EXCEPT ![r] = [a EXCEPT !.deleted = @ \cup {key}]]
        \/ key \notin objects /\ objects' = objects /\ removal' = [removal EXCEPT ![r] = a]
        \/ /\ RaisesWith("storage", objects, objects \ {key}, objects')
           /\ RemovalGo(r, "restore")
    BY <1>a, <1>6, <2>3 DEF DeleteObject, KeyAt, Deleted
  <2>8. QED BY <1>0, <1>1, <1>a, <2>2, <2>5, <2>6, <2>7 DEF DeletionStep
<1>7. CASE CommitDelete(r)
  <2>1. m.pc = "commit" /\ UNCHANGED objects
    BY <1>a, <1>7 DEF CommitDelete, RemovalAt
  <2>2. \/ document' = [document EXCEPT ![m.doc] = NoJob] /\ RemovalGo(r, "deleted")
        \/ /\ document' \in {document, [document EXCEPT ![m.doc] = NoJob]}
           /\ RemovalGo(r, "restore")
    BY <1>a, <1>7 DEF CommitDelete, RaisesWith
  <2>3. \E n \in Removal : Becomes(n) /\ Committed(m, n)
    BY <1>2, <2>1, <2>2 DEF Committed, DeletionPcs, DeletionAnswers
  <2>4. QED BY <1>0, <1>1, <1>a, <2>3 DEF DeletionStep
<1>8. CASE RestoreObject(r)
  <2>1. m.pc = "restore" /\ UNCHANGED document
    BY <1>a, <1>8 DEF RestoreObject, RemovalAt
  <2>2. ASSUME m.deleted = {}, objects' = objects,
               RemovalGo(r, IF m.lost THEN "rollbackFailed" ELSE "failed")
        PROVE  \E n \in Removal : Becomes(n) /\ GaveUp(m, n)
    <3>1. (IF m.lost THEN "rollbackFailed" ELSE "failed") \in DeletionPcs
      BY DEF DeletionPcs, DeletionAnswers
    <3>2. PICK n \in Removal :
            Becomes(n) /\ n.pc = (IF m.lost THEN "rollbackFailed" ELSE "failed") /\ Kept(m, n)
      BY <1>2, <2>2, <3>1
    <3>3. QED BY <2>1, <2>2, <3>2 DEF GaveUp, Stores
  <2>3. ASSUME NEW key \in m.deleted, key \in m.backup, objects' = objects \cup {key},
               removal' = [removal EXCEPT ![r].deleted = @ \ {key}]
        PROVE  \E n \in Removal : Becomes(n) /\ Restored(m, n)
    <3>1. PICK set \in SUBSET Keys : set = m.deleted \ {key}
      BY <1>0 DEF Removal
    <3>2. PICK n : n = [m EXCEPT !.deleted = set]
      OBVIOUS
    <3>3. [m EXCEPT !.deleted = set] \in Removal
      BY <1>0 DEF Removal
    <3>4. /\ n \in Removal /\ n.pc = m.pc /\ n.doc = m.doc /\ n.keys = m.keys /\ n.at = m.at
          /\ n.backup = m.backup /\ n.deleted = set /\ n.lost = m.lost
      BY <1>0, <3>2, <3>3 DEF Removal
    <3>5. removal' = [removal EXCEPT ![r] = n]
      BY <1>0, <1>a, <2>3, <3>1, <3>2
    <3>6. QED BY <2>1, <2>3, <3>1, <3>4, <3>5 DEF Restored
  <2>4. ASSUME NEW key \in m.deleted,
               objects' = objects \/ (key \in m.backup /\ objects' = objects \cup {key}),
               removal' = [removal EXCEPT ![r].deleted = @ \ {key}, ![r].lost = TRUE]
        PROVE  \E n \in Removal : Becomes(n) /\ Restored(m, n)
    <3>1. PICK set \in SUBSET Keys : set = m.deleted \ {key}
      BY <1>0 DEF Removal
    <3>2. PICK n : n = [m EXCEPT !.deleted = set, !.lost = TRUE]
      OBVIOUS
    <3>3. \A lost \in BOOLEAN : [m EXCEPT !.deleted = set, !.lost = lost] \in Removal
      BY <1>0 DEF Removal
    <3>4. /\ n \in Removal /\ n.pc = m.pc /\ n.doc = m.doc /\ n.keys = m.keys /\ n.at = m.at
          /\ n.backup = m.backup /\ n.deleted = set /\ n.lost = TRUE
      BY <1>0, <3>2, <3>3 DEF Removal
    <3>5. removal' = [removal EXCEPT ![r] = n]
      BY <1>0, <1>a, <2>4, <3>1, <3>2
    <3>6. QED BY <2>1, <2>4, <3>1, <3>4, <3>5 DEF Restored
  <2>5. QED
    BY <1>0, <1>1, <1>a, <1>8, <2>2, <2>3, <2>4 DEF RestoreObject, RaisesWith, DeletionStep
<1>9. CASE CrashRemoval(r)
  <2>1. PICK pc : pc = IF RemovalAt(r, "restore") THEN "crashedRestoring" ELSE "crashed"
    OBVIOUS
  <2>2. /\ pc \in DeletionPcs /\ RemovalGo(r, pc) /\ UNCHANGED Stores
        /\ m.pc \in {"found", "backup", "delete", "commit", "restore"}
        /\ pc = IF m.pc = "restore" THEN "crashedRestoring" ELSE "crashed"
    BY <1>a, <1>9, <2>1 DEF CrashRemoval, RemovalAt, DeletionPcs, Stores
  <2>3. PICK n \in Removal : Becomes(n) /\ n.pc = pc /\ Kept(m, n)
    BY <1>2, <2>2
  <2>4. GaveUp(m, n)
    BY <2>2, <2>3 DEF GaveUp
  <2>5. QED BY <1>0, <1>1, <1>a, <2>3, <2>4 DEF DeletionStep
<1>10. QED BY <1>3, <1>4, <1>5, <1>6, <1>7, <1>8, <1>9 DEF DeleteDocument

-----------------------------------------------------------------------------
(***************************************************************************)
(* Typed(f) is kept                                                        *)
(***************************************************************************)
(* no step makes a row, and a row goes only to a commit *)
LEMMA RowsOnlyGo ==
  ASSUME NEW f, Typed(f), NEW m, NEW n, DeletionStep(f, m, n)
  PROVE  /\ document' \in [Docs -> Jobs \cup {NoJob}]
         /\ \A d \in Docs : document'[d] \in {document[d], NoJob}
         /\ ~Committed(m, n) => document' = document
<1>1. document \in [Docs -> Jobs \cup {NoJob}]
  BY DEF Typed, TypeOK
<1>2. CASE Committed(m, n)
  BY <1>1, <1>2 DEF Committed
<1>3. CASE ~Committed(m, n)
  <2>1. document' = document
    BY <1>3 DEF DeletionStep, Found, GaveUp, Collected, BackedUp, KeyGone, DeleteRaised,
                Restored, Stores
  <2>2. QED BY <1>1, <2>1
<1>4. QED BY <1>2, <1>3

LEMMA WellFormedKept ==
  ASSUME NEW f \in Origins, Typed(f), NEW m \in Removal, NEW n \in Removal,
         WellFormed(f, m), InStep(m), DeletionStep(f, m, n)
  PROVE  WellFormed(f, n) /\ InStep(n)'
<1>0. m.at \in 1..3 /\ n.at \in 1..3 /\ document \in [Docs -> Jobs \cup {NoJob}] /\ NoDoc \notin Docs
  BY RemovalParts, NullsDistinct DEF Typed, TypeOK
<1>1. CASE Found(f, m, n)
  <2>1. n.pc = "found" /\ n.doc \in Made(f) /\ n.keys = JustSource(f, n.doc) /\ n.at = 1
        /\ n.backup = {} /\ n.deleted = {} /\ n.lost = FALSE
    BY <1>1 DEF Found
  <2>2. QED BY <2>1 DEF WellFormed, InStep
<1>2. CASE GaveUp(m, n)
  <2>1. /\ n.pc \in {"notFound", "failed", "rollbackFailed", "crashed", "crashedRestoring"}
        /\ m.doc \in Made(f) \/ n.pc \in {"notFound", "failed"}
    BY <1>2 DEF GaveUp, WellFormed
  <2>2. Kept(m, n)
    BY <1>2 DEF GaveUp
  <2>3. QED BY <2>1, <2>2 DEF WellFormed, InStep, Kept
<1>3. CASE Collected(f, m, n)
  <2>1. /\ m.doc \in Made(f) /\ m.deleted = {} /\ m.lost = FALSE
        /\ m.backup \cup m.deleted \subseteq OwnKeys(f, m.doc)
    BY <1>3 DEF Collected, WellFormed
  <2>2. /\ n.pc = "backup" /\ n.doc = m.doc /\ n.at = 1 /\ n.backup = m.backup
        /\ n.deleted = {} /\ n.lost = FALSE /\ document' = document
        /\ n.keys = IF document[m.doc] # NoJob THEN AllKeys(f, m.doc) ELSE JustSource(f, m.doc)
    BY <1>3, <2>1 DEF Collected, Stores
  <2>3. Len(AllKeys(f, m.doc)) = 3 /\ Len(JustSource(f, m.doc)) = 1
    BY <2>1, OwnKeyFacts
  <2>4. n.at \in 1..Len(n.keys) /\ (document[m.doc] # NoJob => Len(n.keys) = 3)
    <3>1. document[m.doc] # NoJob => n.keys = AllKeys(f, m.doc)
      BY <2>2
    <3>2. document[m.doc] = NoJob => n.keys = JustSource(f, m.doc)
      BY <2>2
    <3>3. Len(n.keys) \in {1, 3} /\ (document[m.doc] # NoJob => Len(n.keys) = 3)
      BY <2>3, <3>1, <3>2
    <3>4. PICK len \in {1, 3} : len = Len(n.keys)
      BY <3>3
    <3>5. PICK at \in 1..3 : at = n.at
      BY <1>0
    <3>6. at = 1
      BY <2>2, <3>5
    <3>7. at \in 1..len
      BY <3>4, <3>6
    <3>8. QED BY <3>3, <3>4, <3>5, <3>7
  <2>5. QED BY <2>1, <2>2, <2>4 DEF WellFormed, InStep
<1>4. CASE BackedUp(m, n)
  <2>1. /\ m.doc \in Made(f) /\ m.deleted = {} /\ m.lost = FALSE /\ m.at \in 1..Len(m.keys)
        /\ m.keys \in {JustSource(f, m.doc), AllKeys(f, m.doc)}
        /\ m.backup \cup m.deleted \subseteq OwnKeys(f, m.doc)
        /\ document[m.doc] # NoJob => Len(m.keys) = 3
    BY <1>4 DEF BackedUp, WellFormed, InStep
  <2>2. m.keys[m.at] \in OwnKeys(f, m.doc) /\ Len(m.keys) \in {1, 3}
    BY <2>1, KeysAreOwn
  <2>3. /\ n.pc \in {"backup", "delete"} /\ n.doc = m.doc /\ n.keys = m.keys /\ n.deleted = {}
        /\ n.lost = FALSE /\ document' = document
        /\ n.backup \subseteq m.backup \cup {m.keys[m.at]}
        /\ n.at = 1 \/ (m.at < Len(m.keys) /\ n.at = m.at + 1)
    BY <1>4, <2>1 DEF BackedUp, Stores
  <2>4. n.at \in 1..Len(n.keys)
    <3>1. PICK len \in {1, 3} : len = Len(m.keys) /\ len = Len(n.keys)
      BY <2>2, <2>3
    <3>2. PICK at \in 1..3 : at = m.at
      BY <1>0
    <3>3. PICK next \in 1..3 : next = n.at
      BY <1>0
    <3>4. at \in 1..len /\ (next = 1 \/ (at < len /\ next = at + 1))
      BY <2>1, <2>3, <3>1, <3>2, <3>3
    <3>5. next \in 1..len
      BY <3>1, <3>4
    <3>6. QED BY <3>1, <3>3, <3>5
  <2>5. QED BY <2>1, <2>2, <2>3, <2>4 DEF WellFormed, InStep
<1>5. CASE KeyGone(m, n)
  <2>1. /\ m.doc \in Made(f) /\ m.lost = FALSE /\ m.at \in 1..Len(m.keys)
        /\ m.keys \in {JustSource(f, m.doc), AllKeys(f, m.doc)}
        /\ m.backup \cup m.deleted \subseteq OwnKeys(f, m.doc)
        /\ document[m.doc] # NoJob => Len(m.keys) = 3
    BY <1>5 DEF KeyGone, WellFormed, InStep
  <2>2. m.keys[m.at] \in OwnKeys(f, m.doc) /\ Len(m.keys) \in {1, 3}
    BY <2>1, KeysAreOwn
  <2>3. /\ n.pc \in {"delete", "commit"} /\ n.doc = m.doc /\ n.keys = m.keys
        /\ n.lost = FALSE /\ document' = document /\ n.backup = m.backup
        /\ n.deleted \subseteq m.deleted \cup {m.keys[m.at]}
        /\ n.at = 1 \/ (m.at < Len(m.keys) /\ n.at = m.at + 1)
    BY <1>5, <2>1 DEF KeyGone
  <2>4. n.at \in 1..Len(n.keys)
    <3>1. PICK len \in {1, 3} : len = Len(m.keys) /\ len = Len(n.keys)
      BY <2>2, <2>3
    <3>2. PICK at \in 1..3 : at = m.at
      BY <1>0
    <3>3. PICK next \in 1..3 : next = n.at
      BY <1>0
    <3>4. at \in 1..len /\ (next = 1 \/ (at < len /\ next = at + 1))
      BY <2>1, <2>3, <3>1, <3>2, <3>3
    <3>5. next \in 1..len
      BY <3>1, <3>4
    <3>6. QED BY <3>1, <3>3, <3>5
  <2>5. QED BY <2>1, <2>2, <2>3, <2>4 DEF WellFormed, InStep
<1>6. CASE DeleteRaised(m, n) \/ Restored(m, n)
  <2>1. /\ m.pc \in {"delete", "restore"} /\ m.doc \in Made(f)
    BY <1>6 DEF DeleteRaised, Restored, WellFormed
  <2>2. /\ n.pc = "restore" /\ n.doc = m.doc /\ n.keys = m.keys /\ n.backup = m.backup
        /\ n.deleted \subseteq m.deleted
    BY <1>6 DEF DeleteRaised, Restored, Kept
  <2>3. QED BY <2>1, <2>2 DEF WellFormed, InStep
<1>7. CASE Committed(m, n)
  <2>1. /\ n.pc \in {"deleted", "restore"} /\ Kept(m, n) /\ m.doc \in Made(f)
        /\ n.pc = "deleted" => document' = [document EXCEPT ![m.doc] = NoJob]
    BY <1>7 DEF Committed, WellFormed
  <2>2. n.pc = "deleted" => document'[m.doc] = NoJob
    BY <1>0, <2>1 DEF Made
  <2>3. QED BY <2>1, <2>2 DEF WellFormed, InStep, Kept
<1>8. QED BY <1>1, <1>2, <1>3, <1>4, <1>5, <1>6, <1>7 DEF DeletionStep

(* a reader's step leaves rows, objects and deletions alone *)
LEMMA ReaderSteps ==
  ASSUME NEW f \in Origins, Typed(f), NEW g \in Readers, OpenDocument(g) \/ ReadObject(g)
  PROVE  /\ UNCHANGED <<document, objects, removal>>
         /\ reading' \in [Readers -> Reading]
         /\ \A q \in Readers : WellRead(f, reading'[q])
<1>0. /\ reading \in [Readers -> Reading] /\ Rows(f) /\ document \in [Docs -> Jobs \cup {NoJob}]
      /\ \A q \in Readers : WellRead(f, reading[q])
  BY DEF Typed, TypeOK
<1>1. UNCHANGED <<document, objects, removal>>
  BY DEF OpenDocument, ReadObject
<1> DEFINE Becomes(h) == /\ h \in Reading /\ reading' = [reading EXCEPT ![g] = h]
                         /\ WellRead(f, h)
<1>2. ASSUME NEW pc \in ReaderPcs, reading' = [reading EXCEPT ![g].pc = pc], pc # "reading"
      PROVE  \E h : Becomes(h)
  <2>1. PICK h : h = [reading[g] EXCEPT !.pc = pc]
    OBVIOUS
  <2>2. h \in Reading /\ h.pc = pc
    BY <1>0, <2>1 DEF Reading
  <2>3. QED BY <1>2, <2>1, <2>2 DEF WellRead
<1>3. CASE OpenDocument(g)
  <2>1. ASSUME NEW d \in Docs, document[d] # NoJob,
               NEW keys \in {<<Source(document[d])>>, ResultKeysOf(d)},
               reading' = [reading EXCEPT ![g] = [pc |-> "reading", doc |-> d, wants |-> keys]]
        PROVE  \E h : Becomes(h)
    <3>1. keys \in {JustSource(f, d), ResultKeysOf(d)}
      BY <1>0, <2>1 DEF Rows, JustSource
    <3>0. d \in Made(f)
      BY <1>0, <2>1 DEF Rows, Made
    <3>2. keys \in Seq(Keys)
      <4>1. Markdown(d) \in Keys /\ Json(d) \in Keys
        BY DEF Markdown, Json, Keys, ResultKeys
      <4>2. ResultKeysOf(d) \in Seq(Keys)
        BY <4>1 DEF ResultKeysOf
      <4>3. QED BY <3>0, <3>1, <4>2, OwnKeyFacts
    <3>3. PICK h : h = [pc |-> "reading", doc |-> d, wants |-> keys]
      OBVIOUS
    <3>4. h \in Reading
      BY <3>2, <3>3 DEF Reading, ReaderPcs
    <3>5. WellRead(f, h)
      BY <3>0, <3>1, <3>3 DEF WellRead
    <3>6. QED BY <2>1, <3>3, <3>4, <3>5
  <2>2. ASSUME reading' = [reading EXCEPT ![g].pc = "notFound"]
               \/ reading' = [reading EXCEPT ![g].pc = "unavailable"]
        PROVE  \E h : Becomes(h)
    BY <1>2, <2>2 DEF ReaderPcs
  <2>3. \E h : Becomes(h)
    BY <1>3, <2>1, <2>2 DEF OpenDocument
  <2>4. QED BY <1>0, <1>1, <2>3
<1>4. CASE ReadObject(g)
  <2>1. PICK m \in Reading : m = reading[g]
    BY <1>0
  <2>2. /\ m.pc = "reading" /\ m.doc \in Made(f)
        /\ m.wants \in {JustSource(f, m.doc), ResultKeysOf(m.doc), <<Json(m.doc)>>}
    BY <1>0, <1>4, <2>1 DEF ReadObject, WellRead
  <2>3. PICK rest : rest = Tail(m.wants)
    OBVIOUS
  <2>4. rest \in Seq(Keys) /\ rest \in {<<>>, <<Json(m.doc)>>}
    <3>1. Json(m.doc) \in Keys
      BY <2>2, OwnKeyFacts DEF Json, Keys, ResultKeys
    <3>2. rest \in {<<>>, <<Json(m.doc)>>}
      <4>1. CASE m.wants = JustSource(f, m.doc)
        BY <2>3, <4>1 DEF JustSource
      <4>2. CASE m.wants = ResultKeysOf(m.doc)
        BY <2>3, <4>2 DEF ResultKeysOf
      <4>3. CASE m.wants = <<Json(m.doc)>>
        BY <2>3, <4>3
      <4>4. QED BY <2>2, <4>1, <4>2, <4>3
    <3>3. <<>> \in Seq(Keys) /\ <<Json(m.doc)>> \in Seq(Keys)
      BY <3>1
    <3>4. QED BY <3>2, <3>3
  <2>5. ASSUME reading' = [reading EXCEPT ![g].wants = Tail(@),
                 ![g].pc = IF Tail(reading[g].wants) = <<>> THEN "ok" ELSE @]
        PROVE  \E h : Becomes(h)
    <3>1. PICK pc \in ReaderPcs : pc = IF rest = <<>> THEN "ok" ELSE "reading"
      BY DEF ReaderPcs
    <3>2. PICK h : h = [m EXCEPT !.wants = rest, !.pc = pc]
      OBVIOUS
    <3>3. h \in Reading /\ h.pc = pc /\ h.doc = m.doc /\ h.wants = rest
      BY <2>4, <3>2 DEF Reading
    <3>4. reading' = [reading EXCEPT ![g] = h]
      BY <1>0, <2>1, <2>2, <2>3, <2>5, <3>1, <3>2
    <3>5. WellRead(f, h)
      BY <2>2, <2>4, <3>1, <3>3 DEF WellRead
    <3>6. QED BY <3>3, <3>4, <3>5
  <2>6. ASSUME reading' = [reading EXCEPT ![g].pc = "unavailable"]
        PROVE  \E h : Becomes(h)
    BY <1>2, <2>6 DEF ReaderPcs
  <2>7. \E h : Becomes(h)
    BY <1>4, <2>5, <2>6 DEF ReadObject
  <2>8. QED BY <1>0, <1>1, <2>7
<1>5. QED BY <1>3, <1>4

LEMMA TypedByDeletion ==
  ASSUME NEW f \in Origins, Typed(f), NEW r \in Deletions,
         NEW m \in Removal, NEW n \in Removal, m = removal[r],
         removal' = [removal EXCEPT ![r] = n], DeletionStep(f, m, n), reading' = reading
  PROVE  Typed(f)'
<1>0. /\ removal \in [Deletions -> Removal] /\ objects \subseteq Keys /\ Rows(f)
      /\ reading \in [Readers -> Reading] /\ \A g \in Readers : WellRead(f, reading[g])
      /\ \A q \in Deletions : WellFormed(f, removal[q]) /\ InStep(removal[q])
  BY DEF Typed, TypeOK
<1>1. /\ document' \in [Docs -> Jobs \cup {NoJob}]
      /\ \A d \in Docs : document'[d] \in {document[d], NoJob}
  BY RowsOnlyGo
<1>2. objects' \subseteq Keys
  <2>1. m.deleted \subseteq Keys
    BY RemovalParts
  <2>2. QED
    BY <1>0, <2>1 DEF DeletionStep, Found, GaveUp, Collected, BackedUp, KeyGone, DeleteRaised,
                      Committed, Restored, Stores
<1>3. TypeOK'
  BY <1>0, <1>1, <1>2 DEF TypeOK
<1>4. Rows(f)'
  BY <1>0, <1>1 DEF Rows
<1>5. WellFormed(f, n) /\ InStep(n)'
  BY <1>0, WellFormedKept
<1>6. ASSUME NEW q \in Deletions
      PROVE  (WellFormed(f, removal[q]) /\ InStep(removal[q]))'
  <2>1. CASE q = r
    BY <1>0, <1>5, <2>1 DEF InStep
  <2>2. CASE q # r
    <3>1. PICK k \in Removal : k = removal[q]
      BY <1>0
    <3>2. removal'[q] = k /\ WellFormed(f, k) /\ InStep(k)
      BY <1>0, <2>2, <3>1
    <3>3. k.pc \in {"backup", "delete", "commit", "deleted"} => k.doc \in Made(f)
      BY <3>2 DEF WellFormed
    <3>4. InStep(k)'
      BY <1>1, <3>2, <3>3 DEF InStep, Made
    <3>5. QED BY <3>2, <3>4 DEF InStep
  <2>3. QED BY <2>1, <2>2
<1>7. \A g \in Readers : WellRead(f, reading[g])'
  BY <1>0
<1>8. QED BY <1>3, <1>4, <1>6, <1>7 DEF Typed

(* f stays what it is through any step *)
LEMMA TypedStep ==
  ASSUME NEW f \in Origins, Typed(f), [Next]_docVars
  PROVE  Typed(f)'
<1>1. CASE UNCHANGED docVars
  BY <1>1 DEF docVars, Typed, TypeOK, Rows, InStep
<1>2. ASSUME NEW r \in Deletions, DeleteDocument(r) \/ CrashRemoval(r)
      PROVE  Typed(f)'
  BY <1>2, DeletionSteps, TypedByDeletion
<1>3. ASSUME NEW g \in Readers, OpenDocument(g) \/ ReadObject(g)
      PROVE  Typed(f)'
  <2>1. /\ UNCHANGED <<document, objects, removal>>
        /\ reading' \in [Readers -> Reading]
        /\ \A q \in Readers : WellRead(f, reading'[q])
    BY <1>3, ReaderSteps
  <2>2. QED BY <2>1 DEF Typed, TypeOK, Rows, InStep
<1>4. QED BY <1>1, <1>2, <1>3 DEF Next, Requests

(* what requests take from the stores is a row, or an object of a document *)
(* that was made                                                           *)
LEMMA RequestsTakeOwn ==
  ASSUME NEW f \in Origins, Typed(f), Next
  PROVE  /\ \A d \in Docs : document'[d] \in {document[d], NoJob}
         /\ document' # document =>
              \E d \in Docs : document' = [document EXCEPT ![d] = NoJob]
         /\ \A key \in objects \ objects' : \E d \in Made(f) : key \in OwnKeys(f, d)
<1>1. ASSUME NEW r \in Deletions, DeleteDocument(r) \/ CrashRemoval(r)
      PROVE  /\ \A d \in Docs : document'[d] \in {document[d], NoJob}
             /\ document' # document =>
                  \E d \in Docs : document' = [document EXCEPT ![d] = NoJob]
             /\ \A key \in objects \ objects' : \E d \in Made(f) : key \in OwnKeys(f, d)
  <2>1. PICK m, n \in Removal : m = removal[r] /\ DeletionStep(f, m, n)
    BY <1>1, DeletionSteps
  <2>2. /\ \A d \in Docs : document'[d] \in {document[d], NoJob}
        /\ document' # document => Committed(m, n)
    BY <2>1, RowsOnlyGo
  <2>a. Committed(m, n) => /\ m.doc \in Docs
                           /\ document' \in {document, [document EXCEPT ![m.doc] = NoJob]}
    BY <2>1 DEF Committed, Typed, WellFormed, Made
  <2>3. ASSUME NEW key \in objects \ objects'
        PROVE  m.doc \in Made(f) /\ key \in OwnKeys(f, m.doc)
    <3>1. m.pc = "delete" /\ key = m.keys[m.at]
      BY <2>1, <2>3 DEF DeletionStep, Found, GaveUp, Collected, BackedUp, KeyGone,
           DeleteRaised, Committed, Restored, Stores
    <3>2. /\ m.doc \in Made(f) /\ m.keys \in {JustSource(f, m.doc), AllKeys(f, m.doc)}
          /\ m.at \in 1..Len(m.keys)
      BY <2>1, <3>1 DEF Typed, WellFormed
    <3>3. QED BY <3>1, <3>2, KeysAreOwn
  <2>4. QED BY <2>2, <2>a, <2>3
<1>2. ASSUME NEW g \in Readers, OpenDocument(g) \/ ReadObject(g)
      PROVE  UNCHANGED <<document, objects>>
  BY <1>2, ReaderSteps
<1>3. QED BY <1>1, <1>2 DEF Next, Requests

(* what holds at the start of requests, whatever the rows are by then *)
LEMMA TypedAtStart ==
  ASSUME InitRequests, document \in Origins, objects \subseteq Keys
  PROVE  Typed(document)
<1>1. PICK f \in Origins : f = document
  OBVIOUS
<1>2. IdleRemoval \in Removal /\ IdleReading \in Reading
  <2>1. <<>> \in Seq(Keys)
    OBVIOUS
  <2>2. IdleReading \in Reading
    BY <2>1 DEF IdleReading, Reading, ReaderPcs
  <2>3. QED BY <2>1, <2>2 DEF IdleRemoval, Removal, DeletionPcs
<1>3. TypeOK
  BY <1>2 DEF InitRequests, TypeOK, Origins
<1>4. WellFormed(f, IdleRemoval) /\ InStep(IdleRemoval)
  BY NullsDistinct DEF WellFormed, InStep, IdleRemoval, Made
<1>5. WellRead(f, IdleReading)
  BY DEF WellRead, IdleReading
<1>6. Rows(f)
  BY <1>1 DEF Rows
<1>7. Typed(f)
  BY <1>3, <1>4, <1>5, <1>6 DEF Typed, InitRequests
<1>8. QED BY <1>1, <1>7

(* what holds at the start of this module, of the jobs the rows name then *)
LEMMA InitialOrigin ==
  ASSUME Init
  PROVE  \E f \in Origins : /\ Typed(f) /\ f = document
                            /\ objects = {Source(f[d]) : d \in Docs} \cup ResultKeys
                            /\ \A r \in Deletions : removal[r] = IdleRemoval
<1>1. PICK f \in Origins : f = document
  BY DEF Init, Origins
<1>2. objects \subseteq Keys
  BY DEF Init, Source, Keys
<1>3. Typed(f)
  BY <1>1, <1>2, TypedAtStart DEF Init
<1>4. QED BY <1>1, <1>3 DEF Init, InitRequests

(***************************************************************************)
(* Every deletion and every read keep the local variables the code gives   *)
(* them, for any number of requests that interleave at any call.           *)
(***************************************************************************)
THEOREM DocumentsTyped == Spec => []TypeOK
<1>1. Init => TypedInv
  BY InitialOrigin DEF TypedInv
<1>2. TypedInv /\ [Next]_docVars => TypedInv'
  BY TypedStep DEF TypedInv
<1>3. TypedInv => TypeOK
  BY DEF TypedInv, Typed
<1>4. QED BY <1>1, <1>2, <1>3, PTL DEF Spec

-----------------------------------------------------------------------------
(***************************************************************************)
(* Missing objects are accounted for, if the storage tells of every object *)
(* it deletes or writes                                                    *)
(***************************************************************************)
StorageAcknowledged == "storage" \notin Unacknowledged

LEMMA AnswerKept ==
  ASSUME NEW f, NEW m \in Removal, NEW n \in Removal, DeletionStep(f, m, n),
         NEW d, NEW key, AnswersFor(m, d, key), key \notin objects'
  PROVE  AnswersFor(n, d, key)
<1>0. /\ m.doc = d
      /\ m.pc \in {"delete", "commit", "restore", "deleted", "rollbackFailed", "crashed",
                   "crashedRestoring"}
  BY DEF AnswersFor
<1>1. CASE Found(f, m, n) \/ Collected(f, m, n) \/ BackedUp(m, n)
  BY <1>0, <1>1 DEF Found, Collected, BackedUp
<1>2. CASE GaveUp(m, n)
  <2>1. n.doc = m.doc /\ n.lost = m.lost
    BY <1>2 DEF GaveUp, Kept
  <2>2. n.pc \in {"crashed", "crashedRestoring", "rollbackFailed"}
    BY <1>0, <1>2 DEF GaveUp, AnswersFor
  <2>3. QED BY <1>0, <2>1, <2>2 DEF AnswersFor
<1>3. CASE KeyGone(m, n)
  BY <1>0, <1>3 DEF KeyGone, AnswersFor
<1>4. CASE DeleteRaised(m, n) \/ Committed(m, n)
  BY <1>0, <1>4 DEF DeleteRaised, Committed, Kept, AnswersFor
<1>5. CASE Restored(m, n)
  <2>1. PICK k \in m.deleted :
          /\ n.deleted = m.deleted \ {k}
          /\ \/ objects' = objects \cup {k} /\ n.lost = m.lost
             \/ n.lost = TRUE
    BY <1>5 DEF Restored
  <2>2. m.pc = "restore" /\ n.pc = "restore" /\ n.doc = d
    BY <1>0, <1>5 DEF Restored
  <2>3. key \in m.deleted \/ m.lost
    BY <2>2 DEF AnswersFor
  <2>4. CASE n.lost = TRUE
    BY <2>2, <2>4 DEF AnswersFor
  <2>5. CASE objects' = objects \cup {k} /\ n.lost = m.lost
    BY <2>1, <2>2, <2>3, <2>5 DEF AnswersFor
  <2>6. QED BY <2>1, <2>4, <2>5
<1>6. QED BY <1>1, <1>2, <1>3, <1>4, <1>5 DEF DeletionStep

LEMMA AccountedStep ==
  ASSUME StorageAcknowledged, NEW f \in Origins, Typed(f), Accounted(f), [Next]_docVars
  PROVE  Accounted(f)'
<1>1. CASE UNCHANGED docVars
  BY <1>1 DEF docVars, Accounted
<1>2. ASSUME NEW r \in Deletions, DeleteDocument(r) \/ CrashRemoval(r)
      PROVE  Accounted(f)'
  <2>1. PICK m, n \in Removal : /\ m = removal[r] /\ removal' = [removal EXCEPT ![r] = n]
                                /\ DeletionStep(f, m, n)
    BY <1>2, DeletionSteps
  <2>2. removal \in [Deletions -> Removal] /\ WellFormed(f, m)
    BY <2>1 DEF Typed, TypeOK
  <2>3. ASSUME NEW d \in Made(f), NEW key \in OwnKeys(f, d), key \notin objects'
        PROVE  \E q \in Deletions : AnswersFor(removal'[q], d, key)
    <3>1. CASE key \notin objects
      <4>1. PICK q \in Deletions : AnswersFor(removal[q], d, key)
        BY <3>1, <2>3 DEF Accounted
      <4>2. CASE q = r
        <5>1. AnswersFor(n, d, key)
          BY <2>1, <2>3, <4>1, <4>2, AnswerKept
        <5>2. QED BY <2>1, <2>2, <5>1
      <4>3. CASE q # r
        BY <2>1, <2>2, <4>1, <4>3
      <4>4. QED BY <4>2, <4>3
    <3>2. CASE key \in objects
      <4>1. KeyGone(m, n) /\ objects' = objects \ {m.keys[m.at]} /\ key = m.keys[m.at]
            /\ n.deleted = m.deleted \cup {m.keys[m.at]}
        BY <2>1, <2>3, <3>2 DEF DeletionStep, Found, GaveUp, Collected, BackedUp, KeyGone,
             DeleteRaised, Committed, Restored, Stores, StorageAcknowledged
      <4>2. m.pc = "delete" /\ n.pc \in {"delete", "commit"} /\ n.doc = m.doc
        BY <4>1 DEF KeyGone
      <4>3. m.doc \in Made(f) /\ key \in OwnKeys(f, m.doc)
        <5>1. /\ m.doc \in Made(f) /\ m.keys \in {JustSource(f, m.doc), AllKeys(f, m.doc)}
              /\ m.at \in 1..Len(m.keys)
          BY <2>2, <4>2 DEF WellFormed
        <5>2. QED BY <4>1, <5>1, KeysAreOwn
      <4>4. m.doc = d
        BY <2>3, <4>3, OwnKeyFacts
      <4>5. AnswersFor(n, d, key)
        BY <4>1, <4>2, <4>4 DEF AnswersFor
      <4>6. QED BY <2>1, <2>2, <4>5
    <3>3. QED BY <3>1, <3>2
  <2>4. QED BY <2>3 DEF Accounted
<1>3. ASSUME NEW g \in Readers, OpenDocument(g) \/ ReadObject(g)
      PROVE  Accounted(f)'
  <2>1. UNCHANGED <<document, objects, removal>>
    BY <1>3, ReaderSteps
  <2>2. QED BY <2>1 DEF Accounted
<1>4. QED BY <1>1, <1>2, <1>3 DEF Next, Requests

LEMMA LossInvHolds ==
  ASSUME StorageAcknowledged
  PROVE  Spec => []LossInv
<1>1. Init => LossInv
  <2>1. SUFFICES ASSUME Init PROVE LossInv
    OBVIOUS
  <2>2. PICK f \in Origins : Typed(f) /\ objects = {Source(f[d]) : d \in Docs} \cup ResultKeys
    BY <2>1, InitialOrigin
  <2>3. \A d \in Docs : OwnKeys(f, d) \subseteq objects
    BY <2>2 DEF OwnKeys, ResultKeys, Markdown, Json
  <2>4. QED BY <2>2, <2>3 DEF LossInv, Accounted, Made
<1>2. LossInv /\ [Next]_docVars => LossInv'
  BY TypedStep, AccountedStep DEF LossInv
<1>3. QED BY <1>1, <1>2, PTL DEF Spec

(* what is accounted for is reported, if the row is still there *)
LEMMA AccountedIsReported ==
  ASSUME NEW f \in Origins, Typed(f), Accounted(f)
  PROVE  LossIsReported
<1>1. SUFFICES ASSUME NEW d \in Docs, document[d] # NoJob, Missing(d) # {}
               PROVE  \E r \in Deletions : removal[r].doc = d /\
                        (AtWork(r) \/ CutOff(r) \/ removal[r].pc = "rollbackFailed")
  BY Zenon DEF LossIsReported
<1>2. document[d] = f[d] /\ d \in Made(f)
  BY <1>1 DEF Typed, Rows, Made
<1>3. PICK key \in OwnKeys(f, d) : key \notin objects
  BY <1>1, <1>2 DEF Missing, OwnKeys
<1>4. PICK r \in Deletions : AnswersFor(removal[r], d, key)
  BY <1>2, <1>3 DEF Accounted
<1>5. removal[r].pc # "deleted"
  BY <1>1, <1>4 DEF Typed, InStep, AnswersFor
<1>6. QED BY <1>4, <1>5 DEF AnswersFor, AtWork, CutOff

(***************************************************************************)
(* Whatever the database does and wherever the API stops: while a          *)
(* document's row is there, an object of it is missing only beside a       *)
(* delete of it, after one that a crash cut off, or after one that said    *)
(* its rollback had failed.  The storage must acknowledge what it does: a  *)
(* delete_object that raises after its effect is not on deleted_keys, so   *)
(* nothing puts that object back.                                          *)
(***************************************************************************)
THEOREM LossesAreReported ==
  ASSUME StorageAcknowledged
  PROVE  Spec => []LossIsReported
<1>1. LossInv => LossIsReported
  BY AccountedIsReported DEF LossInv
<1>2. QED BY <1>1, LossInvHolds, PTL

(***************************************************************************)
(* A read that finds an object missing runs beside or after a delete of    *)
(* that document that is at work, succeeded, was cut off or could not be   *)
(* undone: reads that begin after a rolled back delete find everything.    *)
(***************************************************************************)
THEOREM RolledBackDeletesLeaveReadsAlone ==
  ASSUME StorageAcknowledged
  PROVE  Spec => ReadsFailOnlyBesideDeletes
<1>1. ASSUME LossInv, NEW g \in Readers, FindsNothing(g)
      PROVE  \E r \in Deletions : removal[r].doc = reading[g].doc /\ Breaks(r)
  <2>1. PICK f \in Origins : Typed(f) /\ Accounted(f)
    BY <1>1 DEF LossInv
  <2>2. PICK d, key : d = reading[g].doc /\ key = Head(reading[g].wants)
    OBVIOUS
  <2>3. d \in Made(f) /\ key \in OwnKeys(f, d) /\ key \notin objects
    <3>1. d \in Made(f)
          /\ reading[g].wants \in {JustSource(f, d), ResultKeysOf(d), <<Json(d)>>}
      BY <1>1, <2>1, <2>2 DEF Typed, WellRead, FindsNothing
    <3>2. key \notin objects
      BY <1>1, <2>2 DEF FindsNothing
    <3>3. key \in {Source(f[d]), Markdown(d), Json(d)}
      BY <2>2, <3>1 DEF JustSource, ResultKeysOf
    <3>4. QED BY <3>1, <3>2, <3>3 DEF OwnKeys
  <2>4. PICK r \in Deletions : AnswersFor(removal[r], d, key)
    BY <2>1, <2>3 DEF Accounted
  <2>5. QED BY <2>2, <2>4 DEF AnswersFor, Breaks, AtWork, CutOff
<1>2. LossInv => \A g \in Readers : FindsNothing(g) /\ reading'[g].pc = "unavailable" =>
                   \E r \in Deletions : removal[r].doc = reading[g].doc /\ Breaks(r)
  BY <1>1
<1>3. QED BY <1>2, LossInvHolds, PTL DEF ReadsFailOnlyBesideDeletes

-----------------------------------------------------------------------------
(***************************************************************************)
(* What stays behind was put back, whatever fails                          *)
(***************************************************************************)
LEMMA RestoringKept ==
  ASSUME NEW f, NEW m, NEW n, DeletionStep(f, m, n), Restoring(m)
  PROVE  Restoring(n) /\ n.doc = m.doc
BY DEF DeletionStep, Found, GaveUp, Collected, BackedUp, KeyGone, DeleteRaised, Committed,
       Restored, Restoring, Kept

(* a deletion is past no key that is still there, unless it was before *)
LEMMA PassedBefore ==
  ASSUME NEW f \in Origins, NEW m \in Removal, NEW n \in Removal, WellFormed(f, m),
         DeletionStep(f, m, n), NEW key \in objects', Passed(n, key)
  PROVE  Passed(m, key) /\ m.doc = n.doc
<1>0. n.pc \in {"delete", "commit"} /\ m.at \in 1..3 /\ n.at \in 1..3
  BY RemovalParts DEF Passed
<1>1. CASE BackedUp(m, n)
  <2>1. PICK at \in 1..3 : at = n.at
    BY <1>0
  <2>2. n.pc = "delete" /\ at = 1
    BY <1>0, <1>1, <2>1 DEF BackedUp
  <2>3. PICK i \in 1..Len(n.keys) : i < at
    BY <2>1, <2>2 DEF Passed
  <2>4. QED BY <2>2, <2>3
<1>2. CASE KeyGone(m, n)
  <2>1. /\ m.pc = "delete" /\ n.doc = m.doc /\ n.keys = m.keys /\ m.keys[m.at] \notin objects'
        /\ \/ n.pc = "delete" /\ m.at < Len(m.keys) /\ n.at = m.at + 1
           \/ n.pc = "commit" /\ m.at = Len(m.keys) /\ n.at = 1
    BY <1>2 DEF KeyGone
  <2>2. Len(m.keys) \in Nat
    BY RemovalParts
  <2>3. PICK i \in 1..Len(m.keys) : m.keys[i] = key /\ (n.pc = "delete" => i < n.at)
    BY <2>1 DEF Passed
  <2>4. i # m.at
    BY <2>1, <2>3
  <2>5. PICK at \in 1..3, next \in 1..3 : at = m.at /\ next = n.at
    BY <1>0
  <2>6. i < at
    <3>1. CASE n.pc = "delete"
      <4>1. next = at + 1 /\ i < next /\ i # at
        BY <2>1, <2>3, <2>4, <2>5, <3>1
      <4>2. QED BY <4>1
    <3>2. CASE n.pc = "commit"
      <4>1. at = Len(m.keys) /\ i # at
        BY <2>1, <2>4, <2>5, <3>2
      <4>2. QED BY <2>2, <4>1
    <3>3. QED BY <1>0, <3>1, <3>2
  <2>7. QED BY <2>1, <2>3, <2>5, <2>6 DEF Passed
<1>3. CASE ~BackedUp(m, n) /\ ~KeyGone(m, n)
  BY <1>0, <1>3 DEF DeletionStep, Found, GaveUp, Collected, DeleteRaised, Committed, Restored
<1>4. QED BY <1>1, <1>2, <1>3

LEMMA SettledStep ==
  ASSUME NEW f \in Origins, Typed(f), Settled(f), [Next]_docVars
  PROVE  Settled(f)'
<1>1. CASE UNCHANGED docVars
  BY <1>1 DEF docVars, Settled, Gone
<1>2. ASSUME NEW r \in Deletions, DeleteDocument(r) \/ CrashRemoval(r)
      PROVE  Settled(f)'
  <2>1. PICK m, n \in Removal : /\ m = removal[r] /\ removal' = [removal EXCEPT ![r] = n]
                                /\ DeletionStep(f, m, n)
    BY <1>2, DeletionSteps
  <2>2. removal \in [Deletions -> Removal] /\ WellFormed(f, m) /\ InStep(m)
    BY <2>1 DEF Typed, TypeOK
  <2>3. removal'[r] = n /\ \A q \in Deletions : q # r => removal'[q] = removal[q]
    BY <2>1, <2>2
  <2>4. SUFFICES ASSUME NEW d \in Made(f), NEW key \in OwnKeys(f, d), key \in objects',
                        Gone(d, key)'
                 PROVE  \E o \in Deletions : removal'[o].doc = d /\ Restoring(removal'[o])
    BY DEF Settled
  <2>5. CASE \E o \in Deletions : removal[o].doc = d /\ Restoring(removal[o])
    <3>1. PICK o \in Deletions : removal[o].doc = d /\ Restoring(removal[o])
      BY <2>5
    <3>2. CASE o = r
      BY <2>1, <2>3, <3>1, <3>2, RestoringKept
    <3>3. CASE o # r
      BY <2>3, <3>1, <3>3
    <3>4. QED BY <3>2, <3>3
  <2>6. CASE key \notin objects
    <3>1. Restored(m, n) /\ key \in m.deleted
      BY <2>1, <2>4, <2>6 DEF DeletionStep, Found, GaveUp, Collected, BackedUp, KeyGone,
           DeleteRaised, Committed, Restored, Stores
    <3>2. m.doc \in Made(f) /\ key \in OwnKeys(f, m.doc) /\ n.pc = "restore" /\ n.doc = m.doc
      BY <2>2, <3>1 DEF Restored, WellFormed
    <3>3. n.doc = d
      BY <2>4, <3>2, OwnKeyFacts
    <3>4. QED BY <2>3, <3>2, <3>3 DEF Restoring
  <2>7. CASE Gone(d, key) /\ key \in objects
    BY <2>4, <2>5, <2>7 DEF Settled
  <2>8. CASE ~Gone(d, key)
    <3>1. CASE document'[d] = NoJob
      <4>1. document[d] # NoJob
        BY <2>8 DEF Gone
      <4>2. document' # document
        BY <3>1, <4>1
      <4>3. Committed(m, n) /\ m.doc \in Made(f)
        BY <2>1, <2>2, <4>2, RowsOnlyGo DEF Committed, WellFormed
      <4>4. m.pc = "commit" /\ n.doc = m.doc /\ n.pc \in {"deleted", "restore"}
        BY <4>3 DEF Committed, Kept
      <4>5. m.doc = d
        <5>1. document' \in {document, [document EXCEPT ![m.doc] = NoJob]}
          BY <4>3 DEF Committed
        <5>2. document \in [Docs -> Jobs \cup {NoJob}]
          BY DEF Typed, TypeOK
        <5>3. m.doc \in Docs /\ d \in Docs
          BY <4>3 DEF Made
        <5>4. QED BY <3>1, <4>1, <5>1, <5>2, <5>3
      <4>6. n.pc # "deleted"
        <5>1. Len(m.keys) = 3
          BY <2>2, <4>1, <4>4, <4>5 DEF InStep
        <5>2. m.keys \in {JustSource(f, m.doc), AllKeys(f, m.doc)}
          BY <2>2, <4>3 DEF WellFormed
        <5>3. \A k \in OwnKeys(f, m.doc) : \E i \in 1..Len(m.keys) : m.keys[i] = k
          BY <4>3, <5>1, <5>2, KeysAreOwn
        <5>4. \E i \in 1..Len(m.keys) : m.keys[i] = key
          BY <2>4, <4>5, <5>3
        <5>5. Passed(m, key)
          BY <4>4, <5>4 DEF Passed
        <5>6. QED BY <2>1, <2>8, <4>5, <5>5 DEF Gone
      <4>7. QED BY <2>3, <4>4, <4>5, <4>6 DEF Restoring
    <3>2. CASE \E q \in Deletions : removal'[q].doc = d /\ Passed(removal'[q], key)
      <4>1. PICK q \in Deletions : removal'[q].doc = d /\ Passed(removal'[q], key)
        BY <3>2
      <4>2. removal[q].doc = d /\ Passed(removal[q], key)
        <5>1. CASE q = r
          <6>1. Passed(m, key) /\ m.doc = n.doc
            BY <2>1, <2>2, <2>3, <2>4, <4>1, <5>1, PassedBefore
          <6>2. QED BY <2>1, <2>3, <4>1, <5>1, <6>1
        <5>2. CASE q # r
          BY <2>3, <4>1, <5>2
        <5>3. QED BY <5>1, <5>2
      <4>3. QED BY <2>8, <4>2 DEF Gone
    <3>3. QED BY <2>4, <3>1, <3>2 DEF Gone
  <2>9. QED BY <2>6, <2>7, <2>8
<1>3. ASSUME NEW g \in Readers, OpenDocument(g) \/ ReadObject(g)
      PROVE  Settled(f)'
  <2>1. UNCHANGED <<document, objects, removal>>
    BY <1>3, ReaderSteps
  <2>2. QED BY <2>1 DEF Settled, Gone
<1>4. QED BY <1>1, <1>2, <1>3 DEF Next, Requests

(***************************************************************************)
(* Whatever fails or stops, with or without effect: once no delete is at   *)
(* work, an object of a deleted document is there only if another delete   *)
(* of it put it back and failed.  No interleaving of deletes that read the *)
(* row, its result and the objects at different times loses track of one.  *)
(***************************************************************************)
THEOREM OnlyRestoresLeaveObjects == Spec => []OnlyRollbacksLeaveObjects
<1>1. Init => SettledInv
  <2>1. SUFFICES ASSUME Init PROVE SettledInv
    OBVIOUS
  <2>2. PICK f \in Origins : /\ Typed(f) /\ f = document
                             /\ \A r \in Deletions : removal[r] = IdleRemoval
    BY <2>1, InitialOrigin
  <2>3. \A d \in Docs : document[d] # NoJob
    BY <2>1, NullsDistinct DEF Init
  <2>4. \A r \in Deletions : \A d \in Docs : removal[r].doc # d
    BY <2>2, NullsDistinct DEF IdleRemoval
  <2>5. QED BY <2>2, <2>3, <2>4 DEF SettledInv, Settled, Gone, Made
<1>2. SettledInv /\ [Next]_docVars => SettledInv'
  BY TypedStep, SettledStep DEF SettledInv
<1>3. SettledInv => OnlyRollbacksLeaveObjects
  <2>1. SUFFICES ASSUME SettledInv, \A q \in Deletions : ~AtWork(q),
                        NEW r \in Deletions, NEW key \in LeftBehind(r)
                 PROVE  \E o \in Deletions : removal[o].doc = removal[r].doc /\ PutBack(o)
    BY DEF OnlyRollbacksLeaveObjects
  <2>2. PICK f \in Origins : Typed(f) /\ Settled(f)
    BY <2>1 DEF SettledInv
  <2>3. PICK d : d = removal[r].doc
    OBVIOUS
  <2>4. removal[r] \in Removal /\ WellFormed(f, removal[r])
    BY <2>2 DEF Typed, TypeOK
  <2>5. /\ d \in Docs /\ document[d] = NoJob
        /\ key \in {removal[r].keys[1], Markdown(d), Json(d)} /\ key \in objects
    BY <2>1, <2>3, <2>4, RemovalParts DEF LeftBehind
  <2>a. d \in Made(f)
    BY <2>3, <2>4, <2>5, NullsDistinct DEF WellFormed
  <2>6. removal[r].keys[1] = Source(f[d])
    BY <2>3, <2>4, <2>a, OwnKeyFacts DEF WellFormed
  <2>7. key \in OwnKeys(f, d) \cap objects /\ Gone(d, key)
    BY <2>5, <2>6 DEF OwnKeys, Gone
  <2>8. PICK o \in Deletions : removal[o].doc = d /\ Restoring(removal[o])
    BY <2>2, <2>a, <2>7 DEF Settled
  <2>9. QED BY <2>1, <2>3, <2>8 DEF Restoring, PutBack, AtWork
<1>4. QED BY <1>1, <1>2, <1>3, PTL DEF Spec

=============================================================================
