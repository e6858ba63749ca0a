----------------------- MODULE DocumentCreate_proofs -----------------------
(***************************************************************************)
(* Proofs about DocumentCreate, for any number of documents made side by   *)
(* side.                                                                   *)
(***************************************************************************)
EXTENDS DocumentCreate, FiniteSetTheorems, TLAPS

(***************************************************************************)
(* What the local variables m of a request say of its row w and of the     *)
(* parts of its document that are in the storage                           *)
(***************************************************************************)
Here(d) == {part \in Kinds : <<part, d>> \in objects}

Prefixes == {{}, {"source"}, {"source", "markdown"}}

Shape(m, w, here) ==
  /\ m.pc \in {"idle", "put"} => w = NoRow /\ m.left = {} /\ m.uploaded \in Prefixes
  /\ m.pc = "commit" => w = NoRow /\ m.left = {} /\ m.uploaded = Kinds
  /\ m.pc \in {"idle", "put", "commit"} => m.uploaded \subseteq here
  /\ m.pc = "refresh" => w = ObjectsRow /\ here = Kinds
  /\ m.pc = "fallbackRefresh" => w.stored /\ w.inline
  /\ m.pc = "created" => w.stored /\ (w.inline \/ (w.keys = Kinds /\ here = Kinds))

(* every object is on a list of the request, or on its row *)
Listed(m, w, here) ==
  /\ m.pc \in {"idle", "put", "commit"} => here \subseteq m.uploaded
  /\ m.pc = "cleanup" => here \subseteq m.uploaded \cup m.left
  /\ m.pc = "fallback" => here \subseteq m.left
  /\ m.pc \in {"fallbackRefresh", "created", "failed"} => here \subseteq w.keys

ShapeInv  == TypeOK /\ \A d \in Docs : Shape(create[d], row[d], Here(d))
ListedInv == ShapeInv /\ \A d \in Docs : Listed(create[d], row[d], Here(d))

StorageAcknowledged == "storage" \notin Unacknowledged

-----------------------------------------------------------------------------
(***************************************************************************)
(* One step of the request for d                                           *)
(***************************************************************************)
(* the parts are put in the order of Parts *)
LEMMA NextPart ==
  ASSUME NEW uploaded \in Prefixes
  PROVE  \E part \in Kinds :
           /\ part = Parts[Cardinality(uploaded) + 1] /\ part \notin uploaded
           /\ IF part = "json" THEN uploaded \cup {part} = Kinds
                               ELSE uploaded \cup {part} \in Prefixes
<1> DEFINE next == Parts[Cardinality(uploaded) + 1]
<1>1. CASE uploaded = {}
  <2>1. Cardinality(uploaded) = 0
    BY <1>1, FS_EmptySet
  <2>2. next = "source"
    BY <2>1 DEF Parts
  <2>3. uploaded \cup {"source"} \in Prefixes /\ "source" \in Kinds
    BY <1>1 DEF Prefixes, Kinds
  <2>4. QED BY <1>1, <2>2, <2>3
<1>2. CASE uploaded = {"source"}
  <2>1. Cardinality(uploaded) = 1
    BY <1>2, FS_Singleton
  <2>2. next = "markdown"
    BY <2>1 DEF Parts
  <2>3. uploaded \cup {"markdown"} \in Prefixes /\ "markdown" \in Kinds
    BY <1>2 DEF Prefixes, Kinds
  <2>4. QED BY <1>2, <2>2, <2>3
<1>3. CASE uploaded = {"source", "markdown"}
  <2>1. Cardinality({"source"} \cup {"markdown"}) = Cardinality({"source"}) + 1
    BY FS_Singleton, FS_AddElement
  <2>2. {"source"} \cup {"markdown"} = {"source", "markdown"} /\ Cardinality({"source"}) = 1
    BY FS_Singleton
  <2>3. Cardinality(uploaded) = 2
    BY <1>3, <2>1, <2>2
  <2>4. next = "json"
    BY <2>3 DEF Parts
  <2>5. uploaded \cup {"json"} = Kinds /\ "json" \in Kinds
    BY <1>3 DEF Kinds
  <2>6. QED BY <1>3, <2>4, <2>5
<1>4. QED BY <1>1, <1>2, <1>3 DEF Prefixes

LEMMA ObjectAdded ==
  ASSUME NEW d \in Docs, NEW part \in Kinds, objects' = objects \cup {<<part, d>>}
  PROVE  Here(d)' = Here(d) \cup {part} /\ \A e \in Docs \ {d} : Here(e)' = Here(e)
BY DEF Here

LEMMA ObjectRemoved ==
  ASSUME NEW d \in Docs, NEW part \in Kinds, objects' = objects \ {<<part, d>>}
  PROVE  Here(d)' = Here(d) \ {part} /\ \A e \in Docs \ {d} : Here(e)' = Here(e)
BY DEF Here

(* m, w and h before the step; n, v and g after it *)
Kept(m, n) == n.uploaded = m.uploaded /\ n.left = m.left

PartPut(m, n, w, v, h, g) ==
  /\ m.pc = "put" /\ v = w /\ n.left = m.left
  /\ \E part \in Kinds :
       /\ n.uploaded = m.uploaded \cup {part} /\ g = h \cup {part}
       /\ IF part = "json" THEN n.pc = "commit" /\ n.uploaded = Kinds
                           ELSE n.pc = "put" /\ n.uploaded \in Prefixes

PutRaised(m, n, w, v, h, g) ==
  /\ m.pc = "put" /\ n.pc = "cleanup" /\ v = w /\ Kept(m, n)
  /\ g = h \/ "storage" \in Unacknowledged

RowCommitted(m, n, w, v, h, g) ==
  /\ m.pc = "commit" /\ g = h /\ Kept(m, n)
  /\ (n.pc = "refresh" /\ v = ObjectsRow) \/ n.pc = "cleanup"

PartCleaned(m, n, w, v, h, g) ==
  /\ m.pc = "cleanup" /\ n.pc = "cleanup" /\ v = w
  /\ \E part \in m.uploaded :
       /\ n.uploaded = m.uploaded \ {part}
       /\ \/ g = h \ {part} /\ n.left = m.left
          \/ g \subseteq h /\ n.left = m.left \cup {part}

CleanedUp(m, n, w, v, h, g) ==
  /\ m.pc = "cleanup" /\ m.uploaded = {} /\ v = w /\ g = h /\ Kept(m, n)
  /\ (n.pc = "failed" /\ m.left = {}) \/ n.pc = "fallback"

FallbackCommitted(m, n, w, v, h, g) ==
  /\ m.pc = "fallback" /\ g = h /\ Kept(m, n)
  /\ (n.pc = "fallbackRefresh" /\ v = FallbackRow(m.left)) \/ n.pc = "incomplete"

MovedOn(m, n, w, v, h, g) ==
  /\ v = w /\ g = h /\ Kept(m, n)
  /\ \/ m.pc = "idle" /\ n.pc = "put"
     \/ m.pc \in {"refresh", "fallbackRefresh"} /\ n.pc \in {"created", "failed"}

CreateStep(m, n, w, v, h, g) ==
  \/ PartPut(m, n, w, v, h, g) \/ PutRaised(m, n, w, v, h, g)
  \/ RowCommitted(m, n, w, v, h, g) \/ PartCleaned(m, n, w, v, h, g)
  \/ CleanedUp(m, n, w, v, h, g) \/ FallbackCommitted(m, n, w, v, h, g)
  \/ MovedOn(m, n, w, v, h, g)

Step(d) == \/ Begin(d) \/ PutPart(d) \/ CommitRow(d) \/ RefreshCreated(d)
           \/ CleanupPart(d) \/ CommitFallback(d) \/ RefreshFallback(d)

LEMMA CreateSteps ==
  ASSUME ShapeInv, NEW d \in Docs, Step(d)
  PROVE  /\ objects' \subseteq Kinds \X Docs /\ row' \in [Docs -> Row]
         /\ \A e \in Docs \ {d} : Here(e)' = Here(e) /\ row'[e] = row[e]
         /\ \E m, n \in Create : /\ m = create[d] /\ create' = [create EXCEPT ![d] = n]
                                 /\ CreateStep(m, n, row[d], row'[d], Here(d), Here(d)')
<1>0. /\ create \in [Docs -> Create] /\ row \in [Docs -> Row] /\ objects \subseteq Kinds \X Docs
      /\ Shape(create[d], row[d], Here(d))
  BY DEF ShapeInv, TypeOK
<1>a. PICK m \in Create : m = create[d]
  BY <1>0
<1>b. /\ m.pc \in CreatePcs /\ m.uploaded \in SUBSET Kinds /\ m.left \in SUBSET Kinds
      /\ ObjectsRow \in Row /\ FallbackRow(m.left) \in Row
  BY DEF Create, Row, ObjectsRow, FallbackRow
<1> DEFINE Becomes(n) == n \in Create /\ create' = [create EXCEPT ![d] = n]
(* a step that only moves on *)
<1>1. ASSUME NEW pc \in CreatePcs, Go(d, pc)
      PROVE  \E n \in Create : Becomes(n) /\ n.pc = pc /\ Kept(m, n)
  <2>1. PICK n : n = [m EXCEPT !.pc = pc]
    OBVIOUS
  <2>2. n \in Create /\ n.pc = pc /\ Kept(m, n)
    BY <2>1 DEF Create, Kept
  <2>3. QED BY <1>1, <1>a, <2>1, <2>2 DEF Go
<1>2. ASSUME UNCHANGED objects
      PROVE  objects' \subseteq Kinds \X Docs /\ \A e \in Docs : Here(e)' = Here(e)
  BY <1>0, <1>2 DEF Here
<1>3. ASSUME UNCHANGED row
      PROVE  row' \in [Docs -> Row] /\ \A e \in Docs : row'[e] = row[e]
  BY <1>0, <1>3
<1>4. CASE Begin(d) \/ RefreshCreated(d) \/ RefreshFallback(d)
  <2>1. /\ UNCHANGED <<row, objects>>
        /\ \E pc \in {"put", "created", "failed"} :
             /\ Go(d, pc)
             /\ IF pc = "put" THEN m.pc = "idle" ELSE m.pc \in {"refresh", "fallbackRefresh"}
    BY <1>4, <1>a DEF Begin, RefreshCreated, RefreshFallback, At
  <2>2. \E n \in Create : Becomes(n) /\ MovedOn(m, n, row[d], row'[d], Here(d), Here(d)')
    BY <1>1, <1>2, <1>3, <2>1 DEF MovedOn, CreatePcs, Answers
  <2>3. QED BY <1>2, <1>3, <1>a, <2>1, <2>2 DEF CreateStep
<1>5. CASE PutPart(d)
  <2>1. m.pc = "put" /\ UNCHANGED row /\ m.uploaded \in Prefixes
    BY <1>0, <1>5, <1>a DEF PutPart, At, Shape
  <2>2. PICK part \in Kinds :
          /\ part = Parts[Cardinality(m.uploaded) + 1] /\ part \notin m.uploaded
          /\ IF part = "json" THEN m.uploaded \cup {part} = Kinds
                              ELSE m.uploaded \cup {part} \in Prefixes
    BY <2>1, NextPart
  <2>3. \/ /\ objects' = objects \cup {<<part, d>>}
           /\ create' = [create EXCEPT ![d].uploaded = @ \cup {part},
                           ![d].pc = IF part = "json" THEN "commit" ELSE @]
        \/ /\ RaisesWith("storage", objects, objects \cup {<<part, d>>}, objects')
           /\ Go(d, "cleanup")
    BY <1>5, <1>a, <2>2 DEF PutPart
  <2>4. /\ objects' \subseteq Kinds \X Docs
        /\ \A e \in Docs \ {d} : Here(e)' = Here(e)
    BY <1>0, <2>2, <2>3, ObjectAdded DEF RaisesWith, Here
  <2>5. ASSUME objects' = objects \cup {<<part, d>>},
               create' = [create EXCEPT ![d].uploaded = @ \cup {part},
                            ![d].pc = IF part = "json" THEN "commit" ELSE @]
        PROVE  \E n \in Create : Becomes(n) /\ PartPut(m, n, row[d], row'[d], Here(d), Here(d)')
    <3>1. PICK pc \in CreatePcs : pc = IF part = "json" THEN "commit" ELSE "put"
      BY DEF CreatePcs
    <3>2. PICK set \in SUBSET Kinds : set = m.uploaded \cup {part}
      BY <1>b
    <3>3. PICK n : n = [m EXCEPT !.uploaded = set, !.pc = pc]
      OBVIOUS
    <3>4. n \in Create /\ n.pc = pc /\ n.uploaded = set /\ n.left = m.left
      BY <3>3 DEF Create
    <3>5. create' = [create EXCEPT ![d] = n]
      BY <1>0, <1>a, <2>1, <2>5, <3>1, <3>2, <3>3
    <3>6. Here(d)' = Here(d) \cup {part} /\ row'[d] = row[d]
      BY <2>1, <2>5, ObjectAdded
    <3>7. QED BY <2>1, <2>2, <3>1, <3>2, <3>4, <3>5, <3>6 DEF PartPut
  <2>6. ASSUME RaisesWith("storage", objects, objects \cup {<<part, d>>}, objects'),
               Go(d, "cleanup")
        PROVE  \E n \in Create : Becomes(n) /\ PutRaised(m, n, row[d], row'[d], Here(d), Here(d)')
    <3>1. PICK n \in Create : Becomes(n) /\ n.pc = "cleanup" /\ Kept(m, n)
      BY <1>1, <2>6 DEF CreatePcs
    <3>2. Here(d)' = Here(d) \/ "storage" \in Unacknowledged
      BY <1>2, <2>6 DEF RaisesWith
    <3>3. QED BY <2>1, <3>1, <3>2 DEF PutRaised
  <2>7. QED BY <1>3, <1>a, <2>1, <2>3, <2>4, <2>5, <2>6 DEF CreateStep
<1>6. CASE CommitRow(d)
  <2>1. /\ m.pc = "commit" /\ UNCHANGED objects
        /\ \/ row' = [row EXCEPT ![d] = ObjectsRow] /\ Go(d, "refresh")
           \/ row' \in {row, [row EXCEPT ![d] = ObjectsRow]} /\ Go(d, "cleanup")
    BY <1>6, <1>a DEF CommitRow, At, RaisesWith
  <2>2. row' \in [Docs -> Row] /\ \A e \in Docs \ {d} : row'[e] = row[e]
    BY <1>0, <1>b, <2>1
  <2>3. \E n \in Create : Becomes(n) /\ RowCommitted(m, n, row[d], row'[d], Here(d), Here(d)')
    BY <1>0, <1>1, <1>2, <2>1 DEF RowCommitted, CreatePcs
  <2>4. QED BY <1>2, <1>a, <2>1, <2>2, <2>3 DEF CreateStep
<1>7. CASE CleanupPart(d)
  <2>1. m.pc = "cleanup" /\ UNCHANGED row
    BY <1>7, <1>a DEF CleanupPart, At
  <2>2. ASSUME NEW part \in m.uploaded, objects' = objects \ {<<part, d>>},
               create' = [create EXCEPT ![d].uploaded = @ \ {part}]
        PROVE  \E n \in Create : Becomes(n) /\ PartCleaned(m, n, row[d], row'[d], Here(d), Here(d)')
    <3>1. PICK set \in SUBSET Kinds : set = m.uploaded \ {part}
      BY <1>b
    <3>2. PICK n : n = [m EXCEPT !.uploaded = set]
      OBVIOUS
    <3>3. n \in Create /\ n.pc = m.pc /\ n.uploaded = set /\ n.left = m.left
      BY <3>2 DEF Create
    <3>4. create' = [create EXCEPT ![d] = n]
      BY <1>0, <1>a, <2>2, <3>1, <3>2
    <3>5. Here(d)' = Here(d) \ {part} /\ row'[d] = row[d]
      BY <1>b, <2>1, <2>2, ObjectRemoved
    <3>6. QED BY <2>1, <3>1, <3>3, <3>4, <3>5 DEF PartCleaned
  <2>3. ASSUME NEW part \in m.uploaded, objects' \in {objects, objects \ {<<part, d>>}},
               create' = [create EXCEPT ![d].uploaded = @ \ {part},
                                        ![d].left = @ \cup {part}]
        PROVE  \E n \in Create : Becomes(n) /\ PartCleaned(m, n, row[d], row'[d], Here(d), Here(d)')
    <3>1. PICK set \in SUBSET Kinds, left \in SUBSET Kinds :
            set = m.uploaded \ {part} /\ left = m.left \cup {part}
      BY <1>b
    <3>2. PICK n : n = [m EXCEPT !.uploaded = set, !.left = left]
      OBVIOUS
    <3>3. n \in Create /\ n.pc = m.pc /\ n.uploaded = set /\ n.left = left
      BY <3>2 DEF Create
    <3>4. create' = [create EXCEPT ![d] = n]
      BY <1>0, <1>a, <2>3, <3>1, <3>2
    <3>5. Here(d)' \subseteq Here(d) /\ row'[d] = row[d]
      BY <2>1, <2>3 DEF Here
    <3>6. QED BY <2>1, <3>1, <3>3, <3>4, <3>5 DEF PartCleaned
  <2>4. ASSUME m.uploaded = {}, UNCHANGED objects,
               Go(d, IF m.left = {} THEN "failed" ELSE "fallback")
        PROVE  \E n \in Create : Becomes(n) /\ CleanedUp(m, n, row[d], row'[d], Here(d), Here(d)')
    <3>1. PICK pc \in CreatePcs : pc = IF m.left = {} THEN "failed" ELSE "fallback"
      BY DEF CreatePcs, Answers
    <3>2. PICK n \in Create : Becomes(n) /\ n.pc = pc /\ Kept(m, n)
      BY <1>1, <2>4, <3>1
    <3>3. QED BY <1>2, <2>1, <2>4, <3>1, <3>2 DEF CleanedUp
  <2>5. \/ \E part \in m.uploaded :
             \/ /\ objects' = objects \ {<<part, d>>}
                /\ create' = [create EXCEPT ![d].uploaded = @ \ {part}]
             \/ /\ objects' \in {objects, objects \ {<<part, d>>}}
                /\ create' = [create EXCEPT ![d].uploaded = @ \ {part},
                                            ![d].left = @ \cup {part}]
        \/ /\ m.uploaded = {} /\ UNCHANGED objects
           /\ Go(d, IF m.left = {} THEN "failed" ELSE "fallback")
    BY <1>7, <1>a DEF CleanupPart, RaisesWith, KeyFailed
  <2>6. /\ objects' \subseteq Kinds \X Docs
        /\ \A e \in Docs \ {d} : Here(e)' = Here(e)
    BY <1>0, <2>5 DEF Here
  <2>7. QED BY <1>3, <1>a, <2>1, <2>2, <2>3, <2>4, <2>5, <2>6 DEF CreateStep
<1>8. CASE CommitFallback(d)
  <2>1. /\ m.pc = "fallback" /\ UNCHANGED objects
        /\ \/ row' = [row EXCEPT ![d] = FallbackRow(m.left)] /\ Go(d, "fallbackRefresh")
           \/ row' \in {row, [row EXCEPT ![d] = FallbackRow(m.left)]} /\ Go(d, "incomplete")
    BY <1>8, <1>a DEF CommitFallback, At, RaisesWith
  <2>2. row' \in [Docs -> Row] /\ \A e \in Docs \ {d} : row'[e] = row[e]
    BY <1>0, <1>b, <2>1
  <2>3. \E n \in Create : Becomes(n) /\ FallbackCommitted(m, n, row[d], row'[d], Here(d), Here(d)')
    BY <1>0, <1>1, <1>2, <2>1 DEF FallbackCommitted, CreatePcs, Answers
  <2>4. QED BY <1>2, <1>a, <2>1, <2>2, <2>3 DEF CreateStep
<1>9. QED BY <1>4, <1>5, <1>6, <1>7, <1>8 DEF Step

LEMMA ShapeKept ==
  ASSUME NEW m \in Create, NEW n \in Create, NEW w, NEW v, NEW h \in SUBSET Kinds,
         NEW g \in SUBSET Kinds, CreateStep(m, n, w, v, h, g), Shape(m, w, h)
  PROVE  Shape(n, v, g)
<1>1. CASE PartPut(m, n, w, v, h, g)
  BY <1>1 DEF PartPut, Shape
<1>2. CASE RowCommitted(m, n, w, v, h, g)
  BY <1>2 DEF RowCommitted, Shape
<1>3. CASE FallbackCommitted(m, n, w, v, h, g)
  BY <1>3 DEF FallbackCommitted, Shape, FallbackRow
<1>4. CASE MovedOn(m, n, w, v, h, g)
  BY <1>4 DEF MovedOn, Kept, Shape, ObjectsRow
<1>5. CASE \/ PutRaised(m, n, w, v, h, g) \/ PartCleaned(m, n, w, v, h, g)
           \/ CleanedUp(m, n, w, v, h, g)
  BY <1>5 DEF PutRaised, PartCleaned, CleanedUp, Shape
<1>6. QED BY <1>1, <1>2, <1>3, <1>4, <1>5 DEF CreateStep

LEMMA ListedKept ==
  ASSUME StorageAcknowledged, NEW m \in Create, NEW n \in Create, NEW w, NEW v,
         NEW h \in SUBSET Kinds, NEW g \in SUBSET Kinds, CreateStep(m, n, w, v, h, g),
         Shape(m, w, h), Listed(m, w, h)
  PROVE  Listed(n, v, g)
<1>1. CASE PartPut(m, n, w, v, h, g)
  BY <1>1 DEF PartPut, Listed
<1>2. CASE PutRaised(m, n, w, v, h, g) \/ RowCommitted(m, n, w, v, h, g)
  BY <1>2 DEF PutRaised, RowCommitted, Kept, Shape, Listed, StorageAcknowledged
<1>3. CASE PartCleaned(m, n, w, v, h, g)
  BY <1>3 DEF PartCleaned, Listed
<1>4. CASE CleanedUp(m, n, w, v, h, g)
  BY <1>4 DEF CleanedUp, Kept, Listed
<1>5. CASE FallbackCommitted(m, n, w, v, h, g)
  BY <1>5 DEF FallbackCommitted, FallbackRow, Listed
<1>6. CASE MovedOn(m, n, w, v, h, g)
  BY <1>6 DEF MovedOn, Kept, Shape, Listed, ObjectsRow
<1>7. QED BY <1>1, <1>2, <1>3, <1>4, <1>5, <1>6 DEF CreateStep

-----------------------------------------------------------------------------
(***************************************************************************)
(* The theorems                                                            *)
(***************************************************************************)
LEMMA ShapeInit == Init => ListedInv
<1> SUFFICES ASSUME Init PROVE ListedInv
  OBVIOUS
<1>1. TypeOK
  BY DEF Init, TypeOK, Create, CreatePcs, Row, NoRow
<1>2. \A d \in Docs : Here(d) = {}
  BY DEF Init, Here
<1>3. \A d \in Docs : Shape(create[d], row[d], {}) /\ Listed(create[d], row[d], {})
  BY DEF Init, Shape, Listed, Prefixes
<1>4. QED BY <1>1, <1>2, <1>3 DEF ListedInv, ShapeInv

LEMMA ShapeNext ==
  ASSUME ShapeInv, [Next]_createVars
  PROVE  /\ ShapeInv'
         /\ StorageAcknowledged /\ ListedInv => ListedInv'
<1>0. /\ create \in [Docs -> Create] /\ row \in [Docs -> Row]
      /\ \A d \in Docs : Shape(create[d], row[d], Here(d)) /\ Here(d) \in SUBSET Kinds
  BY DEF ShapeInv, TypeOK, Here
<1>1. CASE UNCHANGED createVars
  <2>1. TypeOK' /\ \A d \in Docs : Here(d)' = Here(d)
    BY <1>1 DEF createVars, ShapeInv, TypeOK, Here
  <2>2. QED BY <1>1, <2>1 DEF createVars, ShapeInv, ListedInv
<1>2. ASSUME NEW d \in Docs, Step(d)
      PROVE  /\ ShapeInv'
             /\ StorageAcknowledged /\ ListedInv => ListedInv'
  <2>1. /\ objects' \subseteq Kinds \X Docs /\ row' \in [Docs -> Row]
        /\ \A e \in Docs \ {d} : Here(e)' = Here(e) /\ row'[e] = row[e]
    BY <1>2, CreateSteps
  <2>2. PICK m, n \in Create :
          /\ m = create[d] /\ create' = [create EXCEPT ![d] = n]
          /\ CreateStep(m, n, row[d], row'[d], Here(d), Here(d)')
    BY <1>2, CreateSteps
  <2>3. /\ create' \in [Docs -> Create] /\ create'[d] = n
        /\ \A e \in Docs \ {d} : create'[e] = create[e]
    BY <1>0, <2>2
  <2>4. PICK g \in SUBSET Kinds : g = Here(d)'
    BY DEF Here
  <2>5. Shape(n, row'[d], g)
    BY <1>0, <2>2, <2>4, ShapeKept
  <2>6. ShapeInv'
    BY <1>0, <2>1, <2>3, <2>4, <2>5 DEF ShapeInv, TypeOK
  <2>7. ASSUME StorageAcknowledged, ListedInv
        PROVE  ListedInv'
    <3>1. Listed(n, row'[d], g)
      BY <1>0, <2>2, <2>4, <2>7, ListedKept DEF ListedInv
    <3>2. QED BY <2>1, <2>3, <2>4, <2>6, <2>7, <3>1 DEF ListedInv
  <2>8. QED BY <2>6, <2>7
<1>3. QED BY <1>1, <1>2 DEF Next, Step

(***************************************************************************)
(* Whatever fails, with or without effect: a document that was committed   *)
(* as far as its request knows can be read back, from its objects or, when *)
(* the cleanup left some of them, from the row.                            *)
(***************************************************************************)
THEOREM CommittedIsReadable == Spec => []RowsReadable
<1>1. Init => ShapeInv
  BY ShapeInit DEF ListedInv
<1>2. ShapeInv /\ [Next]_createVars => ShapeInv'
  BY ShapeNext
<1>3. ShapeInv => RowsReadable
  <2>1. SUFFICES ASSUME ShapeInv, NEW d \in Docs,
                        create[d].pc \in {"refresh", "fallbackRefresh", "created"}
                 PROVE  row[d].stored /\ \A part \in Kinds : Loads(d, part)
    BY DEF RowsReadable
  <2>2. /\ row[d].stored
        /\ row[d].inline \/ (row[d].keys = Kinds /\ Here(d) = Kinds)
    BY <2>1 DEF ShapeInv, Shape, ObjectsRow
  <2>3. QED BY <2>1, <2>2 DEF Loads, Here
<1>4. QED BY <1>1, <1>2, <1>3, PTL DEF Spec

(***************************************************************************)
(* When create_document has ended, its row names every object it left, or  *)
(* its answer said that the cleanup is incomplete. The storage must        *)
(* acknowledge what it does: a put_bytes that raises after its effect is   *)
(* not on uploaded_keys, so nothing removes that object.                   *)
(***************************************************************************)
THEOREM LeftoversAreNamed ==
  ASSUME StorageAcknowledged
  PROVE  Spec => []LeftoversKnown
<1>1. ListedInv /\ [Next]_createVars => ListedInv'
  BY ShapeNext DEF ListedInv
<1>2. ListedInv => LeftoversKnown
  BY DEF ListedInv, Listed, LeftoversKnown, Answers, Here
<1>3. QED BY ShapeInit, <1>1, <1>2, PTL DEF Spec
=============================================================================
