-------------------------- MODULE ApiKeys_proofs --------------------------
(***************************************************************************)
(* Proofs about ApiKeys, for any users, names, ids and concurrent requests *)
(***************************************************************************)
EXTENDS ApiKeys, TLAPS

(***************************************************************************)
(* What a request past its first SELECT carries                            *)
(***************************************************************************)
Writing == {"loaded", "updating", "updated", "inserted"}

RequestShape ==
  \A r \in Requests :
    /\ request[r].pc \in Writing \cup {"inserting"} =>
         request[r].user \in Users /\ request[r].name \in Names
    /\ request[r].pc \in Writing \cup {"deleting"} => request[r].key \in KeyIds

LiveDrawn == \A k \in KeyIds : key[k] # NoRow => k \in drawn

KeysInv == TypeOK /\ RequestShape /\ LiveDrawn

LEMMA AskedShape ==
  ASSUME TypeOK, RequestShape, NEW r \in Requests, NEW pc \in RequestPcs,
         NEW u \in Users \cup {NoUser}, NEW k \in KeyIds \cup {NoKey},
         NEW n \in Names \cup {NoName}, Asked(r, pc, u, k, n),
         pc \in Writing \cup {"inserting"} => u \in Users /\ n \in Names,
         pc \in Writing \cup {"deleting"} => k \in KeyIds
  PROVE  request' \in [Requests -> Request] /\ RequestShape'
<1>1. [pc |-> pc, user |-> u, key |-> k, name |-> n] \in Request
  BY DEF Request
<1>2. request' \in [Requests -> Request]
  BY <1>1 DEF Asked, TypeOK
<1>3. /\ request'[r] = [pc |-> pc, user |-> u, key |-> k, name |-> n]
      /\ \A q \in Requests \ {r} : request'[q] = request[q]
  BY DEF Asked, TypeOK
<1>4. RequestShape'
  BY <1>3 DEF RequestShape
<1>5. QED BY <1>2, <1>4

LEMMA GoShape ==
  ASSUME TypeOK, RequestShape, NEW r \in Requests, NEW pc \in RequestPcs, Go(r, pc),
         pc \in Writing => request[r].pc \in Writing,
         pc \notin {"inserting", "deleting"}
  PROVE  request' \in [Requests -> Request] /\ RequestShape'
<1>1. request' \in [Requests -> Request]
  BY DEF Go, TypeOK, Request
<1>2. /\ request'[r].pc = pc /\ request'[r].user = request[r].user
      /\ request'[r].key = request[r].key /\ request'[r].name = request[r].name
      /\ \A q \in Requests \ {r} : request'[q] = request[q]
  BY DEF Go, TypeOK, Request
<1>3. RequestShape'
  BY <1>2 DEF RequestShape
<1>4. QED BY <1>1, <1>3

LEMMA KeysInit == Init => KeysInv /\ NamesUnique
<1> SUFFICES ASSUME Init PROVE KeysInv /\ NamesUnique
  OBVIOUS
<1>1. TypeOK
  BY DEF Init, TypeOK, KeyRow, Request, RequestPcs
<1>2. RequestShape
  BY DEF Init, RequestShape, Writing
<1>3. LiveDrawn /\ NamesUnique
  BY DEF Init, LiveDrawn, NamesUnique
<1>4. QED BY <1>1, <1>2, <1>3 DEF KeysInv

(***************************************************************************)
(* One step of one request: either no row changes, or one row is written   *)
(* whose name is free, or one row is removed.                              *)
(***************************************************************************)
Written(r) ==
  \E k \in KeyIds, u \in Users, n \in Names :
    /\ key' = [key EXCEPT ![k] = [owner |-> u, name |-> n]]
    /\ ~Taken(u, n, k)
    /\ \/ k \notin drawn /\ drawn' = drawn \cup {k}
       \/ key[k] # NoRow /\ drawn' = drawn

Removed(r) == \E k \in KeyIds : key' = [key EXCEPT ![k] = NoRow] /\ drawn' = drawn

Step(r) == \/ CheckIssue(r) \/ CommitIssue(r) \/ LoadRevoke(r) \/ CommitRevoke(r)
           \/ LoadRename(r) \/ CheckRename(r) \/ CommitRename(r) \/ RefreshKey(r)

LEMMA StepKeys ==
  ASSUME KeysInv, NEW r \in Requests, Step(r)
  PROVE  UNCHANGED <<key, drawn>> \/ Written(r) \/ Removed(r)
<1>0. TypeOK /\ RequestShape
  BY DEF KeysInv
<1>1. CASE CommitIssue(r)
  <2>1. request[r].user \in Users /\ request[r].name \in Names
    BY <1>0, <1>1 DEF CommitIssue, At, RequestShape
  <2>2. QED BY <1>1, <2>1 DEF CommitIssue, Written, Refused
<1>2. CASE CommitRename(r)
  <2>1. request[r].user \in Users /\ request[r].name \in Names /\ request[r].key \in KeyIds
    BY <1>0, <1>2 DEF CommitRename, At, RequestShape, Writing
  <2>2. QED BY <1>2, <2>1 DEF CommitRename, Written, Refused, RowMatches
<1>3. CASE CommitRevoke(r)
  <2>1. request[r].key \in KeyIds
    BY <1>0, <1>3 DEF CommitRevoke, At, RequestShape
  <2>2. QED BY <1>3, <2>1 DEF CommitRevoke, Removed
<1>4. QED
  BY <1>1, <1>2, <1>3 DEF Step, CheckIssue, LoadRevoke, LoadRename, CheckRename, RefreshKey

LEMMA StepRequest ==
  ASSUME KeysInv, NEW r \in Requests, Step(r)
  PROVE  request' \in [Requests -> Request] /\ RequestShape'
<1>0. TypeOK /\ RequestShape
  BY DEF KeysInv
<1> USE <1>0
<1>1. CASE CheckIssue(r)
  <2>1. PICK u \in Users, raw \in RawNames :
          \/ Stripped[raw] = Blank /\ Asked(r, "invalid", u, NoKey, NoName)
          \/ /\ Stripped[raw] # Blank
             /\ Asked(r, IF Taken(u, Stripped[raw], NoKey) THEN "conflict" ELSE "inserting",
                      u, NoKey, Stripped[raw])
    BY <1>1 DEF CheckIssue, IsBlank
  <2>2. Stripped[raw] \in Names \cup {Blank}
    BY StrippedType
  <2>3. CASE Asked(r, "invalid", u, NoKey, NoName)
    BY <2>3, AskedShape DEF RequestPcs, Answers, Writing
  <2>4. CASE Stripped[raw] # Blank /\ Asked(r, "conflict", u, NoKey, Stripped[raw])
    BY <2>2, <2>4, AskedShape DEF RequestPcs, Answers, Writing
  <2>5. CASE Stripped[raw] # Blank /\ Asked(r, "inserting", u, NoKey, Stripped[raw])
    BY <2>2, <2>5, AskedShape DEF RequestPcs, Answers, Writing
  <2>6. QED BY <2>1, <2>3, <2>4, <2>5
<1>2. CASE CommitIssue(r)
  <2>1. request[r].user \in Users /\ request[r].name \in Names
    BY <1>2 DEF CommitIssue, At, RequestShape
  <2>2. ASSUME NEW k \in KeyIds, Asked(r, "inserted", request[r].user, k, request[r].name)
        PROVE  request' \in [Requests -> Request] /\ RequestShape'
    BY <2>1, <2>2, AskedShape DEF RequestPcs, Writing
  <2>3. CASE Go(r, "conflict")
    BY <2>3, GoShape DEF RequestPcs, Answers, Writing
  <2>4. QED BY <1>2, <2>2, <2>3 DEF CommitIssue, NameViolation
<1>3. CASE LoadRevoke(r)
  <2>1. PICK u \in Users, k \in KeyIds :
          Asked(r, "deleting", u, k, NoName) \/ Asked(r, "missing", u, k, NoName)
    BY <1>3 DEF LoadRevoke
  <2>2. QED BY <2>1, AskedShape DEF RequestPcs, Answers, Writing
<1>4. CASE CommitRevoke(r)
  BY <1>4, GoShape DEF CommitRevoke, RequestPcs, Answers, Writing
<1>5. CASE LoadRename(r)
  <2>1. PICK u \in Users, k \in KeyIds, raw \in RawNames :
          \/ Asked(r, "missing", u, k, NoName) \/ Asked(r, "invalid", u, k, NoName)
          \/ /\ Stripped[raw] # Blank
             /\ \/ Asked(r, "renamed", u, k, Stripped[raw])
                \/ Asked(r, "loaded", u, k, Stripped[raw])
    BY <1>5 DEF LoadRename, IsBlank
  <2>2. Stripped[raw] \in Names \cup {Blank}
    BY StrippedType
  <2>3. CASE Asked(r, "missing", u, k, NoName) \/ Asked(r, "invalid", u, k, NoName)
    BY <2>3, AskedShape DEF RequestPcs, Answers, Writing
  <2>4. CASE Stripped[raw] # Blank /\ Asked(r, "renamed", u, k, Stripped[raw])
    BY <2>2, <2>4, AskedShape DEF RequestPcs, Answers, Writing
  <2>5. CASE Stripped[raw] # Blank /\ Asked(r, "loaded", u, k, Stripped[raw])
    BY <2>2, <2>5, AskedShape DEF RequestPcs, Answers, Writing
  <2>6. QED BY <2>1, <2>3, <2>4, <2>5
<1>6. CASE CheckRename(r)
  <2>1. request[r].pc = "loaded" /\ (Go(r, "conflict") \/ Go(r, "updating"))
    BY <1>6 DEF CheckRename, At
  <2>2. QED BY <2>1, GoShape DEF RequestPcs, Answers, Writing
<1>7. CASE CommitRename(r)
  <2>1. request[r].pc = "updating" /\ (Go(r, "updated") \/ Go(r, "conflict") \/ Go(r, "errored"))
    BY <1>7 DEF CommitRename, At, NameViolation
  <2>2. QED BY <2>1, GoShape DEF RequestPcs, Answers, Writing
<1>8. CASE RefreshKey(r)
  <2>1. Go(r, "issued") \/ Go(r, "renamed") \/ Go(r, "errored")
    BY <1>8 DEF RefreshKey
  <2>2. QED BY <2>1, GoShape DEF RequestPcs, Answers, Writing
<1>9. QED BY <1>1, <1>2, <1>3, <1>4, <1>5, <1>6, <1>7, <1>8 DEF Step

LEMMA KeysNext == KeysInv /\ NamesUnique /\ [Next]_keyVars => KeysInv' /\ NamesUnique'
<1> SUFFICES ASSUME KeysInv, NamesUnique, [Next]_keyVars PROVE KeysInv' /\ NamesUnique'
  OBVIOUS
<1>0. TypeOK
  BY DEF KeysInv
<1>1. CASE UNCHANGED keyVars
  BY <1>1 DEF keyVars, KeysInv, TypeOK, RequestShape, LiveDrawn, NamesUnique
<1>2. ASSUME NEW r \in Requests, Step(r) PROVE KeysInv' /\ NamesUnique'
  <2>1. request' \in [Requests -> Request] /\ RequestShape'
    BY <1>2, StepRequest
  <2>2. CASE UNCHANGED <<key, drawn>>
    BY <1>0, <2>1, <2>2 DEF KeysInv, TypeOK, LiveDrawn, NamesUnique
  <2>3. CASE Written(r)
    <3>1. PICK k \in KeyIds, u \in Users, n \in Names :
            /\ key' = [key EXCEPT ![k] = [owner |-> u, name |-> n]]
            /\ ~Taken(u, n, k)
            /\ \/ k \notin drawn /\ drawn' = drawn \cup {k}
               \/ key[k] # NoRow /\ drawn' = drawn
      BY <2>3 DEF Written
    <3>2. /\ key' \in [KeyIds -> KeyRow] /\ drawn' \subseteq KeyIds
          /\ k \in drawn' /\ drawn \subseteq drawn'
      BY <1>0, <3>1 DEF TypeOK, KeyRow, KeysInv, LiveDrawn
    <3>3. LiveDrawn'
      BY <1>0, <3>1, <3>2 DEF TypeOK, KeysInv, LiveDrawn
    <3>4. NamesUnique'
      BY <1>0, <3>1 DEF TypeOK, NamesUnique, Taken
    <3>5. QED BY <2>1, <3>2, <3>3, <3>4 DEF KeysInv, TypeOK
  <2>4. CASE Removed(r)
    <3>1. PICK k \in KeyIds : key' = [key EXCEPT ![k] = NoRow] /\ drawn' = drawn
      BY <2>4 DEF Removed
    <3>2. key' \in [KeyIds -> KeyRow]
      BY <1>0, <3>1 DEF TypeOK, KeyRow
    <3>3. LiveDrawn' /\ NamesUnique'
      BY <1>0, <3>1 DEF TypeOK, KeysInv, LiveDrawn, NamesUnique
    <3>4. QED BY <1>0, <2>1, <3>1, <3>2, <3>3 DEF KeysInv, TypeOK
  <2>5. QED BY <1>2, <2>2, <2>3, <2>4, StepKeys
<1>3. QED BY <1>1, <1>2 DEF Next, Step

(***************************************************************************)
(* Neither racing issues nor racing renames give a user two keys of one    *)
(* name.                                                                   *)
(***************************************************************************)
THEOREM UniqueNames == Spec => []NamesUnique
<1>1. KeysInv /\ NamesUnique => NamesUnique
  OBVIOUS
<1>2. QED BY <1>1, KeysInit, KeysNext, PTL DEF Spec

(***************************************************************************)
(* A revoked key stays revoked, whatever requests read it before.          *)
(***************************************************************************)
THEOREM RevocationHolds == Spec => RevokedForever
<1>1. KeysInv /\ [Next]_keyVars => (\A k \in drawn : key[k] = NoRow => key'[k] = NoRow)
  <2> SUFFICES ASSUME KeysInv, [Next]_keyVars, NEW k \in drawn, key[k] = NoRow
               PROVE  key'[k] = NoRow
    OBVIOUS
  <2>0. TypeOK
    BY DEF KeysInv
  <2>1. CASE UNCHANGED keyVars
    BY <2>1 DEF keyVars
  <2>2. ASSUME NEW r \in Requests, Step(r) PROVE key'[k] = NoRow
    <3>1. UNCHANGED <<key, drawn>> \/ Written(r) \/ Removed(r)
      BY <2>2, StepKeys
    <3>2. QED BY <2>0, <3>1 DEF Written, Removed, TypeOK
  <2>3. QED BY <2>1, <2>2 DEF Next, Step
<1>2. QED
  BY <1>1, KeysInit, KeysNext, PTL DEF Spec, RevokedForever
(***************************************************************************)
(* Requests, keys and drawn ids keep the types the code gives them.        *)
(***************************************************************************)
THEOREM KeysTyped == Spec => []TypeOK
<1>1. KeysInv /\ NamesUnique => TypeOK
  BY DEF KeysInv
<1>2. QED BY <1>1, KeysInit, KeysNext, PTL DEF Spec

-----------------------------------------------------------------------------
(***************************************************************************)
(* The key a request holds was issued to the request's user, or is gone    *)
(***************************************************************************)
Holding == {"loaded", "updating", "updated", "inserted", "deleting"}

HoldsOwn ==
  \A r \in Requests : request[r].pc \in Holding =>
    /\ request[r].key \in drawn
    /\ key[request[r].key] # NoRow => key[request[r].key].owner = request[r].user

HoldersInv == KeysInv /\ HoldsOwn /\ ErrorsOnlyForRevoked

LEMMA AskedFields ==
  ASSUME TypeOK, NEW r \in Requests, NEW pc, NEW u, NEW k, NEW n, Asked(r, pc, u, k, n)
  PROVE  /\ request'[r].pc = pc /\ request'[r].user = u /\ request'[r].key = k
         /\ \A q \in Requests \ {r} : request'[q] = request[q]
BY DEF Asked, TypeOK

LEMMA GoFields ==
  ASSUME TypeOK, NEW r \in Requests, NEW pc, Go(r, pc)
  PROVE  /\ request'[r].pc = pc /\ request'[r].user = request[r].user
         /\ request'[r].key = request[r].key
         /\ \A q \in Requests \ {r} : request'[q] = request[q]
BY DEF Go, TypeOK, Request

(* a key that was drawn keeps its owner until it is gone, and stays gone *)
LEMMA OwnersStay ==
  ASSUME KeysInv, HoldsOwn, NEW r \in Requests, Step(r)
  PROVE  /\ drawn \subseteq drawn'
         /\ \A k \in drawn : \/ key'[k] = NoRow
                             \/ key[k] # NoRow /\ key'[k].owner = key[k].owner
<1>0. TypeOK /\ RequestShape /\ LiveDrawn
  BY DEF KeysInv
<1>1. CASE CommitIssue(r)
  BY <1>0, <1>1 DEF CommitIssue, TypeOK
<1>2. CASE CommitRename(r)
  <2>1. PICK k, u : k = request[r].key /\ u = request[r].user
    OBVIOUS
  <2>2. k \in drawn /\ (key[k] # NoRow => key[k].owner = u)
    BY <1>2, <2>1 DEF CommitRename, At, HoldsOwn, Holding
  <2>3. \/ /\ key[k] # NoRow
           /\ key' = [key EXCEPT ![k] = [owner |-> u, name |-> request[r].name]]
        \/ key' = key
    BY <1>2, <2>1 DEF CommitRename, RowMatches
  <2>4. drawn' = drawn
    BY <1>2 DEF CommitRename
  <2>5. QED BY <1>0, <2>2, <2>3, <2>4 DEF TypeOK
<1>3. CASE CommitRevoke(r)
  BY <1>0, <1>3 DEF CommitRevoke, TypeOK
<1>4. CASE UNCHANGED <<key, drawn>>
  BY <1>4
<1>5. QED
  BY <1>1, <1>2, <1>3, <1>4 DEF Step, CheckIssue, LoadRevoke, LoadRename, CheckRename, RefreshKey

(* what the request that moved holds now *)
LEMMA HolderMoves ==
  ASSUME HoldersInv, NEW r \in Requests, Step(r)
  PROVE  /\ request'[r].pc \in Holding =>
              /\ request'[r].key \in drawn'
              /\ key'[request'[r].key] # NoRow => key'[request'[r].key].owner = request'[r].user
         /\ request'[r].pc = "errored" =>
              request'[r].key \in drawn' /\ key'[request'[r].key] = NoRow
         /\ \A q \in Requests \ {r} : request'[q] = request[q]
<1>0. TypeOK /\ RequestShape /\ LiveDrawn /\ HoldsOwn
  BY DEF HoldersInv, KeysInv
<1> USE <1>0
<1>1. CASE CheckIssue(r)
  <2>1. PICK u \in Users, pc \in {"invalid", "conflict", "inserting"} :
          \E n : Asked(r, pc, u, NoKey, n)
    BY <1>1 DEF CheckIssue
  <2>2. QED BY <2>1, AskedFields DEF Holding
<1>2. CASE CommitIssue(r)
  <2>1. ASSUME NEW k \in KeyIds, NEW u, NEW n, key' = [key EXCEPT ![k] = [owner |-> u, name |-> n]],
               drawn' = drawn \cup {k}, Asked(r, "inserted", u, k, n)
        PROVE  /\ request'[r].pc = "inserted" /\ request'[r].key \in drawn'
               /\ key'[request'[r].key].owner = request'[r].user
               /\ \A q \in Requests \ {r} : request'[q] = request[q]
    BY <2>1, AskedFields DEF TypeOK
  <2>2. CASE Go(r, "conflict")
    BY <2>2, GoFields DEF Holding
  <2>3. QED BY <1>2, <2>1, <2>2 DEF CommitIssue, NameViolation
<1>3. CASE LoadRevoke(r)
  <2>1. PICK u \in Users, k \in KeyIds :
          Asked(r, IF Owned(u, k) THEN "deleting" ELSE "missing", u, k, NoName)
    BY <1>3 DEF LoadRevoke
  <2>2. UNCHANGED <<key, drawn>>
    BY <1>3 DEF LoadRevoke
  <2>3. Owned(u, k) => k \in drawn /\ key[k].owner = u
    BY KeyNulls DEF Owned, LiveDrawn, NoRow
  <2>4. QED BY <2>1, <2>2, <2>3, AskedFields DEF Holding
<1>4. CASE CommitRevoke(r)
  BY <1>4, GoFields DEF CommitRevoke, Holding
<1>5. CASE LoadRename(r)
  <2>1. PICK u \in Users, k \in KeyIds, pc \in {"missing", "invalid", "renamed", "loaded"} :
          (\E n : Asked(r, pc, u, k, n)) /\ (pc = "loaded" => Owned(u, k))
    <3>1. PICK u \in Users, k \in KeyIds, raw \in RawNames :
            \/ Asked(r, "missing", u, k, NoName)
            \/ Asked(r, "invalid", u, k, NoName)
            \/ Asked(r, "renamed", u, k, Stripped[raw])
            \/ Asked(r, "loaded", u, k, Stripped[raw]) /\ Owned(u, k)
      BY <1>5 DEF LoadRename
    <3>2. QED BY <3>1
  <2>2. UNCHANGED <<key, drawn>>
    BY <1>5 DEF LoadRename
  <2>3. Owned(u, k) => k \in drawn /\ key[k].owner = u
    BY KeyNulls DEF Owned, LiveDrawn, NoRow
  <2>4. QED BY <2>1, <2>2, <2>3, AskedFields DEF Holding
<1>6. CASE CheckRename(r)
  <2>1. /\ request[r].pc = "loaded" /\ UNCHANGED <<key, drawn>>
        /\ Go(r, "conflict") \/ Go(r, "updating")
    BY <1>6 DEF CheckRename, At
  <2>2. QED BY <2>1, GoFields DEF Holding, HoldsOwn
<1>7. CASE CommitRename(r)
  <2>1. PICK k, u : k = request[r].key /\ u = request[r].user
    OBVIOUS
  <2>2. k \in drawn /\ k \in KeyIds /\ drawn' = drawn
    BY <1>7, <2>1 DEF CommitRename, At, HoldsOwn, Holding, TypeOK
  <2>3. \/ /\ key' = [key EXCEPT ![k] = [owner |-> u, name |-> request[r].name]]
           /\ Go(r, "updated")
        \/ key' = key /\ Go(r, "conflict")
        \/ key[k] = NoRow /\ key' = key /\ Go(r, "errored")
    BY <1>7, <2>1 DEF CommitRename, RowMatches, NameViolation
  <2>4. QED BY <2>1, <2>2, <2>3, GoFields DEF Holding, TypeOK
<1>8. CASE RefreshKey(r)
  <2>1. /\ request[r].pc \in Holding /\ UNCHANGED <<key, drawn>>
        /\ \/ Go(r, "issued") \/ Go(r, "renamed")
           \/ Go(r, "errored") /\ key[request[r].key] = NoRow
    BY <1>8 DEF RefreshKey, At, RowMatches, Holding
  <2>2. QED BY <2>1, GoFields DEF Holding, HoldsOwn
<1>9. QED BY <1>1, <1>2, <1>3, <1>4, <1>5, <1>6, <1>7, <1>8 DEF Step

LEMMA HoldersNext == HoldersInv /\ NamesUnique /\ [Next]_keyVars => HoldersInv'
<1> SUFFICES ASSUME HoldersInv, NamesUnique, [Next]_keyVars PROVE HoldersInv'
  OBVIOUS
<1>1. KeysInv'
  BY KeysNext DEF HoldersInv
<1>2. CASE UNCHANGED keyVars
  BY <1>1, <1>2 DEF keyVars, HoldersInv, HoldsOwn, ErrorsOnlyForRevoked, At
<1>3. ASSUME NEW r \in Requests, Step(r) PROVE HoldersInv'
  <2>1. /\ drawn \subseteq drawn'
        /\ \A k \in drawn : \/ key'[k] = NoRow
                            \/ key[k] # NoRow /\ key'[k].owner = key[k].owner
    BY <1>3, OwnersStay DEF HoldersInv
  <2>2. /\ request'[r].pc \in Holding =>
             /\ request'[r].key \in drawn'
             /\ key'[request'[r].key] # NoRow => key'[request'[r].key].owner = request'[r].user
        /\ request'[r].pc = "errored" =>
             request'[r].key \in drawn' /\ key'[request'[r].key] = NoRow
        /\ \A q \in Requests \ {r} : request'[q] = request[q]
    BY <1>3, HolderMoves
  <2>3. HoldsOwn'
    BY <2>1, <2>2 DEF HoldersInv, HoldsOwn
  <2>4. ErrorsOnlyForRevoked'
    BY <2>1, <2>2 DEF HoldersInv, ErrorsOnlyForRevoked, At
  <2>5. QED BY <1>1, <2>3, <2>4 DEF HoldersInv
<1>4. QED BY <1>2, <1>3 DEF Next, Step

LEMMA HoldersInit == Init => HoldersInv
BY KeysInit DEF HoldersInv, Init, HoldsOwn, Holding, ErrorsOnlyForRevoked, At

(***************************************************************************)
(* A request on keys ends in an internal error only when its key was       *)
(* issued and has been revoked.                                            *)
(***************************************************************************)
THEOREM ErrorsFollowRevocation == Spec => []ErrorsOnlyForRevoked
<1>1. HoldersInv => ErrorsOnlyForRevoked
  BY DEF HoldersInv
<1>2. QED BY <1>1, HoldersInit, HoldersNext, KeysInit, KeysNext, PTL DEF Spec

(***************************************************************************)
(* A key is written or removed only by a request of its owner about this   *)
(* key, although the request read the owner one or two commits before.     *)
(***************************************************************************)
THEOREM OnlyOwnersChangeKeys == Spec => ChangedByOwner
<1>1. HoldersInv /\ [Next]_keyVars =>
        (\A k \in KeyIds : key[k] # NoRow /\ key'[k] # key[k] =>
           \E r \in Requests : /\ request'[r] # request[r]
                               /\ request[r].key = k /\ request[r].user = key[k].owner)
  <2> SUFFICES ASSUME HoldersInv, [Next]_keyVars, NEW k \in KeyIds, key[k] # NoRow,
                      key'[k] # key[k]
               PROVE  \E r \in Requests : /\ request'[r] # request[r] /\ request[r].key = k
                                          /\ request[r].user = key[k].owner
    OBVIOUS
  <2>0. TypeOK /\ LiveDrawn /\ HoldsOwn
    BY DEF HoldersInv, KeysInv
  <2>1. PICK r \in Requests : Step(r)
    BY DEF keyVars, Next, Step
  <2>2. CASE CommitIssue(r)
    BY <2>0, <2>2 DEF CommitIssue, LiveDrawn, TypeOK
  <2>3. CASE CommitRename(r) \/ CommitRevoke(r)
    <3>1. request[r].pc \in {"updating", "deleting"} /\ request'[r].pc # request[r].pc
      BY <2>0, <2>3, GoFields DEF CommitRename, CommitRevoke, At, NameViolation
    <3>2. request[r].key = k
      BY <2>0, <2>3 DEF CommitRename, CommitRevoke, TypeOK
    <3>3. request[r].user = key[k].owner
      BY <2>0, <3>1, <3>2 DEF HoldsOwn, Holding
    <3>4. QED BY <3>1, <3>2, <3>3
  <2>4. CASE UNCHANGED key
    BY <2>4
  <2>5. QED
    BY <2>1, <2>2, <2>3, <2>4 DEF Step, CheckIssue, LoadRevoke, LoadRename, CheckRename, RefreshKey
<1>2. QED
  BY <1>1, HoldersInit, HoldersNext, KeysInit, KeysNext, PTL DEF Spec, ChangedByOwner

=============================================================================
