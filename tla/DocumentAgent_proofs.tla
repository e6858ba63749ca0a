------------------------ MODULE DocumentAgent_proofs ------------------------
(***************************************************************************)
(* Proofs about DocumentAgent: the whole service, for any number of        *)
(* uploads, workers, deletions and reads.                                  *)
(*                                                                         *)
(* The invariants of the two halves are those of ParseJobs_proofs and      *)
(* Documents_proofs, and their lemmas about a step are used as they are.   *)
(* What is new is f, the job each document was made from, which outlives   *)
(* the row: a worker that commits a documents row extends it, a deletion   *)
(* goes by it, and no job is ever parsed into a second document after its  *)
(* first one was deleted.                                                  *)
(***************************************************************************)
EXTENDS DocumentAgent, ParseJobs_proofs

D == INSTANCE Documents_proofs

-----------------------------------------------------------------------------
(***************************************************************************)
(* The invariants                                                          *)
(***************************************************************************)
(* what CreatedOnce and IdsDrawnOnce say of the rows, said of all that     *)
(* were ever made                                                          *)
Handed(f) ==
  /\ \A d \in Docs : f[d] # NoJob =>
       /\ d \in issued /\ ~Queued(f[d]) /\ upload[f[d]].pc \notin NotYetPushed
       /\ \A w \in Workers : worker[w].job = f[d] => worker[w].pc \in PastCreating
  /\ \A w \in Workers : worker[w].pc \in Creating => f[worker[w].doc] = NoJob

Kept(f) == D!Typed(f) /\ Handed(f)

AgentInv == DocumentInv /\ \E f \in D!Origins : Kept(f)

Pipeline == <<upload, worker, queue, issued, leaked>>   \* what requests leave alone

-----------------------------------------------------------------------------
(***************************************************************************)
(* A step of a deletion or of a read                                       *)
(***************************************************************************)
LEMMA RequestsAreNext == Requests!Requests => D!Next
BY DEF Requests!Requests, Requests!DeleteDocument, Requests!CrashRemoval,
   Requests!OpenDocument, Requests!ReadObject, Requests!FindDocument,
   Requests!CollectObjectKeys, Requests!BackupObject, Requests!DeleteObject,
   Requests!CommitDelete, Requests!RestoreObject, Requests!RemovalAt, Requests!RemovalGo,
   Requests!KeyAt, Requests!Advanced, Requests!ResultKeysOf, Requests!Deleted,
   Requests!Source, Requests!Markdown, Requests!Json, Requests!Fails, Requests!RaisesWith,
   D!Next, D!Requests, D!DeleteDocument, D!CrashRemoval,
   D!OpenDocument, D!ReadObject, D!FindDocument,
   D!CollectObjectKeys, D!BackupObject, D!DeleteObject,
   D!CommitDelete, D!RestoreObject, D!RemovalAt, D!RemovalGo,
   D!KeyAt, D!Advanced, D!ResultKeysOf, D!Deleted,
   D!Source, D!Markdown, D!Json, D!Fails, D!RaisesWith

(* The lemmas of Documents_proofs, with its assumptions on the constants discharged. *)
LEMMA DTypedStep ==
  ASSUME NEW f \in D!Origins, D!Typed(f), D!Next
  PROVE  D!Typed(f)'
BY D!TypedStep, NullsDistinct, FaultClasses DEF Subsystems, D!Subsystems

LEMMA DRequestsTakeOwn ==
  ASSUME NEW f \in D!Origins, D!Typed(f), D!Next
  PROVE  /\ \A d \in Docs : document'[d] \in {document[d], NoJob}
         /\ document' # document =>
              \E d \in Docs : document' = [document EXCEPT ![d] = NoJob]
         /\ \A key \in objects \ objects' : \E d \in D!Made(f) : key \in D!OwnKeys(f, d)
BY D!RequestsTakeOwn, NullsDistinct, FaultClasses DEF Subsystems, D!Subsystems

(* the foreign key of parse_jobs *)
LEMMA RequestRows ==
  ASSUME RequestStep, Typed, LinkedToOwnDocument, NEW f \in D!Origins, D!Typed(f)
  PROVE  /\ UNCHANGED Pipeline
         /\ D!Next
         /\ \A d \in Docs : document'[d] \in {document[d], NoJob}
         /\ document' \in [Docs -> Jobs \cup {NoJob}]
         /\ objects' \subseteq Keys
         /\ \A j \in Jobs : \/ jobRow'[j] = jobRow[j]
                            \/ /\ jobRow[j].doc # NoDoc /\ document'[jobRow[j].doc] = NoJob
                               /\ jobRow'[j] = [jobRow[j] EXCEPT !.doc = NoDoc]
         /\ \A j \in Jobs : jobRow'[j].doc # NoDoc =>
              jobRow'[j] = jobRow[j] /\ document'[jobRow[j].doc] # NoJob
         /\ jobRow' \in [Jobs -> Row]
<1>1. UNCHANGED Pipeline /\ D!Next
  BY RequestsAreNext DEF RequestStep, Pipeline
<1>2. \A d \in Docs : document'[d] \in {document[d], NoJob}
  BY <1>1, DRequestsTakeOwn
<1>3. D!Typed(f)'
  BY <1>1, DTypedStep
<1>4. document' \in [Docs -> Jobs \cup {NoJob}] /\ objects' \subseteq Keys
  BY <1>3 DEF D!Typed, D!TypeOK, D!Keys, Keys, D!ResultKeys, ResultKeys
<1>5. jobRow' = LinksNulled(jobRow, document')
  BY DEF RequestStep
<1>6. jobRow \in [Jobs -> Row]
  BY DEF Typed, TypeOK
<1>7. \A j \in Jobs : jobRow'[j] = IF jobRow[j].doc # NoDoc /\ document'[jobRow[j].doc] = NoJob
                                   THEN [jobRow[j] EXCEPT !.doc = NoDoc] ELSE jobRow[j]
  BY <1>5 DEF LinksNulled
<1>8. \A r \in Row : [r EXCEPT !.doc = NoDoc] \in Row /\ [r EXCEPT !.doc = NoDoc].doc = NoDoc
  BY DEF Row
<1>9. jobRow' \in [Jobs -> Row]
  BY <1>5, <1>6, <1>8 DEF LinksNulled
<1>10. ASSUME NEW j \in Jobs, jobRow'[j].doc # NoDoc
       PROVE  jobRow'[j] = jobRow[j] /\ document'[jobRow[j].doc] # NoJob
  <2>1. PICK old, new : old \in Row /\ old = jobRow[j] /\ new = jobRow'[j]
    BY <1>6
  <2>2. new = IF old.doc # NoDoc /\ document'[old.doc] = NoJob
              THEN [old EXCEPT !.doc = NoDoc] ELSE old
    BY <1>7, <2>1
  <2>3. new = old /\ document'[old.doc] # NoJob
    BY <1>8, <1>10, <2>1, <2>2
  <2>4. QED BY <2>1, <2>3
<1>11. QED BY <1>1, <1>2, <1>4, <1>7, <1>9, <1>10

LEMMA RequestKeeps ==
  ASSUME RequestStep, DocumentInv, NEW f \in D!Origins, Kept(f)
  PROVE  DocumentInv' /\ Kept(f)'
<1>0. Typed /\ LinkedToOwnDocument /\ D!Typed(f)
  BY DEF DocumentInv, HolderInv, Kept
<1>1. /\ UNCHANGED Pipeline /\ D!Next
      /\ \A d \in Docs : document'[d] \in {document[d], NoJob}
      /\ document' \in [Docs -> Jobs \cup {NoJob}] /\ objects' \subseteq Keys
      /\ \A j \in Jobs : jobRow'[j].doc # NoDoc =>
           jobRow'[j] = jobRow[j] /\ document'[jobRow[j].doc] # NoJob
      /\ jobRow' \in [Jobs -> Row]
  BY <1>0, RequestRows
<1>2. D!Typed(f)'
  BY <1>0, <1>1, DTypedStep
<1>3. Handed(f)'
  BY <1>1 DEF Kept, Handed, Queued, Pipeline
<1>4. HolderInv'
  <2>1. Typed'
    BY <1>0, <1>1 DEF Typed, TypeOK, WorkerShape, Pipeline
  <2>2. QED BY <1>1, <2>1 DEF DocumentInv, HolderInv, SingleHolder, PushedOnce, Queued, Pipeline
<1>5. NoJob \notin Jobs /\ NoDoc \notin Docs
      /\ \A w \in Workers : worker[w].pc \in Creating \cup Linking =>
           worker[w].doc \in Docs /\ worker[w].job \in Jobs
  BY <1>0, NullsDistinct, JobInHand DEF Typed, WorkerShape, Creating, Linking, HasDoc, Free
<1>6. IdsDrawnOnce'
  BY <1>1 DEF DocumentInv, IdsDrawnOnce, Pipeline
<1>7. DocumentInHand'
  BY <1>1, <1>5 DEF DocumentInv, DocumentInHand, Pipeline
<1>8. CreatedOnce'
  <2>1. \A d \in Docs : document'[d] # NoJob => document'[d] = document[d]
    BY <1>1
  <2>2. QED BY <1>1, <2>1 DEF DocumentInv, CreatedOnce, Queued, Pipeline
<1>9. OneDocumentPerJob'
  BY <1>1 DEF DocumentInv, OneDocumentPerJob
<1>10. LinkedToOwnDocument'
  <2>1. SUFFICES ASSUME NEW j \in Jobs, jobRow'[j].doc # NoDoc
                 PROVE  document'[jobRow'[j].doc] = j
    BY DEF LinkedToOwnDocument
  <2>2. jobRow'[j] = jobRow[j] /\ document'[jobRow[j].doc] # NoJob
    BY <1>1, <2>1
  <2>3. document[jobRow[j].doc] = j /\ jobRow[j].doc \in Docs
    BY <1>0, <2>1, <2>2 DEF Typed, TypeOK, Row, LinkedToOwnDocument
  <2>4. QED BY <1>1, <2>2, <2>3
<1>11. QED BY <1>2, <1>3, <1>4, <1>6, <1>7, <1>8, <1>9, <1>10 DEF DocumentInv, Kept

-----------------------------------------------------------------------------
(***************************************************************************)
(* A step of the pipeline                                                  *)
(***************************************************************************)
(* deletions and reads see no more of it than the objects come and go *)
LEMMA TypedAside ==
  ASSUME NEW f \in D!Origins, D!Typed(f), document' = document, objects' \subseteq Keys,
         UNCHANGED <<removal, reading>>
  PROVE  D!Typed(f)'
<1>1. D!TypeOK'
  BY DEF D!Typed, D!TypeOK, D!Keys, Keys, D!ResultKeys, ResultKeys
<1>2. QED BY <1>1 DEF D!Typed, D!Rows, D!InStep

(* or a document that was not made yet *)
LEMMA TypedInserted ==
  ASSUME NEW f \in D!Origins, D!Typed(f), NEW d \in Docs, f[d] = NoJob,
         NEW j \in Jobs, \A e \in Docs : f[e] # j,
         document' = [document EXCEPT ![d] = j], objects' = objects,
         UNCHANGED <<removal, reading>>, NEW g, g = [f EXCEPT ![d] = j]
  PROVE  g \in D!Origins /\ D!Typed(g)'
<1>0. /\ document \in [Docs -> Jobs \cup {NoJob}] /\ f \in [Docs -> Jobs \cup {NoJob}]
      /\ NoJob \notin Jobs /\ NoDoc \notin Docs
  BY NullsDistinct DEF D!Typed, D!TypeOK, D!Origins
<1>1. g \in D!Origins
  BY <1>0 DEF D!Origins
<1>2. d \notin D!Made(f) /\ \A e \in D!Made(f) : e \in D!Made(g) /\ g[e] = f[e] /\ e # d
  BY <1>0 DEF D!Made
<1>3. D!Rows(g)'
  BY <1>0 DEF D!Typed, D!Rows
<1>4. D!TypeOK'
  BY <1>0 DEF D!Typed, D!TypeOK
<1>5. \A e \in D!Made(f) : /\ D!JustSource(g, e) = D!JustSource(f, e)
                           /\ D!AllKeys(g, e) = D!AllKeys(f, e)
                           /\ D!OwnKeys(g, e) = D!OwnKeys(f, e)
  BY <1>2 DEF D!JustSource, D!AllKeys, D!OwnKeys
<1>6. ASSUME NEW m, D!WellFormed(f, m) /\ D!InStep(m)
      PROVE  (D!WellFormed(g, m) /\ D!InStep(m))'
  <2>1. CASE m.doc \in D!Made(f)
    <3>1. document'[m.doc] = document[m.doc]
      BY <1>0, <1>2, <2>1 DEF D!Made
    <3>2. D!InStep(m)'
      BY <1>6, <3>1 DEF D!InStep
    <3>3. D!WellFormed(g, m)
      BY <1>2, <1>5, <1>6, <2>1 DEF D!WellFormed
    <3>4. QED BY <3>2, <3>3
  <2>2. CASE m.doc = NoDoc /\ m.pc \in {"idle", "notFound", "failed"}
    <3>1. m.doc \notin D!Made(g)
      BY <1>0, <2>2 DEF D!Made
    <3>2. QED BY <1>6, <2>2, <3>1 DEF D!WellFormed, D!InStep
  <2>3. QED BY <1>6, <2>1, <2>2 DEF D!WellFormed
<1>7. \A r \in Deletions : (D!WellFormed(g, removal[r]) /\ D!InStep(removal[r]))'
  BY <1>6 DEF D!Typed, D!InStep
<1>8. ASSUME NEW h, D!WellRead(f, h)
      PROVE  D!WellRead(g, h)
  BY <1>2, <1>5, <1>8 DEF D!WellRead
<1>9. \A q \in Readers : D!WellRead(g, reading[q])'
  BY <1>8 DEF D!Typed
<1>10. QED BY <1>1, <1>3, <1>4, <1>7, <1>9 DEF D!Typed

LEMMA KeptByUpload ==
  ASSUME DocumentInv, NEW f \in D!Origins, Kept(f), UNCHANGED <<removal, reading>>,
         NEW j \in Jobs, CreateJob(j) \/ CrashUpload(j)
  PROVE  Kept(f)'
<1>0. Typed /\ f \in [Docs -> Jobs \cup {NoJob}]
  BY DEF DocumentInv, HolderInv, D!Origins
<1>1. UNCHANGED <<worker, document, issued>> /\ objects' \subseteq Keys
  BY <1>0, RequestElsewhere, TypedUpload DEF Typed, TypeOK
<1>2. D!Typed(f)'
  BY <1>1, TypedAside DEF Kept
<1>3. /\ \A k \in Jobs : upload'[k].pc \in NotYetPushed => upload[k].pc \in NotYetPushed
      /\ \A k \in Jobs : upload[k].pc \notin NotYetPushed /\ ~Queued(k) => ~Queued(k)'
  BY <1>0, PushedStays
<1>4. ASSUME NEW d \in Docs, f[d] # NoJob
      PROVE  d \in issued' /\ ~Queued(f[d])' /\ upload'[f[d]].pc \notin NotYetPushed
  BY <1>0, <1>1, <1>3, <1>4 DEF Kept, Handed
<1>5. Handed(f)'
  BY <1>1, <1>4 DEF Kept, Handed, Queued
<1>6. QED BY <1>2, <1>5 DEF Kept

(* what a worker's step does to the document and the job it has in hand *)
LEMMA WorkerHands ==
  ASSUME DocumentInv, NEW w \in Workers, RunOnce(w) \/ CrashWorker(w) \/ RestartWorker(w)
  PROVE  /\ issued \subseteq issued'
         /\ worker'[w].job # NoJob /\ worker'[w].pc \notin PastCreating =>
              \/ Queued(worker'[w].job)
              \/ worker[w].job = worker'[w].job /\ worker[w].pc \notin PastCreating
         /\ worker'[w].pc \in Creating =>
              \/ worker[w].pc \in Creating /\ worker'[w].doc = worker[w].doc
              \/ worker'[w].doc \notin issued
         /\ ~InsertDocument(w) => document' = document
<1>0. /\ Typed /\ worker \in [Workers -> Worker] /\ queue \in Seq(Jobs)
      /\ \A v \in Workers : worker[v].pc \in Free <=> worker[v].job = NoJob
  BY DEF DocumentInv, HolderInv, Typed, TypeOK, WorkerShape
<1>1. CASE DequeueParseJob(w)
  <2>1. UNCHANGED <<document, issued>> /\ worker[w].job = NoJob
    BY <1>0, <1>1 DEF DequeueParseJob, WorkerAt, Free
  <2>2. \/ worker'[w].job = NoJob /\ worker'[w].pc \in Free
        \/ queue # <<>> /\ worker'[w].job = Head(queue) /\ worker'[w].pc = "starting"
    BY <1>0, <1>1, <2>1 DEF DequeueParseJob, Die, FreshWorker, Worker, WorkerAt, Free
  <2>3. queue # <<>> => Queued(Head(queue))
    <3>1. queue # <<>> => Head(queue) = queue[1] /\ 1 \in DOMAIN queue
      BY <1>0
    <3>2. QED BY <3>1 DEF Queued
  <2>4. QED BY <2>1, <2>2, <2>3 DEF Free, Creating
<1>2. CASE PutMarkdown(w)
  BY <1>0, <1>2 DEF PutMarkdown, FreshDoc, WorkerAt, WorkerGo, FailingStep, Worker, Creating,
                    PastCreating, Linking
<1>3. CASE InsertDocument(w)
  BY <1>0, <1>3 DEF InsertDocument, WorkerAt, WorkerGo, Worker, Creating, PastCreating, Linking
<1>4. CASE Quiet(w) /\ ~InsertDocument(w)
  BY <1>4 DEF Quiet, Free, Creating
<1>5. QED BY <1>0, <1>1, <1>2, <1>3, <1>4, QuietSteps DEF RunOnce

(* f after a step of w: the document it commits, if it does, is made from its job *)
Extended(f, w) == [f EXCEPT ![worker[w].doc] = worker[w].job]

LEMMA KeptByWorker ==
  ASSUME DocumentInv, NEW f \in D!Origins, Kept(f), UNCHANGED <<removal, reading>>,
         NEW w \in Workers, RunOnce(w) \/ CrashWorker(w) \/ RestartWorker(w),
         NEW g, g = IF document' = document THEN f ELSE Extended(f, w)
  PROVE  g \in D!Origins /\ Kept(g)'
<1>0. /\ Typed /\ HolderInv /\ f \in [Docs -> Jobs \cup {NoJob}]
      /\ worker \in [Workers -> Worker] /\ NoJob \notin Jobs /\ NoDoc \notin Docs
  BY NullsDistinct DEF DocumentInv, HolderInv, Typed, TypeOK, D!Origins
<1>1. /\ objects' \subseteq Keys /\ upload' = upload
      /\ \A v \in Workers \ {w} : worker'[v] = worker[v]
      /\ \A k \in Jobs : Queued(k)' => Queued(k)
  BY <1>0, TypedStores, WorkerElsewhere
<1>2. /\ issued \subseteq issued'
      /\ worker'[w].job # NoJob /\ worker'[w].pc \notin PastCreating =>
           \/ Queued(worker'[w].job)
           \/ worker[w].job = worker'[w].job /\ worker[w].pc \notin PastCreating
      /\ worker'[w].pc \in Creating =>
           \/ worker[w].pc \in Creating /\ worker'[w].doc = worker[w].doc
           \/ worker'[w].doc \notin issued
      /\ ~InsertDocument(w) => document' = document
  BY WorkerHands
<1>d. worker'[w].pc \in Creating => worker'[w].doc \in Docs
  BY <1>0, TypedWorker DEF WorkerShape, HasDoc, Creating
<1>3. /\ \A d \in Docs : f[d] # NoJob =>
           /\ f[d] \in Jobs /\ d \in issued' /\ ~Queued(f[d])'
           /\ upload'[f[d]].pc \notin NotYetPushed
           /\ \A v \in Workers : worker'[v].job = f[d] => worker'[v].pc \in PastCreating
      /\ \A v \in Workers : worker'[v].pc \in Creating => f[worker'[v].doc] = NoJob
  <2>1. ASSUME NEW d \in Docs, f[d] # NoJob
        PROVE  /\ f[d] \in Jobs /\ d \in issued' /\ ~Queued(f[d])'
               /\ upload'[f[d]].pc \notin NotYetPushed
               /\ \A v \in Workers : worker'[v].job = f[d] => worker'[v].pc \in PastCreating
    <3>1. /\ f[d] \in Jobs /\ d \in issued /\ ~Queued(f[d])
          /\ upload[f[d]].pc \notin NotYetPushed
          /\ \A v \in Workers : worker[v].job = f[d] => worker[v].pc \in PastCreating
      BY <1>0, <2>1 DEF Kept, Handed
    <3>2. worker'[w].job = f[d] => worker'[w].pc \in PastCreating
      BY <1>0, <1>2, <3>1
    <3>3. QED BY <1>1, <1>2, <3>1, <3>2
  <2>2. ASSUME NEW v \in Workers, worker'[v].pc \in Creating
        PROVE  f[worker'[v].doc] = NoJob
    <3>1. CASE v = w
      BY <1>2, <1>d, <2>2, <3>1 DEF Kept, Handed
    <3>2. CASE v # w
      BY <1>1, <2>2, <3>2 DEF Kept, Handed
    <3>3. QED BY <3>1, <3>2
  <2>3. QED BY <2>1, <2>2
<1>4. CASE document' = document
  <2>1. D!Typed(f)'
    BY <1>1, <1>4, TypedAside DEF Kept
  <2>2. Handed(f)'
    BY <1>3 DEF Handed, Queued
  <2>3. QED BY <1>4, <2>1, <2>2 DEF Kept
<1>5. CASE document' # document
  <2>0. InsertDocument(w)
    BY <1>2, <1>5
  <2>1. PICK d, j : d = worker[w].doc /\ j = worker[w].job
    OBVIOUS
  <2>2. worker[w].pc = "resultStored" /\ d \in Docs /\ j \in Jobs
    <3>1. worker[w].pc = "resultStored"
      BY <2>0 DEF InsertDocument, WorkerAt
    <3>2. QED BY <1>0, <2>1, <3>1, JobInHand DEF Typed, WorkerShape, HasDoc, Free
  <2>3. /\ document' = [document EXCEPT ![d] = j] /\ UNCHANGED <<objects, queue, issued>>
        /\ worker'[w].pc \in {"inserted", "cleaning"} /\ worker'[w].job = j
    BY <1>0, <1>5, <2>0, <2>1 DEF InsertDocument, RaisesWith, WorkerGo, Worker
  <2>4. f[d] = NoJob
    BY <2>1, <2>2 DEF Kept, Handed, Creating
  <2>5. \A e \in Docs : f[e] # j
    BY <1>0, <2>1, <2>2 DEF Kept, Handed, PastCreating, Linking
  <2>6. g = [f EXCEPT ![d] = j]
    BY <1>5, <2>1 DEF Extended
  <2>7. g \in D!Origins /\ D!Typed(g)'
    <3>1. D!Typed(f) /\ objects' = objects /\ document' = [document EXCEPT ![d] = j]
      BY <2>3 DEF Kept
    <3>2. QED BY <2>2, <2>4, <2>5, <2>6, <3>1, TypedInserted
  <2>8. \A e \in Docs : g[e] = IF e = d THEN j ELSE f[e]
    BY <1>0, <2>6
  <2>9. /\ d \in issued' /\ ~Queued(j)' /\ upload'[j].pc \notin NotYetPushed
        /\ \A v \in Workers : worker'[v].job = j => worker'[v].pc \in PastCreating
    <3>1. d \in issued
      BY <1>0, <2>1, <2>2 DEF DocumentInv, IdsDrawnOnce
    <3>2. ~Queued(j)
      BY <1>0, <2>1 DEF HolderInv, SingleHolder, Queued
    <3>3. upload[j].pc \notin NotYetPushed
      BY <1>0, <2>1, <2>2 DEF HolderInv, PushedOnce
    <3>4. \A v \in Workers : worker'[v].job = j => v = w
      BY <1>0, <1>1, <2>1, <2>2 DEF HolderInv, SingleHolder
    <3>5. worker'[w].pc \in PastCreating
      BY <2>3 DEF PastCreating, Linking
    <3>6. QED BY <1>1, <1>2, <2>2, <2>3, <3>1, <3>2, <3>3, <3>4, <3>5
  <2>10. ASSUME NEW v \in Workers, worker'[v].pc \in Creating
         PROVE  g[worker'[v].doc] = NoJob
    <3>1. v # w
      BY <2>3, <2>10 DEF Creating
    <3>2. worker'[v] = worker[v] /\ worker[v].doc \in Docs /\ worker[v].doc # d
      <4>1. worker'[v] = worker[v] /\ worker[v].doc \in Docs
        BY <1>0, <1>1, <2>10, <3>1 DEF Typed, WorkerShape, HasDoc, Creating
      <4>2. QED BY <1>0, <2>1, <2>2, <3>1, <4>1 DEF DocumentInv, IdsDrawnOnce
    <3>3. QED BY <1>3, <2>8, <2>10, <3>2
  <2>11. Handed(g)'
    BY <1>3, <2>8, <2>9, <2>10 DEF Handed, Queued
  <2>12. QED BY <2>7, <2>11 DEF Kept
<1>6. QED BY <1>4, <1>5

LEMMA AgentStart == AgentInit => AgentInv
<1> SUFFICES ASSUME AgentInit PROVE AgentInv
  OBVIOUS
<1>1. DocumentInv
  BY TypeInit, HolderInit, DocumentInit DEF AgentInit, DocumentInv, HolderInv
<1>2. /\ document \in D!Origins /\ objects \subseteq D!Keys
      /\ \A d \in Docs : document[d] = NoJob
  BY DEF AgentInit, Init, D!Origins
<1>3. D!InitRequests
  BY DEF AgentInit, Requests!InitRequests, D!InitRequests, Requests!IdleRemoval,
         D!IdleRemoval, Requests!IdleReading, D!IdleReading
<1>4. D!Typed(document)
  BY <1>2, <1>3, D!TypedAtStart, NullsDistinct, FaultClasses DEF Subsystems, D!Subsystems
<1>5. Handed(document)
  BY <1>2 DEF Handed, AgentInit, Init, FreshWorker, Creating
<1>6. QED BY <1>1, <1>2, <1>4, <1>5 DEF AgentInv, Kept

LEMMA AgentStep == AgentInv /\ [AgentNext]_agentVars => AgentInv'
<1> SUFFICES ASSUME AgentInv, [AgentNext]_agentVars PROVE AgentInv'
  OBVIOUS
<1>1. PICK f \in D!Origins : DocumentInv /\ Kept(f)
  BY DEF AgentInv
<1>2. CASE UNCHANGED agentVars
  <2>1. DocumentInv'
    BY <1>1, <1>2, DocumentNext DEF agentVars, vars
  <2>2. D!Typed(f)'
    BY <1>1, <1>2, TypedAside DEF agentVars, vars, Kept, DocumentInv, HolderInv, Typed, TypeOK
  <2>3. Handed(f)'
    BY <1>1, <1>2 DEF agentVars, vars, Kept, Handed, Queued
  <2>4. QED BY <2>1, <2>2, <2>3 DEF AgentInv, Kept
<1>3. CASE RequestStep
  BY <1>1, <1>3, RequestKeeps DEF AgentInv
<1>4. CASE PipelineStep
  <2>1. DocumentInv'
    BY <1>1, <1>4, DocumentNext DEF PipelineStep
  <2>2. \E g \in D!Origins : Kept(g)'
    <3>1. ASSUME NEW j \in Jobs, CreateJob(j) \/ CrashUpload(j)
          PROVE  Kept(f)'
      BY <1>1, <1>4, <3>1, KeptByUpload DEF PipelineStep
    <3>2. ASSUME NEW w \in Workers, RunOnce(w) \/ CrashWorker(w) \/ RestartWorker(w)
          PROVE  \E g \in D!Origins : Kept(g)'
      <4>1. PICK g : g = IF document' = document THEN f ELSE Extended(f, w)
        OBVIOUS
      <4>2. QED BY <1>1, <1>4, <3>2, <4>1, KeptByWorker DEF PipelineStep
    <3>3. QED BY <1>1, <1>4, <3>1, <3>2 DEF PipelineStep, Next
  <2>3. QED BY <2>1, <2>2 DEF AgentInv
<1>5. QED BY <1>2, <1>3, <1>4 DEF AgentNext

(***************************************************************************)
(* Under every fault: the rows, the queue, the workers and the requests    *)
(* agree with one history of which job each document was made from.        *)
(***************************************************************************)
THEOREM AgentInvariant == AgentSpec => []AgentInv
BY AgentStart, AgentStep, PTL DEF AgentSpec

(***************************************************************************)
(* Deletes beside uploads and workers, under every fault: a job never      *)
(* names a document that is gone or that was parsed from another upload.   *)
(***************************************************************************)
THEOREM LinksFollowDeletes == AgentSpec => []LinkedToOwnDocument
<1>1. AgentInv => LinkedToOwnDocument
  BY DEF AgentInv, DocumentInv
<1>2. QED BY <1>1, AgentInvariant, PTL

-----------------------------------------------------------------------------
(***************************************************************************)
(* The life of a job, when the database and the queue answer               *)
(***************************************************************************)
(* a delete touches only rows of jobs that ended *)
LEMMA RequestLeavesStatus ==
  ASSUME RequestStep, StatusInv, NEW f \in D!Origins, Kept(f), NEW j \in Jobs
  PROVE  /\ jobRow'[j].status = jobRow[j].status /\ jobRow'[j].error = jobRow[j].error
         /\ jobRow[j].status # "succeeded" => jobRow'[j] = jobRow[j]
         /\ jobRow'[j].doc # NoDoc => jobRow'[j] = jobRow[j]
<1>1. PICK old, new : old \in Row /\ old = jobRow[j] /\ new = jobRow'[j]
  BY DEF StatusInv, DocumentInv, HolderInv, Typed, TypeOK
<1>2. \/ new = old
      \/ old.doc # NoDoc /\ new = [old EXCEPT !.doc = NoDoc]
  BY <1>1, RequestRows DEF StatusInv, DocumentInv, HolderInv, Kept
<1>3. old.doc # NoDoc => old.status = "succeeded"
  BY <1>1 DEF StatusInv, LinkedOnlyWhenSucceeded
<1>4. /\ new.status = old.status /\ new.error = old.error
      /\ old.status # "succeeded" => new = old
      /\ new.doc # NoDoc => new = old
  BY <1>1, <1>2, <1>3 DEF Row
<1>5. QED BY <1>1, <1>4

LEMMA RequestKeepsStatus ==
  ASSUME RequestStep, StatusInv, NEW f \in D!Origins, Kept(f)
  PROVE  StatusInv'
<1>1. /\ DocumentInv' /\ UNCHANGED Pipeline
  BY RequestKeeps, RequestRows DEF StatusInv, DocumentInv, HolderInv, Kept
<1>2. \A j \in Jobs : /\ jobRow'[j].error = jobRow[j].error
                      /\ jobRow[j].status # "succeeded" => jobRow'[j] = jobRow[j]
                      /\ jobRow'[j].doc # NoDoc => jobRow'[j] = jobRow[j]
  BY RequestLeavesStatus
<1>3. NeverPushed'
  BY <1>1, <1>2 DEF StatusInv, NeverPushed, AtLarge, Queued, Pipeline
<1>4. \A j \in Jobs : jobRow[j] \in {NoRow, QueuedRow, ProcessingRow} => jobRow'[j] = jobRow[j]
  BY <1>2, RowValues
<1>5. RequestRow'
  BY <1>1, <1>4 DEF StatusInv, RequestRow, Queued, Pipeline
<1>6. WorkerRow'
  <2>1. \A w \in Workers : worker[w].pc \notin Free => worker[w].job \in Jobs
    BY JobInHand DEF StatusInv, DocumentInv, HolderInv
  <2>2. QED BY <1>1, <1>4, <2>1 DEF StatusInv, WorkerRow, InProcess, Free, Pipeline
<1>7. LinkedOnlyWhenSucceeded'
  BY <1>2 DEF StatusInv, LinkedOnlyWhenSucceeded
<1>8. QED BY <1>1, <1>3, <1>5, <1>6, <1>7 DEF StatusInv

LEMMA RequestKeepsLifecycle ==
  ASSUME RequestStep, LifecycleInv, NEW f \in D!Origins, Kept(f)
  PROVE  /\ LifecycleInv'
         /\ UNCHANGED State \/ \E j \in Jobs : Lifecycle!Withdraw(j)
<1>0. /\ StatusInv /\ Typed /\ LinkedToOwnDocument /\ D!Typed(f) /\ NoJob \notin Jobs
      /\ document \in [Docs -> Jobs \cup {NoJob}]
  BY NullsDistinct DEF LifecycleInv, StatusInv, DocumentInv, HolderInv, Kept, Typed, TypeOK
<1>1. /\ UNCHANGED Pipeline
      /\ \A d \in Docs : document'[d] \in {document[d], NoJob}
      /\ document' # document => \E d \in Docs : document' = [document EXCEPT ![d] = NoJob]
  BY <1>0, RequestRows, DRequestsTakeOwn
<1>2. \A j \in Jobs : jobRow'[j].status = jobRow[j].status
  BY <1>0, RequestLeavesStatus
<1>3. \A j \in Jobs \cup {NoJob} : j # NoJob /\ Published(j)' => Published(j)
  BY <1>1 DEF Published
<1>4. LifecycleInv'
  <2>1. StatusInv'
    BY <1>0, RequestKeepsStatus
  <2>2. \A w \in Workers : worker[w].pc \in {"cleaning", "failing", "failCommit"} =>
          worker[w].job \in Jobs
    BY <1>0, JobInHand DEF Free
  <2>3. PublishedInProcess'
    BY <1>0, <1>1, <1>2, <1>3, <2>2 DEF LifecycleInv, PublishedInProcess, Published, Pipeline
  <2>4. QED BY <2>1, <2>3 DEF LifecycleInv
<1>5. CASE document' = document
  <2>1. \A j \in Jobs : LifecycleState(j)' = LifecycleState(j)
    BY <1>2, <1>5 DEF LifecycleState, Published
  <2>2. QED BY <1>4, <2>1 DEF State
<1>6. CASE document' # document
  <2>1. PICK d \in Docs : document' = [document EXCEPT ![d] = NoJob]
    BY <1>1, <1>6
  <2>2. PICK j \in Jobs : j = document[d]
    BY <1>0, <1>6, <2>1
  <2>3. Published(j) /\ ~Published(j)'
    BY <1>0, <2>1, <2>2 DEF StatusInv, DocumentInv, OneDocumentPerJob, Published
  <2>4. ASSUME NEW k \in Jobs \ {j}
        PROVE  LifecycleState(k)' = LifecycleState(k)
    <3>1. Published(k)' <=> Published(k)
      BY <1>0, <2>1, <2>2 DEF Published
    <3>2. jobRow'[k].status = jobRow[k].status
      BY <1>2
    <3>3. QED BY <3>1, <3>2 DEF LifecycleState
  <2>5. jobRow[j].status \in {"processing", "succeeded"} /\ jobRow'[j].status = jobRow[j].status
    BY <1>2, <2>3 DEF LifecycleInv, PublishedInProcess
  <2>6. CASE jobRow[j].status = "succeeded"
    <3>1. LifecycleState(j)' = LifecycleState(j)
      BY <2>5, <2>6, StateOf, StateNext
    <3>2. QED BY <1>4, <2>4, <3>1 DEF State
  <2>7. CASE jobRow[j].status = "processing"
    <3>1. LifecycleState(j) = "published" /\ LifecycleState(j)' = "processing"
      BY <2>3, <2>5, <2>7, StateOf, StateNext
    <3>2. State' = [State EXCEPT ![j] = "processing"] /\ State[j] = "published"
      BY <2>4, <3>1, StateMove, StateOf
    <3>3. Lifecycle!Withdraw(j)
      BY <3>2 DEF Lifecycle!Withdraw, Lifecycle!Move, State
    <3>4. QED BY <1>4, <3>3
  <2>8. QED BY <2>5, <2>6, <2>7
<1>7. QED BY <1>5, <1>6

AgentLifecycleInv == AgentInv /\ LifecycleInv

LEMMA AgentLifecycleStart == AgentInit => AgentLifecycleInv
BY AgentStart, LifecycleStart DEF AgentInit, AgentLifecycleInv

LEMMA AgentLifecycleStep ==
  ASSUME DatabaseUp
  PROVE  AgentLifecycleInv /\ [AgentNext]_agentVars => AgentLifecycleInv'
<1> SUFFICES ASSUME AgentLifecycleInv, [AgentNext]_agentVars PROVE LifecycleInv'
  BY AgentStep DEF AgentLifecycleInv
<1>1. CASE UNCHANGED agentVars \/ PipelineStep
  BY <1>1, LifecycleInvNext DEF agentVars, PipelineStep, AgentLifecycleInv
<1>2. CASE RequestStep
  BY <1>2, RequestKeepsLifecycle DEF AgentLifecycleInv, AgentInv
<1>3. QED BY <1>1, <1>2 DEF AgentNext

(***************************************************************************)
(* With deletes beside it a job still lives the life JobLifecycle          *)
(* promises: a deletion takes the published document of an unfinished job  *)
(* back, and touches no job that ended.                                    *)
(***************************************************************************)
THEOREM DeletesKeepLifecycle ==
  ASSUME DatabaseUp
  PROVE  AgentSpec => ImplementsLifecycle
<1>1. AgentInit => Lifecycle!Init
  <2> SUFFICES ASSUME AgentInit PROVE Lifecycle!Init
    OBVIOUS
  <2>1. \A j \in Jobs : LifecycleState(j) = "none"
    BY RowValues, StateOf DEF AgentInit, Init
  <2>2. QED BY <2>1 DEF Lifecycle!Init
<1>2. AgentLifecycleInv /\ [AgentNext]_agentVars => [Lifecycle!Next]_State
  <2> SUFFICES ASSUME AgentLifecycleInv, [AgentNext]_agentVars
               PROVE  Lifecycle!Next \/ UNCHANGED State
    OBVIOUS
  <2>0. LifecycleInv /\ \E f \in D!Origins : Kept(f)
    BY DEF AgentLifecycleInv, AgentInv
  <2>1. CASE RequestStep
    BY <2>0, <2>1, RequestKeepsLifecycle DEF Lifecycle!Next
  <2>2. ASSUME NEW j \in Jobs, CreateJob(j) \/ CrashUpload(j)
        PROVE  Lifecycle!Next \/ UNCHANGED State
    BY <2>0, <2>2, LifecycleUpload DEF Lifecycle!Next
  <2>3. ASSUME NEW w \in Workers, RunOnce(w) \/ CrashWorker(w) \/ RestartWorker(w)
        PROVE  Lifecycle!Next \/ UNCHANGED State
    BY <2>0, <2>3, LifecycleWorker DEF Lifecycle!Next
  <2>4. CASE UNCHANGED agentVars
    BY <2>4 DEF agentVars, vars, State, LifecycleState, Published
  <2>5. QED BY <2>1, <2>2, <2>3, <2>4 DEF AgentNext, PipelineStep, Next
<1>3. AgentLifecycleInv /\ [AgentNext]_agentVars =>
        [Lifecycle!Next]_([j \in Jobs |-> LifecycleState(j)])
  BY <1>2 DEF State
<1>4. QED BY AgentLifecycleStart, AgentLifecycleStep, <1>1, <1>3, PTL
          DEF AgentSpec, ImplementsLifecycle, Lifecycle!Spec

-----------------------------------------------------------------------------
(***************************************************************************)
(* No job is lost, when no process stops and the database and the queue    *)
(* answer: whatever storage and parsers do, and whatever is deleted        *)
(***************************************************************************)
NothingStops == Crashes = {}

(* the queue keeps what a step does not hand to a worker *)
LEMMA QueueKept ==
  ASSUME Typed, DatabaseUp, NEW w \in Workers, RunOnce(w) \/ RestartWorker(w), NEW k \in Jobs,
         Queued(k)
  PROVE  Queued(k)' \/ worker'[w].job = k
<1>0. queue \in Seq(Jobs) /\ worker \in [Workers -> Worker]
  BY DEF Typed, TypeOK
<1>1. CASE queue' = queue
  BY <1>1 DEF Queued
<1>2. CASE queue' # queue
  <2>1. /\ DequeueParseJob(w) /\ queue # <<>> /\ queue' = Tail(queue)
        /\ worker' = [worker EXCEPT ![w].pc = "starting", ![w].job = Head(queue)]
    <3>1. DequeueParseJob(w)
      BY <1>2, QuietSteps DEF RunOnce, Quiet, PutMarkdown, InsertDocument
    <3>2. QED BY <1>2, <3>1 DEF DequeueParseJob, Popped, DatabaseUp, WritesAcknowledged
  <2>2. worker'[w].job = Head(queue)
    BY <1>0, <2>1 DEF Worker
  <2>3. PICK i \in DOMAIN queue : queue[i] = k
    BY DEF Queued
  <2>4. CASE i = 1
    BY <1>0, <2>1, <2>2, <2>3, <2>4
  <2>5. CASE i # 1
    <3>1. i - 1 \in DOMAIN queue' /\ queue'[i - 1] = k
      BY <1>0, <2>1, <2>3, <2>5
    <3>2. QED BY <3>1 DEF Queued
  <2>6. QED BY <2>4, <2>5
<1>3. QED BY <1>1, <1>2

LEMMA NoneLostByUpload ==
  ASSUME StatusInv, NoLostJob, DatabaseUp, NEW j \in Jobs, CreateJob(j)
  PROVE  NoLostJob'
<1>0. /\ Typed /\ upload \in [Jobs -> Upload] /\ jobRow \in [Jobs -> Row]
      /\ queue \in Seq(Jobs)
  BY DEF StatusInv, DocumentInv, HolderInv, Typed, TypeOK
<1>1. /\ worker' = worker
      /\ \A k \in Jobs \ {j} : /\ upload'[k] = upload[k] /\ jobRow'[k] = jobRow[k]
                               /\ Queued(k)' <=> Queued(k)
  BY <1>0, RequestElsewhere
<1>2. \A k \in Jobs \ {j} : InHands(k) => InHands(k)'
  BY <1>1 DEF InHands, Queued
<1>3. jobRow'[j].status \in {"queued", "processing"} => InHands(j)'
  <2>0. Queued(j)' => InHands(j)'
    BY DEF InHands, Queued
  <2>1. CASE PutSource(j) \/ CleanupSource(j) \/ RefreshJob(j)
    <3>1. jobRow' = jobRow /\ queue' = queue
          /\ upload[j].pc \notin {"persisted", "marking", "markCommit"}
      BY <2>1 DEF PutSource, CleanupSource, RefreshJob, UploadAt
    <3>2. QED BY <1>1, <3>1 DEF NoLostJob, Open, InHands
  <2>2. CASE InsertJob(j)
    BY <1>0, <2>2 DEF InsertJob, RaisesWith, UploadGo, Upload, InHands, DatabaseUp,
                      WritesAcknowledged
  <2>3. CASE EnqueueParseJob(j)
    <3>1. CASE queue' = Append(queue, j)
      <4>1. Len(queue) + 1 \in DOMAIN queue' /\ queue'[Len(queue) + 1] = j
        BY <1>0, <3>1
      <4>2. QED BY <2>0, <4>1 DEF Queued
    <3>2. CASE upload'[j].pc = "marking"
      BY <3>2 DEF InHands
    <3>3. QED BY <1>0, <2>3, <3>1, <3>2 DEF EnqueueParseJob, Pushed, UploadGo, Upload,
                                            AfterEnqueueFailure
  <2>4. CASE LoadEnqueueFailure(j)
    <3>1. jobRow' = jobRow /\ jobRow[j] = QueuedRow
      BY <2>4 DEF LoadEnqueueFailure, UploadAt, StatusInv, RequestRow
    <3>2. upload'[j].pc = "markCommit"
      BY <1>0, <2>4, <3>1, RowValues DEF LoadEnqueueFailure, Fails, DatabaseUp,
         WritesAcknowledged
    <3>3. QED BY <3>2 DEF InHands
  <2>5. CASE CommitEnqueueFailure(j)
    <3>1. upload[j].seen = QueuedRow /\ jobRow[j] = QueuedRow
      BY <2>5 DEF CommitEnqueueFailure, UploadAt, StatusInv, RequestRow
    <3>2. Flush(QueuedRow, QueuedRow, EnqueueFailedRow(QueuedRow)) = EnqueueFailedRow(QueuedRow)
      BY RowValues, FlushFresh
    <3>3. jobRow'[j] = EnqueueFailedRow(QueuedRow)
      BY <1>0, <2>5, <3>1, <3>2 DEF CommitEnqueueFailure, RaisesWith, DatabaseUp,
         WritesAcknowledged
    <3>4. QED BY <3>3, RowValues
  <2>6. QED BY <2>1, <2>2, <2>3, <2>4, <2>5 DEF CreateJob
<1>4. QED BY <1>1, <1>2, <1>3 DEF NoLostJob, Open

(* a worker keeps its job or ends it *)
LEMMA JobKeptOrEnded ==
  ASSUME StatusInv, DatabaseUp, NEW w \in Workers, RunOnce(w) \/ RestartWorker(w),
         NEW k \in Jobs, worker[w].job = k
  PROVE  worker'[w].job = k \/ jobRow'[k].status \in Terminal
<1>0. /\ Typed /\ worker \in [Workers -> Worker] /\ jobRow \in [Jobs -> Row]
      /\ NoJob \notin Jobs /\ worker[w].pc \notin Free
  BY NullsDistinct DEF StatusInv, DocumentInv, HolderInv, Typed, TypeOK, WorkerShape
<1>1. CASE LoadStart(w)
  <2>1. Startable(jobRow[k])
    BY <1>1, RowValues DEF LoadStart, WorkerAt, StatusInv, WorkerRow, Startable
  <2>2. QED BY <1>0, <1>1, <2>1 DEF LoadStart, Fails, DatabaseUp, WritesAcknowledged, Worker
<1>2. CASE CommitStart(w)
  BY <1>0, <1>2 DEF CommitStart, RaisesWith, DatabaseUp, WritesAcknowledged, Worker
<1>3. CASE CommitComplete(w) \/ CommitFail(w)
  <2>1. CASE ~Finish(w)
    BY <1>0, <1>3, <2>1 DEF CommitComplete, CommitFail, RaisesWith, DatabaseUp,
       WritesAcknowledged, Worker
  <2>2. CASE Finish(w)
    <3>1. /\ jobRow[k] = ProcessingRow /\ worker[w].seen = ProcessingRow
          /\ worker[w].pc = "completeCommit" => worker[w].doc \in Docs
      BY <1>0, <1>3 DEF CommitComplete, CommitFail, WorkerAt, StatusInv, WorkerRow, InProcess,
                        WorkerPcs, Typed, WorkerShape, HasDoc
    <3>2. CASE CommitComplete(w)
      <4>1. CompletedRow(ProcessingRow, worker[w].doc) \in Row
        BY <3>1, <3>2, RowValues DEF CommitComplete, WorkerAt
      <4>2. jobRow'[k] = CompletedRow(ProcessingRow, worker[w].doc)
        BY <1>0, <2>2, <3>1, <3>2, <4>1, RowValues, FlushFresh
        DEF CommitComplete, Finish, FreshWorker, FailingStep, Worker
      <4>3. QED BY <3>1, <3>2, <4>2, RowValues DEF CommitComplete, WorkerAt, Terminal
    <3>3. CASE CommitFail(w)
      <4>1. jobRow'[k] = FailedRow(ProcessingRow)
        BY <1>0, <3>1, <3>3, RowValues, FlushFresh
        DEF CommitFail, RaisesWith, DatabaseUp, WritesAcknowledged
      <4>2. QED BY <4>1, RowValues DEF Terminal
    <3>4. QED BY <1>3, <3>2, <3>3
  <2>3. QED BY <2>1, <2>2
<1>4. CASE RefreshStarted(w) \/ LoadFail(w)
  BY <1>0, <1>4 DEF RefreshStarted, LoadFail, WorkerGo, Fails, DatabaseUp, WritesAcknowledged,
                    Worker
<1>5. CASE FetchSource(w) \/ ParseSource(w) \/ PutMarkdown(w) \/ PutJson(w)
           \/ InsertDocument(w) \/ CleanResult(w) \/ RefreshDocument(w) \/ LoadComplete(w)
  <2>1. CASE \E pc : WorkerGo(w, pc)
    BY <1>0, <2>1 DEF WorkerGo, Worker
  <2>a. CASE \E pc, d, keys :
               worker' = [worker EXCEPT ![w].pc = pc, ![w].doc = d, ![w].uploaded = keys]
    BY <1>0, <2>a DEF Worker
  <2>2. CASE PutMarkdown(w) \/ PutJson(w)
    <3>1. CASE PutMarkdown(w)
      BY <2>1, <2>a, <3>1 DEF PutMarkdown
    <3>2. CASE PutJson(w)
      BY <1>0, <2>1, <3>2 DEF PutJson, Worker
    <3>3. QED BY <2>2, <3>1, <3>2
  <2>3. CASE CleanResult(w) \/ LoadComplete(w)
    BY <1>0, <2>1, <2>3 DEF CleanResult, LoadComplete, Worker
  <2>4. CASE FetchSource(w) \/ ParseSource(w) \/ InsertDocument(w) \/ RefreshDocument(w)
    BY <2>1, <2>4 DEF FetchSource, ParseSource, InsertDocument, RefreshDocument
  <2>5. QED BY <1>5, <2>2, <2>3, <2>4
<1>6. CASE DequeueParseJob(w) \/ RestartWorker(w)
  BY <1>0, <1>6 DEF DequeueParseJob, RestartWorker, WorkerAt, Free
<1>7. QED BY <1>1, <1>2, <1>3, <1>4, <1>5, <1>6 DEF RunOnce

LEMMA NoneLostByWorker ==
  ASSUME StatusInv, NoLostJob, DatabaseUp, NEW w \in Workers, RunOnce(w) \/ RestartWorker(w)
  PROVE  NoLostJob'
<1>0. Typed /\ HolderInv /\ jobRow \in [Jobs -> Row] /\ NoJob \notin Jobs
  BY NullsDistinct DEF StatusInv, DocumentInv, HolderInv, Typed, TypeOK
<1>1. /\ upload' = upload
      /\ \A v \in Workers \ {w} : worker'[v] = worker[v]
      /\ \A k \in Jobs : k # worker[w].job => jobRow'[k] = jobRow[k]
  BY <1>0, WorkerElsewhere
<1>2. SUFFICES ASSUME NEW k \in Jobs, jobRow'[k].status \in {"queued", "processing"}
               PROVE  InHands(k)'
  BY DEF NoLostJob, Open
<1>3. CASE k = worker[w].job
  <2>1. worker'[w].job = k
    BY <1>2, <1>3, JobKeptOrEnded DEF Terminal
  <2>2. QED BY <2>1 DEF InHands
<1>4. CASE k # worker[w].job
  <2>1. InHands(k)
    BY <1>1, <1>2, <1>4 DEF NoLostJob, Open
  <2>2. CASE upload[k].pc \in {"persisted", "marking", "markCommit"}
    BY <1>1, <2>2 DEF InHands
  <2>3. CASE Queued(k)
    BY <1>0, <2>3, QueueKept DEF InHands, Queued
  <2>4. CASE \E v \in Workers : worker[v].job = k
    BY <1>1, <1>4, <2>4 DEF InHands
  <2>5. QED BY <2>1, <2>2, <2>3, <2>4 DEF InHands, Queued
<1>5. QED BY <1>3, <1>4

(***************************************************************************)
(* A job that is queued or processing is in the hands of its request, of   *)
(* the queue or of a worker, in every interleaving with deletes: only a    *)
(* stopped process or an error of the database or the queue loses one.     *)
(***************************************************************************)
THEOREM JobsStayInHands ==
  ASSUME DatabaseUp, NothingStops
  PROVE  AgentSpec => []NoLostJob
<1>1. AgentInit => NoLostJob
  BY RowValues DEF AgentInit, Init, NoLostJob, Open
<1>2. AgentLifecycleInv /\ NoLostJob /\ [AgentNext]_agentVars => NoLostJob'
  <2> SUFFICES ASSUME AgentLifecycleInv, NoLostJob, [AgentNext]_agentVars PROVE NoLostJob'
    OBVIOUS
  <2>0. StatusInv /\ Typed /\ \E f \in D!Origins : Kept(f)
    BY DEF AgentLifecycleInv, AgentInv, LifecycleInv, StatusInv, DocumentInv, HolderInv
  <2>1. CASE RequestStep
    <3>1. UNCHANGED Pipeline /\ \A j \in Jobs : jobRow'[j].status = jobRow[j].status
      BY <2>0, <2>1, RequestRows, RequestLeavesStatus
      DEF StatusInv, DocumentInv, HolderInv, Kept
    <3>2. QED BY <3>1 DEF NoLostJob, Open, InHands, Pipeline
  <2>2. ASSUME NEW j \in Jobs, CreateJob(j) \/ CrashUpload(j) PROVE NoLostJob'
    BY <2>0, <2>2, NoneLostByUpload DEF CrashUpload, NothingStops
  <2>3. ASSUME NEW w \in Workers, RunOnce(w) \/ CrashWorker(w) \/ RestartWorker(w)
        PROVE  NoLostJob'
    BY <2>0, <2>3, NoneLostByWorker DEF CrashWorker, NothingStops
  <2>4. CASE UNCHANGED agentVars
    BY <2>4 DEF agentVars, vars, NoLostJob, Open, InHands
  <2>5. QED BY <2>1, <2>2, <2>3, <2>4 DEF AgentNext, PipelineStep, Next
<1>3. QED BY AgentLifecycleStart, AgentLifecycleStep, <1>1, <1>2, PTL DEF AgentSpec

-----------------------------------------------------------------------------
(***************************************************************************)
(* Losses are reported, when a put, a delete or a commit that raises has   *)
(* changed nothing: what an upload or a worker cleans up belongs to no     *)
(* document that was ever made, and a document is made of objects that are *)
(* there.                                                                  *)
(***************************************************************************)
SourceBacked(f) ==
  \A j \in Jobs :
    /\ upload[j].pc = "cleanup" => ~AtLarge(j) /\ \A d \in Docs : f[d] # j
    /\ (\A d \in Docs : f[d] # j) /\ (upload[j].pc \in {"stored", "persisted"} \/ AtLarge(j)) =>
         Source(j) \in objects

ResultBacked(f) ==
  \A w \in Workers :
    /\ worker[w].pc \in Creating => Markdown(worker[w].doc) \in objects
    /\ worker[w].pc = "resultStored" => Json(worker[w].doc) \in objects
    /\ worker[w].pc \in StoringPcs =>
         /\ worker[w].doc \in Docs /\ f[worker[w].doc] = NoJob
         /\ worker[w].uploaded \subseteq ResultOf(worker[w].doc)

Backed(f) == SourceBacked(f) /\ ResultBacked(f)

ReportedInv == DocumentInv /\ \E f \in D!Origins : Kept(f) /\ D!Accounted(f) /\ Backed(f)

StorageAcknowledges == "storage" \notin Unacknowledged

LEMMA DAccountedStep ==
  ASSUME StorageAcknowledges, NEW f \in D!Origins, D!Typed(f), D!Accounted(f), D!Next
  PROVE  D!Accounted(f)'
BY D!AccountedStep, NullsDistinct, FaultClasses
DEF Subsystems, D!Subsystems, StorageAcknowledges, D!StorageAcknowledged

(* what belongs to whom *)
LEMMA OwnResult ==
  ASSUME NEW f, NEW d
  PROVE  /\ D!OwnKeys(f, d) = {Source(f[d])} \cup ResultOf(d)
         /\ \A e : d # e => ResultOf(e) \cap D!OwnKeys(f, d) = {}
         /\ \A j : Source(j) \in D!OwnKeys(f, d) <=> j = f[d]
<1>1. D!OwnKeys(f, d) = {Source(f[d])} \cup ResultOf(d)
  BY DEF D!OwnKeys, ResultOf, D!Source, Source, D!Markdown, Markdown, D!Json, Json
<1>2. QED BY <1>1, KeysApart

(* objects go, and no document that was made owns them *)
LEMMA AccountedAside ==
  ASSUME NEW f, D!Accounted(f), removal' = removal,
         \A d \in D!Made(f) : D!OwnKeys(f, d) \cap objects \subseteq objects'
  PROVE  D!Accounted(f)'
BY DEF D!Accounted

LEMMA BackedByRequest ==
  ASSUME RequestStep, DocumentInv, NEW f \in D!Origins, Kept(f), Backed(f)
  PROVE  Backed(f)'
<1>1. /\ UNCHANGED Pipeline
      /\ \A key \in objects \ objects' : \E d \in D!Made(f) : key \in D!OwnKeys(f, d)
  BY RequestRows, DRequestsTakeOwn DEF DocumentInv, HolderInv, Kept
<1>2. \A j \in Jobs : (\A d \in Docs : f[d] # j) /\ Source(j) \in objects =>
                        Source(j) \in objects'
  BY <1>1, OwnResult DEF D!Made
<1>3. ASSUME NEW d, f[d] = NoJob, NEW key \in ResultOf(d), key \in objects
      PROVE  key \in objects'
  <2>1. \A e \in D!Made(f) : key \notin D!OwnKeys(f, e)
    BY <1>3, OwnResult DEF D!Made
  <2>2. QED BY <1>1, <1>3, <2>1
<1>4. SourceBacked(f)'
  BY <1>1, <1>2 DEF Backed, SourceBacked, AtLarge, Queued, Pipeline
<1>5. ResultBacked(f)'
  <2>1. \A d : Markdown(d) \in ResultOf(d) /\ Json(d) \in ResultOf(d)
    BY DEF ResultOf
  <2>2. \A w \in Workers : worker[w].pc \in Creating => worker[w].pc \in StoringPcs
    BY DEF Creating, StoringPcs
  <2>3. "resultStored" \in Creating
    BY DEF Creating
  <2>4. QED BY <1>1, <1>3, <2>1, <2>2, <2>3 DEF Backed, ResultBacked, Pipeline
<1>6. QED BY <1>4, <1>5 DEF Backed

LEMMA BackedByUpload ==
  ASSUME DocumentInv, NEW f \in D!Origins, Kept(f), Backed(f),
         NEW j \in Jobs, CreateJob(j) \/ CrashUpload(j)
  PROVE  Backed(f)'
<1>0. Typed /\ HolderInv /\ upload \in [Jobs -> Upload] /\ UNCHANGED <<worker, document, issued>>
  BY RequestElsewhere DEF DocumentInv, HolderInv, Typed, TypeOK
<1> DEFINE Unmade(k) == \A d \in Docs : f[d] # k
           Stored(k) ==
             /\ upload[k].pc = "cleanup" => ~AtLarge(k) /\ Unmade(k)
             /\ Unmade(k) /\ (upload[k].pc \in {"stored", "persisted"} \/ AtLarge(k)) =>
                  Source(k) \in objects
<1>1. \A k \in Jobs : Stored(k)
  BY DEF Backed, SourceBacked
<1>2. \A k \in Jobs \ {j} : Stored(k)'
  BY <1>0, <1>1, RequestElsewhere
<1>3. upload[j].pc \in NotYetPushed => ~AtLarge(j) /\ Unmade(j)
  <2>1. upload[j].pc \in NotYetPushed => ~AtLarge(j)
    BY <1>0 DEF HolderInv, PushedOnce, AtLarge
  <2>2. upload[j].pc \in NotYetPushed => Unmade(j)
    <3>1. NoJob # j
      BY NullsDistinct
    <3>2. QED BY <3>1 DEF Kept, Handed
  <2>3. QED BY <2>1, <2>2
<1>4. Stored(j)'
  <2>1. CASE EnqueueParseJob(j)
    <3>1. /\ objects' = objects /\ upload[j].pc = "persisted"
          /\ upload'[j].pc \in {"enqueued", "marking"}
      BY <1>0, <2>1 DEF EnqueueParseJob, UploadAt, UploadGo, Upload, AfterEnqueueFailure
    <3>2. QED BY <1>1, <3>1
  <2>2. CASE ~EnqueueParseJob(j)
    <3>1. queue' = queue
      BY <2>2 DEF CreateJob, CrashUpload, PutSource, InsertJob, CleanupSource,
                  LoadEnqueueFailure, CommitEnqueueFailure, RefreshJob
    <3>2. AtLarge(j)' <=> AtLarge(j)
      BY <1>0, <3>1 DEF AtLarge, Queued
    <3>3. CASE PutSource(j)
      <4>1. /\ upload[j].pc = "idle"
            /\ \/ upload'[j].pc = "stored" /\ Source(j) \in objects'
               \/ upload'[j].pc = "cleanup"
        BY <1>0, <3>3 DEF PutSource, UploadAt, UploadGo, Upload
      <4>2. QED BY <1>3, <3>2, <4>1 DEF NotYetPushed
    <3>4. CASE InsertJob(j)
      <4>1. /\ objects' = objects /\ upload[j].pc = "stored"
            /\ upload'[j].pc \in {"persisted", "cleanup"}
        BY <1>0, <3>4 DEF InsertJob, UploadAt, UploadGo, Upload
      <4>2. QED BY <1>1, <1>3, <3>2, <4>1 DEF NotYetPushed
    <3>5. CASE CleanupSource(j)
      <4>1. upload[j].pc = "cleanup" /\ upload'[j].pc = "rejected"
        BY <1>0, <3>5 DEF CleanupSource, UploadAt, UploadGo, Upload
      <4>2. QED BY <1>1, <3>2, <4>1
    <3>6. CASE LoadEnqueueFailure(j) \/ CommitEnqueueFailure(j) \/ RefreshJob(j)
               \/ CrashUpload(j)
      <4>1. objects' = objects
        BY <3>6 DEF LoadEnqueueFailure, CommitEnqueueFailure, RefreshJob, CrashUpload
      <4>2. upload'[j].pc \notin {"stored", "persisted", "cleanup"}
        <5>1. CASE LoadEnqueueFailure(j)
          BY <1>0, <5>1 DEF LoadEnqueueFailure, UploadAt, UploadGo, Upload
        <5>2. CASE CommitEnqueueFailure(j)
          BY <1>0, <5>2 DEF CommitEnqueueFailure, UploadAt, Upload
        <5>3. CASE RefreshJob(j) \/ CrashUpload(j)
          BY <1>0, <5>3 DEF RefreshJob, CrashUpload, UploadAt, UploadGo, Upload
        <5>4. QED BY <3>6, <5>1, <5>2, <5>3
      <4>3. QED BY <1>1, <3>2, <4>1, <4>2
    <3>7. QED BY <2>2, <3>3, <3>4, <3>5, <3>6 DEF CreateJob
  <2>3. QED BY <2>1, <2>2
<1>5. SourceBacked(f)'
  BY <1>2, <1>4 DEF SourceBacked
<1>6. ResultBacked(f)'
  <2>1. \A d : /\ Markdown(d) \in objects' <=> Markdown(d) \in objects
               /\ Json(d) \in objects' <=> Json(d) \in objects
    <3>1. \A d : ResultOf(d) \cap objects' = ResultOf(d) \cap objects
      BY RequestObjects
    <3>2. \A d : Markdown(d) \in ResultOf(d) /\ Json(d) \in ResultOf(d)
      BY DEF ResultOf
    <3>3. QED BY <3>1, <3>2
  <2>2. QED BY <1>0, <2>1 DEF Backed, ResultBacked
<1>7. QED BY <1>5, <1>6 DEF Backed

LEMMA AccountedByUpload ==
  ASSUME NEW f, D!Accounted(f), Backed(f), removal' = removal,
         NEW j \in Jobs, CreateJob(j) \/ CrashUpload(j)
  PROVE  D!Accounted(f)'
<1>1. CASE CleanupSource(j)
  <2>1. objects \ {Source(j)} \subseteq objects' /\ \A d \in Docs : f[d] # j
    BY <1>1 DEF CleanupSource, UploadAt, Backed, SourceBacked
  <2>2. QED BY <2>1, AccountedAside, OwnResult DEF D!Made
<1>2. CASE ~CleanupSource(j)
  <2>1. objects \subseteq objects'
    BY <1>2 DEF CreateJob, CrashUpload, PutSource, InsertJob, EnqueueParseJob,
                LoadEnqueueFailure, CommitEnqueueFailure, RefreshJob, RaisesWith
  <2>2. QED BY <2>1, AccountedAside
<1>3. QED BY <1>1, <1>2

LEMMA BackedByWorker ==
  ASSUME CommitsAcknowledged, DocumentInv, NEW f \in D!Origins, Kept(f), D!Accounted(f),
         Backed(f), removal' = removal,
         NEW w \in Workers, RunOnce(w) \/ CrashWorker(w) \/ RestartWorker(w),
         NEW g, g = IF document' = document THEN f ELSE Extended(f, w)
  PROVE  D!Accounted(g)' /\ Backed(g)'
<1>a. PICK d, j : d = worker[w].doc /\ j = worker[w].job
  OBVIOUS
<1> DEFINE Stored(h, v) ==
             /\ worker[v].pc \in Creating => Markdown(worker[v].doc) \in objects
             /\ worker[v].pc = "resultStored" => Json(worker[v].doc) \in objects
             /\ worker[v].pc \in StoringPcs =>
                  /\ worker[v].doc \in Docs /\ h[worker[v].doc] = NoJob
                  /\ worker[v].uploaded \subseteq ResultOf(worker[v].doc)
<1>0. /\ Typed /\ HolderInv /\ worker \in [Workers -> Worker]
      /\ document \in [Docs -> Jobs \cup {NoJob}] /\ f \in [Docs -> Jobs \cup {NoJob}]
      /\ NoJob \notin Jobs /\ NoDoc \notin Docs
  BY NullsDistinct DEF DocumentInv, HolderInv, Typed, TypeOK, D!Origins
<1>1. /\ upload' = upload
      /\ \A v \in Workers \ {w} : worker'[v] = worker[v]
      /\ \A k \in Jobs : AtLarge(k)' => AtLarge(k)
      /\ \A k : Source(k) \in objects' <=> Source(k) \in objects
  BY <1>0, WorkerElsewhere, WorkerObjects
<1>2. \A v \in Workers : Stored(f, v)
  BY DEF Backed, ResultBacked
<1>3. \A v \in Workers \ {w} : worker[v].pc \in StoringPcs \cup Creating =>
        worker[v].doc \in Docs /\ worker[v].doc # d
  <2>1. \A v \in Workers : worker[v].pc \in StoringPcs \cup Creating => worker[v].doc \in Docs
    BY <1>2 DEF StoringPcs, Creating
  <2>2. QED BY <1>0, <1>a, <2>1 DEF DocumentInv, IdsDrawnOnce
<1>4. \A e : Markdown(e) \in ResultOf(e) /\ Json(e) \in ResultOf(e)
  BY DEF ResultOf
<1>5. CASE document' = document /\ ~CleanResult(w)
  <2>1. g = f /\ objects \subseteq objects'
    BY <1>5 DEF RunOnce, DequeueParseJob, LoadStart, CommitStart, RefreshStarted,
       FetchSource, ParseSource, PutMarkdown, PutJson, InsertDocument, RefreshDocument,
       LoadComplete, CommitComplete, LoadFail, CommitFail, CrashWorker, RestartWorker,
       RaisesWith
  <2>2. D!Accounted(f)'
    BY <2>1, AccountedAside
  <2>3. SourceBacked(f)'
    BY <1>1 DEF Backed, SourceBacked
  <2>4. Stored(f, w)'
    <3>1. CASE PutMarkdown(w)
      <4>1. PICK e \in Docs \ issued :
              \/ /\ objects' = objects \cup {Markdown(e)} /\ worker'[w].pc = "markdownStored"
                 /\ worker'[w].doc = e /\ worker'[w].uploaded = {Markdown(e)}
              \/ worker'[w].pc = "failing"
        BY <1>0, <3>1 DEF PutMarkdown, FreshDoc, WorkerGo, FailingStep, Worker
      <4>2. f[e] = NoJob
        BY DEF Kept, Handed
      <4>3. QED BY <1>4, <4>1, <4>2 DEF StoringPcs, Creating
    <3>2. CASE PutJson(w)
      <4>1. worker[w].pc = "markdownStored" /\ worker'[w].doc = d
        BY <1>0, <1>a, <3>2 DEF PutJson, WorkerAt, WorkerGo, Worker
      <4>2. \/ /\ objects' = objects \cup {Json(d)} /\ worker'[w].pc = "resultStored"
               /\ worker'[w].uploaded = worker[w].uploaded \cup {Json(d)}
            \/ worker'[w].pc = "cleaning" /\ worker'[w].uploaded = worker[w].uploaded
        BY <1>0, <1>a, <3>2 DEF PutJson, WorkerGo, Recorded, Worker
      <4>3. QED BY <1>2, <1>4, <1>a, <2>1, <4>1, <4>2 DEF StoringPcs, Creating
    <3>3. CASE InsertDocument(w)
      <4>1. worker[w].pc = "resultStored" /\ worker'[w].doc = d /\ objects' = objects
            /\ worker'[w].pc \in {"inserted", "cleaning"}
            /\ worker'[w].uploaded = worker[w].uploaded
        BY <1>0, <1>a, <3>3 DEF InsertDocument, WorkerAt, WorkerGo, Worker
      <4>2. QED BY <1>2, <1>a, <4>1 DEF StoringPcs, Creating
    <3>4. CASE ~PutMarkdown(w) /\ ~PutJson(w) /\ ~InsertDocument(w)
      BY <1>0, <1>5, <3>4, OtherWorkerSteps DEF StoringPcs, Creating
    <3>5. QED BY <3>1, <3>2, <3>3, <3>4
  <2>5. ResultBacked(f)'
    <3>1. ASSUME NEW v \in Workers PROVE Stored(f, v)'
      <4>1. CASE v = w
        BY <2>4, <4>1
      <4>2. CASE v # w
        BY <1>1, <1>2, <2>1, <4>2
      <4>3. QED BY <4>1, <4>2
    <3>2. QED BY <3>1 DEF ResultBacked
  <2>6. QED BY <2>1, <2>2, <2>3, <2>5 DEF Backed
<1>6. CASE CleanResult(w)
  <2>1. worker[w].pc = "cleaning" /\ g = f
    BY <1>6 DEF CleanResult, WorkerAt
  <2>2. PICK key \in worker[w].uploaded :
          /\ objects \ {key} \subseteq objects'
          /\ worker'[w].doc = d /\ worker'[w].uploaded \subseteq worker[w].uploaded
          /\ worker'[w].pc \in {"cleaning", "failing"}
    BY <1>0, <1>a, <1>6 DEF CleanResult, Worker, WorkerAt, FailingStep
  <2>3. d \in Docs /\ f[d] = NoJob /\ key \in ResultOf(d)
    BY <1>2, <1>a, <2>1, <2>2 DEF StoringPcs
  <2>4. \A e : e # d => (\A k \in ResultOf(e) : k \in objects => k \in objects')
    BY <2>2, <2>3, KeysApart
  <2>5. D!Accounted(f)'
    <3>1. \A e \in D!Made(f) : e # d
      BY <2>3 DEF D!Made
    <3>2. \A e \in D!Made(f) : D!OwnKeys(f, e) \cap objects \subseteq objects'
      BY <1>1, <2>4, <3>1, OwnResult
    <3>3. QED BY <3>2, AccountedAside
  <2>6. SourceBacked(f)'
    BY <1>1 DEF Backed, SourceBacked
  <2>7. ResultBacked(f)'
    <3>1. ASSUME NEW v \in Workers PROVE Stored(f, v)'
      <4>1. CASE v = w
        BY <1>2, <1>a, <2>1, <2>2, <2>3, <4>1 DEF StoringPcs, Creating
      <4>2. CASE v # w
        BY <1>1, <1>2, <1>3, <1>4, <2>4, <4>2 DEF StoringPcs, Creating
      <4>3. QED BY <4>1, <4>2
    <3>2. QED BY <3>1 DEF ResultBacked
  <2>8. QED BY <2>1, <2>5, <2>6, <2>7 DEF Backed
<1>7. CASE document' # document
  <2>0. InsertDocument(w)
    BY <1>7, WorkerHands
  <2>1. /\ worker[w].pc = "resultStored" /\ objects' = objects
        /\ document' = [document EXCEPT ![d] = j] /\ worker'[w].pc = "inserted"
    BY <1>0, <1>a, <1>7, <2>0
    DEF InsertDocument, RaisesWith, CommitsAcknowledged, WorkerAt, WorkerGo, Worker
  <2>2. j \in Jobs /\ d \in Docs /\ f[d] = NoJob /\ ResultOf(d) \subseteq objects
    <3>1. j \in Jobs
      BY <1>0, <1>a, <2>1, JobInHand DEF Free
    <3>2. QED BY <1>2, <1>a, <2>1, <3>1 DEF StoringPcs, Creating, ResultOf
  <2>3. AtLarge(j) /\ \A e \in Docs : f[e] # j
    <3>1. AtLarge(j)
      BY <1>a DEF AtLarge
    <3>2. \A e \in Docs : f[e] # j
      BY <1>0, <1>a, <2>1, <2>2 DEF Kept, Handed, PastCreating, Linking
    <3>3. QED BY <3>1, <3>2
  <2>4. Source(j) \in objects
    BY <2>2, <2>3 DEF Backed, SourceBacked
  <2>5. \A e \in Docs : g[e] = IF e = d THEN j ELSE f[e]
    BY <1>0, <1>7, <1>a DEF Extended
  <2>6. D!Accounted(g)'
    <3>1. D!OwnKeys(g, d) \subseteq objects'
      BY <2>1, <2>2, <2>4, <2>5, OwnResult
    <3>2. \A e \in D!Made(g) \ {d} : e \in D!Made(f) /\ D!OwnKeys(g, e) = D!OwnKeys(f, e)
      <4>1. \A e \in D!Made(g) \ {d} : e \in D!Made(f) /\ g[e] = f[e]
        BY <2>5 DEF D!Made
      <4>2. \A e : g[e] = f[e] => D!OwnKeys(g, e) = D!OwnKeys(f, e)
        BY DEF D!OwnKeys
      <4>3. QED BY <4>1, <4>2
    <3>3. QED BY <2>1, <3>1, <3>2 DEF D!Accounted
  <2>7. SourceBacked(g)'
    <3>1. \A k \in Jobs : upload[k].pc = "cleanup" => k # j
      BY <2>3 DEF Backed, SourceBacked
    <3>2. \A k \in Jobs : (\A e \in Docs : g[e] # k) => (\A e \in Docs : f[e] # k)
      BY <1>0, <2>2, <2>5
    <3>3. \A k \in Jobs : k # j /\ (\A e \in Docs : f[e] # k) => (\A e \in Docs : g[e] # k)
      BY <2>5
    <3>4. QED BY <1>1, <3>1, <3>2, <3>3 DEF Backed, SourceBacked
  <2>8. ResultBacked(g)'
    <3>1. ASSUME NEW v \in Workers PROVE Stored(g, v)'
      <4>1. CASE v = w
        BY <2>1, <4>1 DEF StoringPcs, Creating
      <4>2. CASE v # w
        BY <1>1, <1>2, <1>3, <2>1, <2>5, <4>2
      <4>3. QED BY <4>1, <4>2
    <3>2. QED BY <3>1 DEF ResultBacked
  <2>9. QED BY <2>6, <2>7, <2>8 DEF Backed
<1>8. QED BY <1>5, <1>6, <1>7

LEMMA ReportedStart == AgentInit => ReportedInv
<1> SUFFICES ASSUME AgentInit PROVE ReportedInv
  OBVIOUS
<1>1. PICK f \in D!Origins : DocumentInv /\ Kept(f)
  BY AgentStart DEF AgentInv
<1>2. /\ \A j \in Jobs : upload[j].pc = "idle" /\ ~AtLarge(j)
      /\ \A w \in Workers : worker[w].pc = "idle"
      /\ issued = {}
  BY NullsDistinct DEF AgentInit, Init, FreshWorker, AtLarge, Queued
<1>3. Backed(f)
  BY <1>2 DEF Backed, SourceBacked, ResultBacked, Creating, StoringPcs
<1>4. D!Accounted(f)
  BY <1>1, <1>2 DEF Kept, Handed, D!Accounted, D!Made
<1>5. QED BY <1>1, <1>3, <1>4 DEF ReportedInv

LEMMA ReportedStep ==
  ASSUME StorageAcknowledges, CommitsAcknowledged
  PROVE  ReportedInv /\ [AgentNext]_agentVars => ReportedInv'
<1> SUFFICES ASSUME ReportedInv, [AgentNext]_agentVars PROVE ReportedInv'
  OBVIOUS
<1>1. PICK f \in D!Origins : DocumentInv /\ Kept(f) /\ D!Accounted(f) /\ Backed(f)
  BY DEF ReportedInv
<1>2. CASE RequestStep
  <2>1. DocumentInv' /\ Kept(f)' /\ Backed(f)'
    BY <1>1, <1>2, RequestKeeps, BackedByRequest
  <2>2. D!Accounted(f)'
    BY <1>1, <1>2, RequestRows, DAccountedStep DEF DocumentInv, HolderInv, Kept
  <2>3. QED BY <2>1, <2>2 DEF ReportedInv
<1>3. ASSUME NEW j \in Jobs, CreateJob(j) \/ CrashUpload(j), UNCHANGED <<removal, reading>>
      PROVE  ReportedInv'
  <2>1. DocumentInv'
    BY <1>1, <1>3, DocumentNext DEF Next
  <2>2. Kept(f)' /\ D!Accounted(f)' /\ Backed(f)'
    BY <1>1, <1>3, KeptByUpload, AccountedByUpload, BackedByUpload
  <2>3. QED BY <2>1, <2>2 DEF ReportedInv
<1>4. ASSUME NEW w \in Workers, RunOnce(w) \/ CrashWorker(w) \/ RestartWorker(w),
             UNCHANGED <<removal, reading>>
      PROVE  ReportedInv'
  <2>1. DocumentInv'
    BY <1>1, <1>4, DocumentNext DEF Next
  <2>2. PICK g : g = IF document' = document THEN f ELSE Extended(f, w)
    OBVIOUS
  <2>3. g \in D!Origins /\ Kept(g)'
    BY <1>1, <1>4, <2>2, KeptByWorker
  <2>4. D!Accounted(g)' /\ Backed(g)'
    BY <1>1, <1>4, <2>2, BackedByWorker
  <2>5. QED BY <2>1, <2>3, <2>4 DEF ReportedInv
<1>5. CASE UNCHANGED agentVars
  <2>1. DocumentInv'
    BY <1>1, <1>5, DocumentNext DEF agentVars, vars
  <2>2. D!Typed(f)'
    BY <1>1, <1>5, TypedAside DEF agentVars, vars, Kept, DocumentInv, HolderInv, Typed, TypeOK
  <2>3. Handed(f)'
    BY <1>1, <1>5 DEF agentVars, vars, Kept, Handed, Queued
  <2>4. D!Accounted(f)'
    BY <1>1, <1>5, AccountedAside DEF agentVars, vars
  <2>5. Backed(f)'
    BY <1>1, <1>5 DEF agentVars, vars, Backed, SourceBacked, ResultBacked, AtLarge, Queued
  <2>6. QED BY <2>1, <2>2, <2>3, <2>4, <2>5 DEF ReportedInv, Kept
<1>6. QED BY <1>2, <1>3, <1>4, <1>5 DEF AgentNext, PipelineStep, Next

(***************************************************************************)
(* Deletes beside uploads and workers: while a document's row is there, an *)
(* object of it is missing only beside a delete of it, after one that a    *)
(* crash cut off, or after one that said its rollback had failed.  No      *)
(* failed upload and no failed parse ever cleans up an object of a         *)
(* document.  Both assumptions are needed: a delete_object that raises     *)
(* after its effect is not put back, and a worker whose commit raises      *)
(* after its effect deletes the objects of the row it committed.           *)
(***************************************************************************)
THEOREM OnlyDeletesLoseObjects ==
  ASSUME StorageAcknowledges, CommitsAcknowledged
  PROVE  AgentSpec => []LossIsReported
<1>1. ReportedInv => LossIsReported
  <2>1. SUFFICES ASSUME ReportedInv PROVE LossIsReported
    OBVIOUS
  <2>2. PICK f \in D!Origins : D!Typed(f) /\ D!Accounted(f)
    BY <2>1 DEF ReportedInv, Kept
  <2>3. D!LossIsReported
    BY <2>2, D!AccountedIsReported, NullsDistinct, FaultClasses DEF Subsystems, D!Subsystems
  <2>4. QED
    BY <2>3 DEF LossIsReported, Requests!LossIsReported, D!LossIsReported,
       Requests!Missing, D!Missing, Requests!AtWork, D!AtWork, Requests!CutOff, D!CutOff,
       Requests!Source, D!Source, Requests!Markdown, D!Markdown, Requests!Json, D!Json
<1>2. QED BY ReportedStart, ReportedStep, <1>1, PTL DEF AgentSpec

=============================================================================
