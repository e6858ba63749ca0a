-------------------------- MODULE ParseJobs_proofs --------------------------
(***************************************************************************)
(* Proofs about ParseJobs, for any sets of jobs, document ids and workers, *)
(* and any fault classes unless a theorem assumes some away.               *)
(***************************************************************************)
EXTENDS ParseJobs, TLAPS

-----------------------------------------------------------------------------
(***************************************************************************)
(* Types                                                                   *)
(***************************************************************************)
(* Which control points come with a job and with a document id in hand.    *)
Free   == {"idle", "down"}
HasDoc == {"markdownStored", "resultStored", "inserted", "completing", "completeCommit"}

WorkerShape ==
  \A w \in Workers : /\ worker[w].pc \in Free <=> worker[w].job = NoJob
                     /\ worker[w].pc \in Free => worker[w] = FreshWorker(worker[w].pc)
                     /\ worker[w].pc \in HasDoc => worker[w].doc \in Docs

Typed == TypeOK /\ WorkerShape

LEMMA RowTypes ==
  /\ NoRow \in Row /\ QueuedRow \in Row
  /\ \A r \in Row : StartedRow(r) \in Row /\ FailedRow(r) \in Row /\ EnqueueFailedRow(r) \in Row
  /\ \A r \in Row, d \in Docs : CompletedRow(r, d) \in Row
BY DEF NoRow, QueuedRow, Row, StartedRow, FailedRow, EnqueueFailedRow, CompletedRow,
       Statuses, Errors

LEMMA FlushType ==
  ASSUME NEW now \in Row, NEW seen \in Row, NEW new \in Row
  PROVE  Flush(now, seen, new) \in Row
BY DEF Flush, Row

LEMMA KeyTypes ==
  /\ \A j \in Jobs : Source(j) \in Keys
  /\ \A d \in Docs : {Markdown(d), Json(d)} \subseteq ResultKeys
  /\ ResultKeys \subseteq Keys
BY DEF Source, Markdown, Json, Keys, ResultKeys

LEMMA FreshWorkerType ==
  FreshWorker("idle") \in Worker /\ FreshWorker("down") \in Worker
BY RowTypes DEF FreshWorker, Worker, WorkerPcs

LEMMA UploadType ==
  \A pc \in UploadPcs, r \in Row : [pc |-> pc, seen |-> r] \in Upload
BY DEF Upload

LEMMA TypeInit == Init => Typed
<1> SUFFICES ASSUME Init PROVE Typed
  OBVIOUS
<1>1. TypeOK
  BY RowTypes, FreshWorkerType DEF Init, TypeOK, Upload, UploadPcs
<1>2. FreshWorker("idle").pc = "idle" /\ FreshWorker("idle").job = NoJob
  BY DEF FreshWorker
<1>3. WorkerShape
  BY <1>2 DEF Init, WorkerShape, Free, HasDoc
<1>4. QED BY <1>1, <1>3 DEF Typed

LEMMA TypedUpload ==
  ASSUME Typed, NEW j \in Jobs, CreateJob(j) \/ CrashUpload(j)
  PROVE  Typed'
<1>a. worker' = worker
  BY DEF CreateJob, CrashUpload, PutSource, InsertJob, EnqueueParseJob, CleanupSource,
         LoadEnqueueFailure, CommitEnqueueFailure, RefreshJob
<1>b. SUFFICES TypeOK'
  BY <1>a DEF Typed, WorkerShape
<1>c. TypeOK BY DEF Typed
<1> USE <1>c DEF TypeOK
<1>1. CASE PutSource(j)
  BY <1>1, KeyTypes DEF PutSource, RaisesWith, UploadAt, UploadGo, Upload, UploadPcs
<1>2. CASE InsertJob(j)
  BY ZenonT(60), <1>2, RowTypes DEF InsertJob, RaisesWith, UploadAt, UploadGo, Upload, UploadPcs
<1>3. CASE EnqueueParseJob(j)
  <2>1. queue' \in Seq(Jobs)
    <3>1. Append(queue, j) \in Seq(Jobs) OBVIOUS
    <3>2. QED BY <1>3, <3>1 DEF EnqueueParseJob, RaisesWith, Pushed, AfterRefusal
  <2>2. upload' \in [Jobs -> Upload]
    BY <1>3 DEF EnqueueParseJob, UploadGo, Upload, UploadPcs, AfterEnqueueFailure
  <2>3. QED BY <1>3, <2>1, <2>2 DEF EnqueueParseJob
<1>4. CASE CleanupSource(j)
  BY <1>4 DEF CleanupSource, UploadAt, UploadGo, Upload, UploadPcs, Answered, Leak
<1>5. CASE LoadEnqueueFailure(j)
  <2>1. /\ [pc |-> "rejected", seen |-> NoRow] \in Upload
        /\ [pc |-> "markCommit", seen |-> jobRow[j]] \in Upload
    BY RowTypes, UploadType DEF UploadPcs, Answered
  <2>2. CASE UploadGo(j, "errored")
    BY <1>5, <2>2 DEF LoadEnqueueFailure, UploadGo, Upload, UploadPcs, Answered
  <2>3. CASE ~UploadGo(j, "errored")
    BY <1>5, <2>1, <2>3 DEF LoadEnqueueFailure
  <2>4. QED BY <2>2, <2>3
<1>6. CASE CommitEnqueueFailure(j)
  <2> DEFINE seen   == upload[j].seen
             marked == [jobRow EXCEPT ![j] = Flush(@, seen, EnqueueFailedRow(seen))]
  <2>1. marked \in [Jobs -> Row]
    BY RowTypes, FlushType DEF Upload
  <2>2. jobRow' \in [Jobs -> Row]
    BY <1>6, <2>1 DEF CommitEnqueueFailure, RaisesWith
  <2>3. upload' \in [Jobs -> Upload]
    <3>1. /\ [pc |-> "rejected", seen |-> NoRow] \in Upload
          /\ [pc |-> "errored", seen |-> NoRow] \in Upload
      BY RowTypes, UploadType DEF UploadPcs, Answered
    <3>2. QED BY <1>6, <3>1 DEF CommitEnqueueFailure
  <2>4. QED BY <1>6, <2>2, <2>3 DEF CommitEnqueueFailure
<1>7. CASE RefreshJob(j)
  BY <1>7 DEF RefreshJob, UploadAt, UploadGo, Upload, UploadPcs, Answered
<1>8. CASE CrashUpload(j)
  BY <1>8, RowTypes DEF CrashUpload, Upload, UploadPcs, Answered, Leak
<1>9. QED
  BY <1>1, <1>2, <1>3, <1>4, <1>5, <1>6, <1>7, <1>8 DEF CreateJob

(***************************************************************************)
(* The steps of a worker.  Ends(w) covers Finish and Die.                  *)
(***************************************************************************)
Ends(w) == Finish(w) \/ Die(w)

LEMMA TypedEnds ==
  ASSUME Typed, NEW w \in Workers, Ends(w)
  PROVE  /\ worker' \in [Workers -> Worker]
         /\ WorkerShape'
<1>1. worker' \in [Workers -> Worker]
  BY FreshWorkerType DEF Typed, TypeOK, Ends, Finish, Die
<1>2. PICK pc \in Free : worker' = [worker EXCEPT ![w] = FreshWorker(pc)]
  BY DEF Ends, Finish, Die, Free
<1>3. WorkerShape'
  BY <1>2 DEF Typed, TypeOK, WorkerShape, FreshWorker, Free, HasDoc
<1>4. QED BY <1>1, <1>3

(* a step that moves w on with its job, and possibly a document id *)
LEMMA TypedMove ==
  ASSUME Typed, NEW w \in Workers, NEW r \in Worker,
         worker' = [worker EXCEPT ![w] = r],
         r.pc \notin Free, r.job # NoJob, r.pc \in HasDoc => r.doc \in Docs
  PROVE  /\ worker' \in [Workers -> Worker]
         /\ WorkerShape'
BY DEF Typed, TypeOK, WorkerShape

LEMMA JobInHand ==
  ASSUME Typed, NEW w \in Workers, worker[w].pc \notin Free
  PROVE  worker[w].job \in Jobs /\ jobRow[worker[w].job] \in Row
BY DEF Typed, TypeOK, WorkerShape, Worker

(* the three shapes of a step that keeps job and document id *)
LEMMA TypedGo ==
  ASSUME Typed, NEW w \in Workers, worker[w].pc \notin Free,
         NEW pc \in WorkerPcs \ Free, pc \in HasDoc => worker[w].pc \in HasDoc,
         WorkerGo(w, pc)
  PROVE  worker' \in [Workers -> Worker] /\ WorkerShape'
<1> DEFINE r == [worker[w] EXCEPT !.pc = pc]
<1>1. r \in Worker /\ r.pc = pc /\ r.job = worker[w].job /\ r.doc = worker[w].doc
  BY DEF Typed, TypeOK, Worker
<1>2. worker' = [worker EXCEPT ![w] = r]
  BY DEF WorkerGo
<1> HIDE DEF r
<1>3. QED BY <1>1, <1>2, TypedMove DEF Typed, WorkerShape

LEMMA TypedSeen ==
  ASSUME Typed, NEW w \in Workers, worker[w].pc \notin Free,
         NEW pc \in WorkerPcs \ Free, pc \in HasDoc => worker[w].pc \in HasDoc,
         NEW seen \in Row,
         worker' = [worker EXCEPT ![w].pc = pc, ![w].seen = seen]
  PROVE  worker' \in [Workers -> Worker] /\ WorkerShape'
<1> DEFINE r == [worker[w] EXCEPT !.pc = pc, !.seen = seen]
<1>1. r \in Worker /\ r.pc = pc /\ r.job = worker[w].job /\ r.doc = worker[w].doc
  BY DEF Typed, TypeOK, Worker
<1>2. worker' = [worker EXCEPT ![w] = r]
  OBVIOUS
<1> HIDE DEF r
<1>3. QED BY <1>1, <1>2, TypedMove DEF Typed, WorkerShape

LEMMA TypedUploaded ==
  ASSUME Typed, NEW w \in Workers, worker[w].pc \notin Free,
         NEW pc \in WorkerPcs \ Free, pc \in HasDoc => worker[w].pc \in HasDoc,
         NEW keys \in SUBSET ResultKeys,
         worker' = [worker EXCEPT ![w].pc = pc, ![w].uploaded = keys]
  PROVE  worker' \in [Workers -> Worker] /\ WorkerShape'
<1> DEFINE r == [worker[w] EXCEPT !.pc = pc, !.uploaded = keys]
<1>1. r \in Worker /\ r.pc = pc /\ r.job = worker[w].job /\ r.doc = worker[w].doc
  BY DEF Typed, TypeOK, Worker
<1>2. worker' = [worker EXCEPT ![w] = r]
  OBVIOUS
<1> HIDE DEF r
<1>3. QED BY ZenonT(60), <1>1, <1>2, TypedMove DEF Typed, WorkerShape

LEMMA TypedWorker ==
  ASSUME Typed, NEW w \in Workers, RunOnce(w) \/ CrashWorker(w) \/ RestartWorker(w)
  PROVE  /\ worker' \in [Workers -> Worker]
         /\ WorkerShape'
<1>0. TypeOK BY DEF Typed
<1> USE <1>0 DEF TypeOK
<1> DEFINE Moved(r) == worker' = [worker EXCEPT ![w] = r]
<1>a. CASE Ends(w)
  BY <1>a, TypedEnds
<1>1. CASE DequeueParseJob(w) /\ ~Ends(w)
  <2>1. CASE UNCHANGED worker
    BY <2>1 DEF Typed, WorkerShape
  <2>2. CASE /\ queue # <<>>
             /\ worker' = [worker EXCEPT ![w].pc = "starting", ![w].job = Head(queue)]
    <3>1. Head(queue) \in Jobs
      BY <2>2
    <3> DEFINE r == [worker[w] EXCEPT !.pc = "starting", !.job = Head(queue)]
    <3>2. r \in Worker /\ r.pc = "starting" /\ r.job # NoJob
      BY <3>1, NullsDistinct DEF Worker, WorkerPcs
    <3>3. Moved(r)
      BY <2>2
    <3> HIDE DEF r
    <3>4. QED BY <3>2, <3>3, TypedMove DEF Free, HasDoc
  <2>3. QED BY <1>1, <2>1, <2>2 DEF DequeueParseJob, Ends
<1>2. CASE PutMarkdown(w) /\ ~Ends(w)
  <2>1. CASE WorkerGo(w, FailingStep)
    <3> DEFINE r == [worker[w] EXCEPT !.pc = "failing"]
    <3>1. r \in Worker /\ r.pc = "failing" /\ r.job # NoJob
      BY <1>2 DEF PutMarkdown, WorkerAt, Worker, WorkerPcs, Typed, WorkerShape, Free
    <3>2. Moved(r)
      BY <2>1 DEF WorkerGo, FailingStep
    <3> HIDE DEF r
    <3>3. QED BY <3>1, <3>2, TypedMove DEF Free, HasDoc
  <2>2. CASE ~WorkerGo(w, FailingStep)
    <3>1. PICK d \in Docs :
            worker' = [worker EXCEPT ![w].pc = "markdownStored", ![w].doc = d,
                                     ![w].uploaded = {Markdown(d)}]
      BY <1>2, <2>2 DEF PutMarkdown, FreshDoc
    <3> DEFINE r == [worker[w] EXCEPT !.pc = "markdownStored", !.doc = d,
                                      !.uploaded = {Markdown(d)}]
    <3>2. r \in Worker /\ r.pc = "markdownStored" /\ r.job # NoJob /\ r.doc \in Docs
      BY <1>2, KeyTypes
      DEF PutMarkdown, WorkerAt, Worker, WorkerPcs, Typed, WorkerShape, Free
    <3>3. Moved(r)
      BY <3>1
    <3> HIDE DEF r
    <3>4. QED BY <3>2, <3>3, TypedMove DEF Free, HasDoc
  <2>3. QED BY <2>1, <2>2
<1>3. CASE LoadStart(w) /\ ~Ends(w)
  <2>1. worker[w].pc = "starting"
    BY <1>3 DEF LoadStart, WorkerAt
  <2>2. jobRow[worker[w].job] \in Row
    BY <2>1, JobInHand DEF Free
  <2>3. worker' = [worker EXCEPT ![w].pc = "startCommit",
                                     ![w].seen = jobRow[worker[w].job]]
    BY <1>3 DEF LoadStart, Ends
  <2>4. QED BY <2>1, <2>2, <2>3, TypedSeen DEF WorkerPcs, Free, HasDoc
<1>4. CASE CommitStart(w) /\ ~Ends(w)
  BY <1>4, TypedSeen, RowTypes
  DEF CommitStart, Ends, WorkerAt, WorkerPcs, Free, HasDoc, FailingStep
<1>5. CASE RefreshStarted(w) /\ ~Ends(w)
  BY <1>5, TypedGo
  DEF RefreshStarted, Ends, WorkerAt, WorkerPcs, Free, HasDoc, FailingStep
<1>6. CASE FetchSource(w) /\ ~Ends(w)
  BY <1>6, TypedGo
  DEF FetchSource, Ends, WorkerAt, WorkerPcs, Free, HasDoc, FailingStep
<1>7. CASE ParseSource(w) /\ ~Ends(w)
  BY <1>7, TypedGo
  DEF ParseSource, Ends, WorkerAt, WorkerPcs, Free, HasDoc, FailingStep
<1>8. CASE PutJson(w) /\ ~Ends(w)
  <2> DEFINE keys == worker[w].uploaded \cup {Json(worker[w].doc)}
  <2>1. worker[w].pc = "markdownStored" /\ worker[w].doc \in Docs
    BY <1>8 DEF PutJson, WorkerAt, Typed, WorkerShape, HasDoc
  <2>2. keys \in SUBSET ResultKeys
    BY <2>1, KeyTypes DEF Worker
  <2>3. CASE WorkerGo(w, FailingStep) \/ WorkerGo(w, "cleaning")
    BY <2>1, <2>3, TypedGo DEF WorkerPcs, Free, HasDoc, FailingStep
  <2>4. CASE worker' = [worker EXCEPT ![w].pc = "resultStored", ![w].uploaded = keys]
    <3> HIDE DEF keys
    <3>1. QED BY <2>1, <2>2, <2>4, TypedUploaded DEF WorkerPcs, Free, HasDoc
  <2>5. QED BY <1>8, <2>3, <2>4 DEF PutJson, Recorded
<1>9. CASE InsertDocument(w) /\ ~Ends(w)
  BY <1>9, TypedGo
  DEF InsertDocument, Ends, WorkerAt, WorkerPcs, Free, HasDoc, FailingStep
<1>10. CASE CleanResult(w) /\ ~Ends(w)
  <2>1. PICK key \in worker[w].uploaded, pc \in {"cleaning", "failing"} :
          worker' = [worker EXCEPT ![w].uploaded = worker[w].uploaded \ {key}, ![w].pc = pc]
    BY <1>10 DEF CleanResult, WorkerAt, FailingStep
  <2> DEFINE keys == worker[w].uploaded \ {key}
  <2>2. keys \in SUBSET ResultKeys
    BY DEF Worker
  <2>3. worker' = [worker EXCEPT ![w].pc = pc, ![w].uploaded = keys]
    BY <2>1 DEF Worker
  <2> HIDE DEF keys
  <2>4. worker[w].pc = "cleaning"
    BY <1>10 DEF CleanResult, WorkerAt
  <2>5. QED BY <2>2, <2>3, <2>4, TypedUploaded DEF WorkerPcs, Free, HasDoc
<1>11. CASE RefreshDocument(w) /\ ~Ends(w)
  BY <1>11, TypedGo
  DEF RefreshDocument, Ends, WorkerAt, WorkerPcs, Free, HasDoc, FailingStep
<1>12. CASE LoadComplete(w) /\ ~Ends(w)
  <2>1. worker[w].pc = "completing"
    BY <1>12 DEF LoadComplete, WorkerAt
  <2>2. jobRow[worker[w].job] \in Row
    BY <2>1, JobInHand DEF Free
  <2>3. CASE WorkerGo(w, "failing")
    BY <2>1, <2>3, TypedGo DEF WorkerPcs, Free, HasDoc
  <2>4. CASE worker' = [worker EXCEPT ![w].pc = "completeCommit",
                                     ![w].seen = jobRow[worker[w].job]]
    BY <2>1, <2>2, <2>4, TypedSeen DEF WorkerPcs, Free, HasDoc
  <2>5. QED BY <1>12, <2>3, <2>4 DEF LoadComplete, FailingStep
<1>13. CASE CommitComplete(w) /\ ~Ends(w)
  BY <1>13, TypedSeen, RowTypes
  DEF CommitComplete, Ends, WorkerAt, WorkerPcs, Free, HasDoc, FailingStep
<1>14. CASE LoadFail(w) /\ ~Ends(w)
  <2>1. worker[w].pc = "failing"
    BY <1>14 DEF LoadFail, WorkerAt
  <2>2. jobRow[worker[w].job] \in Row
    BY <2>1, JobInHand DEF Free
  <2>3. worker' = [worker EXCEPT ![w].pc = "failCommit",
                                     ![w].seen = jobRow[worker[w].job]]
    BY <1>14 DEF LoadFail, Ends
  <2>4. QED BY <2>1, <2>2, <2>3, TypedSeen DEF WorkerPcs, Free, HasDoc
<1>15. CASE CommitFail(w) /\ ~Ends(w)
  BY <1>15 DEF CommitFail, Ends
<1>16. QED
  BY <1>a, <1>1, <1>2, <1>3, <1>4, <1>5, <1>6, <1>7, <1>8, <1>9, <1>10, <1>11, <1>12, <1>13, <1>14, <1>15
  DEF RunOnce, CrashWorker, RestartWorker, Ends

(* what a worker's step leaves in the queue, the tables and the storage *)
LEMMA TypedStores ==
  ASSUME Typed, NEW w \in Workers, RunOnce(w) \/ CrashWorker(w) \/ RestartWorker(w)
  PROVE  /\ upload' = upload
         /\ queue' \in Seq(Jobs)
         /\ jobRow' \in [Jobs -> Row]
         /\ document' \in [Docs -> Jobs \cup {NoJob}]
         /\ issued' \subseteq Docs
         /\ objects' \subseteq Keys
         /\ leaked' \subseteq Keys
<1>0. TypeOK BY DEF Typed
<1> USE <1>0 DEF TypeOK
<1>1. CASE DequeueParseJob(w)
  <2>1. queue # <<>> => Tail(queue) \in Seq(Jobs)
    OBVIOUS
  <2>2. QED BY <1>1, <2>1 DEF DequeueParseJob, Popped
<1>2. CASE CommitStart(w)
  <2>1. /\ worker[w].job \in Jobs /\ jobRow[worker[w].job] \in Row
        /\ worker[w].seen \in Row /\ StartedRow(worker[w].seen) \in Row
    BY <1>2, JobInHand, RowTypes DEF CommitStart, WorkerAt, Free, Worker
  <2>2. Flush(jobRow[worker[w].job], worker[w].seen, StartedRow(worker[w].seen)) \in Row
    BY <2>1, FlushType
  <2>3. QED BY <1>2, <2>1, <2>2 DEF CommitStart, RaisesWith
<1>3. CASE CommitComplete(w)
  <2>1. /\ worker[w].job \in Jobs /\ jobRow[worker[w].job] \in Row /\ worker[w].doc \in Docs
        /\ worker[w].seen \in Row /\ CompletedRow(worker[w].seen, worker[w].doc) \in Row
    BY <1>3, JobInHand, RowTypes
    DEF CommitComplete, WorkerAt, Free, HasDoc, Worker, Typed, WorkerShape
  <2>2. Flush(jobRow[worker[w].job], worker[w].seen,
              CompletedRow(worker[w].seen, worker[w].doc)) \in Row
    BY <2>1, FlushType
  <2>3. QED BY <1>3, <2>1, <2>2 DEF CommitComplete, RaisesWith
<1>4. CASE CommitFail(w)
  <2>1. /\ worker[w].job \in Jobs /\ jobRow[worker[w].job] \in Row
        /\ worker[w].seen \in Row /\ FailedRow(worker[w].seen) \in Row
    BY <1>4, JobInHand, RowTypes DEF CommitFail, WorkerAt, Free, Worker
  <2>2. Flush(jobRow[worker[w].job], worker[w].seen, FailedRow(worker[w].seen)) \in Row
    BY <2>1, FlushType
  <2>3. QED BY <1>4, <2>1, <2>2 DEF CommitFail, RaisesWith
<1>5. CASE PutMarkdown(w)
  BY <1>5, KeyTypes DEF PutMarkdown, RaisesWith, FreshDoc, Leak
<1>6. CASE PutJson(w)
  <2>1. Json(worker[w].doc) \in Keys
    BY <1>6, KeyTypes DEF PutJson, WorkerAt, Typed, WorkerShape, HasDoc
  <2>2. QED BY <1>6, <2>1 DEF PutJson, RaisesWith, Leak
<1>7. CASE InsertDocument(w)
  BY <1>7 DEF InsertDocument, RaisesWith, Worker
<1>8. CASE CleanResult(w)
  BY <1>8 DEF CleanResult, Leak
<1>9. CASE CrashWorker(w)
  BY <1>9 DEF CrashWorker, Leak
<1>10. CASE UNCHANGED <<upload, queue, jobRow, document, issued, objects, leaked>>
  BY <1>10
<1>11. QED
  BY <1>1, <1>2, <1>3, <1>4, <1>5, <1>6, <1>7, <1>8, <1>9, <1>10
  DEF RunOnce, LoadStart, RefreshStarted, FetchSource, ParseSource, RefreshDocument,
      LoadComplete, LoadFail, RestartWorker

LEMMA TypedNext == Typed /\ [Next]_vars => Typed'
<1> SUFFICES ASSUME Typed, [Next]_vars PROVE Typed'
  OBVIOUS
<1>1. ASSUME NEW j \in Jobs, CreateJob(j) \/ CrashUpload(j) PROVE Typed'
  BY <1>1, TypedUpload
<1>2. ASSUME NEW w \in Workers, RunOnce(w) \/ CrashWorker(w) \/ RestartWorker(w)
      PROVE  Typed'
  BY <1>2, TypedWorker, TypedStores DEF Typed, TypeOK
<1>3. CASE UNCHANGED vars
  BY <1>3 DEF vars, Typed, TypeOK, WorkerShape
<1>4. QED BY <1>1, <1>2, <1>3 DEF Next

(***************************************************************************)
(* Every variable keeps its type, and a worker holds a job exactly while   *)
(* it is inside run_once, a document id while it is creating or linking    *)
(* one.                                                                    *)
(***************************************************************************)
THEOREM TypesPreserved == Spec => []Typed
<1>1. QED BY TypeInit, TypedNext, PTL DEF Spec

(***************************************************************************)
(* The type invariant of the pipeline, under every fault class.            *)
(***************************************************************************)
THEOREM TypeCorrect == Spec => []TypeOK
<1>1. Typed => TypeOK BY DEF Typed
<1>2. QED BY <1>1, TypesPreserved, PTL

-----------------------------------------------------------------------------
(***************************************************************************)
(* One holder.  A job that its request has not pushed yet is nowhere else: *)
(* this is what makes the push keep SingleHolder.                          *)
(***************************************************************************)
NotYetPushed == {"idle", "stored", "persisted"}

Queued(j) == \E i \in DOMAIN queue : queue[i] = j

PushedOnce == \A j \in Jobs : upload[j].pc \in NotYetPushed =>
                 ~Queued(j) /\ \A w \in Workers : worker[w].job # j

HolderInv == Typed /\ SingleHolder /\ PushedOnce

(***************************************************************************)
(* One document.  Ids are drawn once; a worker creates a document only for *)
(* a job that has none; a job that has one is past the point of creating.  *)
(* Nothing here says that a row stays: DocumentAgent, whose requests       *)
(* delete rows at any time, has the same invariant.                        *)
(***************************************************************************)
Creating == {"markdownStored", "resultStored"}
Linking  == {"inserted", "completing", "completeCommit"}
PastCreating == Linking \cup {"cleaning", "failing", "failCommit"}

IdsDrawnOnce ==
  /\ \A d \in Docs : document[d] # NoJob => d \in issued
  /\ \A w \in Workers : worker[w].doc # NoDoc => worker[w].doc \in issued
  /\ \A v, w \in Workers : worker[v].doc = worker[w].doc /\ worker[v].doc # NoDoc => v = w

DocumentInHand ==
  \A w \in Workers :
    /\ worker[w].pc \in Creating => document[worker[w].doc] = NoJob
    /\ worker[w].pc \in Linking =>
         /\ document[worker[w].doc] \in {worker[w].job, NoJob}
         /\ \A d \in Docs : document[d] = worker[w].job => d = worker[w].doc

CreatedOnce ==
  \A d \in Docs : document[d] # NoJob =>
    /\ ~Queued(document[d])
    /\ upload[document[d]].pc \notin NotYetPushed
    /\ \A w \in Workers : worker[w].job = document[d] => worker[w].pc \in PastCreating

DocumentInv == /\ HolderInv /\ IdsDrawnOnce /\ DocumentInHand /\ CreatedOnce
               /\ OneDocumentPerJob /\ LinkedToOwnDocument

(***************************************************************************)
(* What most worker steps have in common: nothing moves in the queue or in *)
(* documents, and w either lets go of its job and document id or keeps     *)
(* both and does not step back to creating or linking.                     *)
(***************************************************************************)
Quiet(w) ==
  /\ UNCHANGED <<upload, queue, document, issued>>
  /\ \A v \in Workers \ {w} : worker'[v] = worker[v]
  /\ \/ worker'[w].job = NoJob /\ worker'[w].doc = NoDoc /\ worker'[w].pc \in Free
     \/ /\ worker'[w].job = worker[w].job /\ worker'[w].doc = worker[w].doc
        /\ worker[w].pc \in PastCreating => worker'[w].pc \in PastCreating
        /\ worker'[w].pc \in Creating => worker[w].pc \in Creating
        /\ worker'[w].pc \in Linking => worker[w].pc \in Linking

LEMMA EndsQuietly ==
  ASSUME Typed, NEW w \in Workers, Ends(w), UNCHANGED <<upload, queue, document, issued>>
  PROVE  Quiet(w)
<1>1. PICK pc \in Free : worker' = [worker EXCEPT ![w] = FreshWorker(pc)]
  BY DEF Ends, Finish, Die, Free
<1>2. QED BY <1>1 DEF Quiet, Typed, TypeOK, FreshWorker

LEMMA QuietSteps ==
  ASSUME Typed, NEW w \in Workers,
         \/ LoadStart(w) \/ CommitStart(w) \/ RefreshStarted(w) \/ FetchSource(w)
         \/ ParseSource(w) \/ PutJson(w) \/ CleanResult(w) \/ RefreshDocument(w)
         \/ LoadComplete(w) \/ CommitComplete(w) \/ LoadFail(w) \/ CommitFail(w)
         \/ CrashWorker(w) \/ RestartWorker(w)
  PROVE  Quiet(w)
<1>0. worker \in [Workers -> Worker]
  BY DEF Typed, TypeOK
<1>a. UNCHANGED <<upload, queue, document, issued>>
  BY DEF LoadStart, CommitStart, RefreshStarted, FetchSource, ParseSource, PutJson,
         CleanResult, RefreshDocument, LoadComplete, CommitComplete, LoadFail, CommitFail,
         CrashWorker, RestartWorker
<1>b. CASE Ends(w)
  BY <1>a, <1>b, EndsQuietly
<1> USE <1>0, <1>a DEF Quiet, WorkerAt, WorkerGo, FailingStep, Ends, Worker, Free, Creating,
                       Linking, PastCreating
<1>1. CASE LoadStart(w) /\ ~Ends(w)
  BY <1>1 DEF LoadStart
<1>2. CASE CommitStart(w) /\ ~Ends(w)
  BY <1>2 DEF CommitStart
<1>3. CASE (RefreshStarted(w) \/ FetchSource(w) \/ ParseSource(w)) /\ ~Ends(w)
  <2>1. CASE RefreshStarted(w)
    BY <1>3, <2>1 DEF RefreshStarted
  <2>2. CASE FetchSource(w)
    BY <2>2 DEF FetchSource
  <2>3. CASE ParseSource(w)
    BY <2>3 DEF ParseSource
  <2>4. QED BY <1>3, <2>1, <2>2, <2>3
<1>4. CASE PutJson(w)
  BY <1>4 DEF PutJson
<1>5. CASE CleanResult(w)
  <2>1. worker[w].pc = "cleaning"
    BY <1>5 DEF CleanResult
  <2>2. PICK key \in worker[w].uploaded, pc \in {"cleaning", "failing"} :
          worker' = [worker EXCEPT ![w].uploaded = worker[w].uploaded \ {key}, ![w].pc = pc]
    BY <1>5 DEF CleanResult
  <2>3. QED BY <2>1, <2>2
<1>6. CASE RefreshDocument(w)
  BY <1>6 DEF RefreshDocument
<1>7. CASE LoadComplete(w)
  BY <1>7 DEF LoadComplete
<1>8. CASE CommitComplete(w) /\ ~Ends(w)
  BY <1>8 DEF CommitComplete
<1>9. CASE (LoadFail(w) \/ CommitFail(w)) /\ ~Ends(w)
  BY <1>9 DEF LoadFail, CommitFail
<1>10. QED
  BY <1>b, <1>1, <1>2, <1>3, <1>4, <1>5, <1>6, <1>7, <1>8, <1>9 DEF CrashWorker, RestartWorker

-----------------------------------------------------------------------------
(***************************************************************************)
(* HolderInv is inductive                                                  *)
(***************************************************************************)
LEMMA HolderInit == Init => SingleHolder /\ PushedOnce
<1> SUFFICES ASSUME Init PROVE SingleHolder /\ PushedOnce
  OBVIOUS
<1>1. NoJob \notin Jobs /\ queue = <<>> /\ DOMAIN queue = {}
  BY NullsDistinct DEF Init
<1>2. \A w \in Workers : worker[w].job = NoJob
  BY DEF Init, FreshWorker
<1>3. SingleHolder
  BY <1>1, <1>2 DEF SingleHolder
<1>4. PushedOnce
  BY <1>1, <1>2 DEF PushedOnce, Queued
<1>5. QED BY <1>3, <1>4

LEMMA HolderUpload ==
  ASSUME HolderInv, NEW j \in Jobs, CreateJob(j) \/ CrashUpload(j)
  PROVE  SingleHolder' /\ PushedOnce'
<1>0. /\ worker' = worker /\ upload \in [Jobs -> Upload] /\ queue \in Seq(Jobs)
      /\ worker \in [Workers -> Worker]
  BY DEF CreateJob, CrashUpload, PutSource, InsertJob, EnqueueParseJob, CleanupSource,
         LoadEnqueueFailure, CommitEnqueueFailure, RefreshJob, HolderInv, Typed, TypeOK
<1>1. CASE EnqueueParseJob(j)
  <2>1. /\ upload[j].pc = "persisted" /\ queue' \in {queue, Append(queue, j)}
        /\ \A k \in Jobs : upload'[k].pc \in NotYetPushed =>
             k # j /\ upload[k].pc \in NotYetPushed
    BY <1>0, <1>1
    DEF EnqueueParseJob, UploadAt, UploadGo, Upload, RaisesWith, Pushed, AfterRefusal,
        AfterEnqueueFailure, NotYetPushed
  <2>2. ~Queued(j) /\ \A w \in Workers : worker[w].job # j
    BY <2>1 DEF HolderInv, PushedOnce, NotYetPushed
  <2>3. CASE queue' = queue
    BY <1>0, <2>1, <2>3 DEF HolderInv, SingleHolder, PushedOnce, Queued
  <2>4. CASE queue' = Append(queue, j)
    <3>1. /\ DOMAIN queue' = 1..Len(queue) + 1 /\ DOMAIN queue = 1..Len(queue)
          /\ Len(queue) \in Nat
          /\ \A i \in 1..Len(queue) : queue'[i] = queue[i]
          /\ queue'[Len(queue) + 1] = j
      BY <1>0, <2>4
    <3>2. \A i \in DOMAIN queue' : i \in DOMAIN queue \/ i = Len(queue) + 1
      BY <3>1
    <3>3. SingleHolder'
      BY <1>0, <2>2, <3>1, <3>2 DEF HolderInv, SingleHolder, Queued
    <3>4. PushedOnce'
      BY <1>0, <2>1, <3>1, <3>2 DEF HolderInv, PushedOnce, Queued
    <3>5. QED BY <3>3, <3>4
  <2>5. QED BY <2>1, <2>3, <2>4
<1>2. CASE ~EnqueueParseJob(j)
  <2>1. queue' = queue
    BY <1>2 DEF CreateJob, CrashUpload, PutSource, InsertJob, CleanupSource,
                LoadEnqueueFailure, CommitEnqueueFailure, RefreshJob
  <2>2. \A k \in Jobs : upload'[k].pc \in NotYetPushed => upload[k].pc \in NotYetPushed
    BY <1>0, <1>2
    DEF CreateJob, CrashUpload, PutSource, InsertJob, CleanupSource, LoadEnqueueFailure,
        CommitEnqueueFailure, RefreshJob, UploadAt, UploadGo, Upload, NotYetPushed
  <2>3. QED BY <1>0, <2>1, <2>2 DEF HolderInv, SingleHolder, PushedOnce, Queued
<1>3. QED BY <1>1, <1>2

LEMMA HolderWorker ==
  ASSUME HolderInv, NEW w \in Workers, RunOnce(w) \/ CrashWorker(w) \/ RestartWorker(w)
  PROVE  SingleHolder' /\ PushedOnce'
<1>0. queue \in Seq(Jobs) /\ worker \in [Workers -> Worker] /\ NoJob \notin Jobs
  BY NullsDistinct DEF HolderInv, Typed, TypeOK
<1> DEFINE KeepsJobs == \A v \in Workers : worker'[v].job \in {worker[v].job, NoJob}
<1>1. ASSUME queue' = queue, upload' = upload, KeepsJobs
      PROVE  SingleHolder' /\ PushedOnce'
  BY <1>0, <1>1 DEF HolderInv, SingleHolder, PushedOnce, Queued
<1>2. CASE DequeueParseJob(w)
  <2>1. CASE queue # <<>> /\ queue' = Tail(queue)
    <3>1. /\ upload' = upload
          /\ \A v \in Workers \ {w} : worker'[v] = worker[v]
          /\ worker'[w].job \in {Head(queue), NoJob}
      BY <1>0, <1>2, <2>1 DEF DequeueParseJob, Die, FreshWorker, Worker
    <3>2. /\ Len(queue) \in Nat /\ Len(queue) > 0 /\ DOMAIN queue = 1..Len(queue)
          /\ Head(queue) = queue[1] /\ Head(queue) \in Jobs
          /\ DOMAIN queue' = 1..(Len(queue) - 1)
          /\ \A i \in 1..(Len(queue) - 1) : queue'[i] = queue[i + 1]
      BY <1>0, <2>1
    <3>3. \A i \in DOMAIN queue' :
            i + 1 \in DOMAIN queue /\ i + 1 # 1 /\ queue'[i] = queue[i + 1]
      BY <3>2
    <3>4. \A i, k \in DOMAIN queue' : queue'[i] = queue'[k] => i = k
      BY <3>2, <3>3 DEF HolderInv, SingleHolder
    <3>5. \A i \in DOMAIN queue' : queue'[i] # Head(queue) /\ queue'[i] \in Jobs
      BY <1>0, <3>2, <3>3 DEF HolderInv, SingleHolder
    <3>6. \A v \in Workers : worker[v].job # Head(queue)
      BY <3>2 DEF HolderInv, SingleHolder
    <3>7. SingleHolder'
      BY <1>0, <3>1, <3>3, <3>4, <3>5, <3>6 DEF HolderInv, SingleHolder
    <3>8. PushedOnce'
      BY <1>0, <3>1, <3>2, <3>3 DEF HolderInv, PushedOnce, Queued
    <3>9. QED BY <3>7, <3>8
  <2>2. CASE queue' = queue /\ (worker' = worker \/ Die(w))
    BY <1>0, <1>1, <1>2, <2>2 DEF DequeueParseJob, Die, FreshWorker
  <2>3. QED BY <1>2, <2>1, <2>2 DEF DequeueParseJob, Popped
<1>3. CASE PutMarkdown(w) \/ InsertDocument(w)
  <2>1. queue' = queue /\ upload' = upload
    BY <1>3 DEF PutMarkdown, InsertDocument
  <2>2. /\ \A v \in Workers \ {w} : worker'[v] = worker[v]
        /\ worker'[w].job = worker[w].job
    <3>1. CASE PutMarkdown(w)
      BY <1>0, <3>1 DEF PutMarkdown, WorkerGo, Worker
    <3>2. CASE InsertDocument(w)
      BY <1>0, <3>2 DEF InsertDocument, WorkerGo, Worker
    <3>3. QED BY <1>3, <3>1, <3>2
  <2>3. KeepsJobs
    BY <2>2
  <2>4. QED BY <1>1, <2>1, <2>3
<1>4. CASE Quiet(w)
  <2>1. queue' = queue /\ upload' = upload
    BY <1>4 DEF Quiet
  <2>2. /\ \A v \in Workers \ {w} : worker'[v] = worker[v]
        /\ worker'[w].job \in {worker[w].job, NoJob}
    BY <1>4 DEF Quiet
  <2>3. KeepsJobs
    BY <2>2
  <2>4. QED BY <1>1, <2>1, <2>3
<1>5. QED
  BY <1>2, <1>3, <1>4, QuietSteps DEF RunOnce, HolderInv

LEMMA HolderNext == HolderInv /\ [Next]_vars => HolderInv'
<1> SUFFICES ASSUME HolderInv, [Next]_vars PROVE HolderInv'
  OBVIOUS
<1>0. Typed'
  BY TypedNext DEF HolderInv
<1>1. ASSUME NEW j \in Jobs, CreateJob(j) \/ CrashUpload(j) PROVE HolderInv'
  BY <1>0, <1>1, HolderUpload DEF HolderInv
<1>2. ASSUME NEW w \in Workers, RunOnce(w) \/ CrashWorker(w) \/ RestartWorker(w)
      PROVE  HolderInv'
  BY <1>0, <1>2, HolderWorker DEF HolderInv
<1>3. CASE UNCHANGED vars
  BY <1>0, <1>3 DEF vars, HolderInv, SingleHolder, PushedOnce, Queued
<1>4. QED BY <1>1, <1>2, <1>3 DEF Next

(***************************************************************************)
(* However calls fail and processes stop, a job is in one place at a time: *)
(* no two workers ever work on the same upload.                            *)
(***************************************************************************)
THEOREM OneHolder == Spec => []SingleHolder
<1>1. Init => HolderInv
  BY TypeInit, HolderInit DEF HolderInv
<1>2. HolderInv => SingleHolder
  BY DEF HolderInv
<1>3. QED BY <1>1, <1>2, HolderNext, PTL DEF Spec

-----------------------------------------------------------------------------
(***************************************************************************)
(* DocumentInv is inductive                                                *)
(***************************************************************************)
LEMMA FlushDoc ==
  ASSUME NEW now, NEW seen, NEW new
  PROVE  /\ Flush(now, seen, new).doc \in {now.doc, new.doc}
         /\ new.doc = seen.doc => Flush(now, seen, new).doc = now.doc
BY DEF Flush

LEMMA DocumentInit ==
  Init => IdsDrawnOnce /\ DocumentInHand /\ CreatedOnce /\ OneDocumentPerJob
          /\ LinkedToOwnDocument
<1> SUFFICES ASSUME Init
             PROVE  IdsDrawnOnce /\ DocumentInHand /\ CreatedOnce /\ OneDocumentPerJob
                    /\ LinkedToOwnDocument
  OBVIOUS
<1>1. /\ \A d \in Docs : document[d] = NoJob
      /\ \A w \in Workers : worker[w].doc = NoDoc /\ worker[w].pc = "idle"
      /\ \A j \in Jobs : jobRow[j].doc = NoDoc
  BY DEF Init, FreshWorker, NoRow
<1>2. QED
  BY <1>1 DEF IdsDrawnOnce, DocumentInHand, CreatedOnce, OneDocumentPerJob,
              LinkedToOwnDocument, Creating, Linking

(* a job once pushed, or given up, is pushed no more *)
LEMMA PushedStays ==
  ASSUME Typed, NEW j \in Jobs, CreateJob(j) \/ CrashUpload(j)
  PROVE  /\ \A k \in Jobs : upload'[k].pc \in NotYetPushed => upload[k].pc \in NotYetPushed
         /\ \A k \in Jobs : upload[k].pc \notin NotYetPushed /\ ~Queued(k) => ~Queued(k)'
<1>0. upload \in [Jobs -> Upload] /\ queue \in Seq(Jobs)
  BY DEF Typed, TypeOK
<1>1. \A k \in Jobs : upload'[k].pc \in NotYetPushed => upload[k].pc \in NotYetPushed
  <2>1. CASE PutSource(j) \/ InsertJob(j) \/ CleanupSource(j) \/ RefreshJob(j)
    BY <1>0, <2>1 DEF PutSource, InsertJob, CleanupSource, RefreshJob, UploadAt, UploadGo,
                      Upload, NotYetPushed
  <2>2. CASE EnqueueParseJob(j)
    BY <1>0, <2>2 DEF EnqueueParseJob, UploadAt, UploadGo, Upload, NotYetPushed,
                      AfterEnqueueFailure
  <2>3. CASE LoadEnqueueFailure(j) \/ CommitEnqueueFailure(j) \/ CrashUpload(j)
    BY <1>0, <2>3 DEF LoadEnqueueFailure, CommitEnqueueFailure, CrashUpload, UploadAt,
                      UploadGo, Upload, NotYetPushed
  <2>4. QED BY <2>1, <2>2, <2>3 DEF CreateJob
<1>2. \A k \in Jobs : upload[k].pc \notin NotYetPushed /\ ~Queued(k) => ~Queued(k)'
  <2>1. CASE EnqueueParseJob(j)
    <3>1. upload[j].pc \in NotYetPushed
      BY <2>1 DEF EnqueueParseJob, UploadAt, NotYetPushed
    <3>2. CASE queue' = Append(queue, j)
      BY <1>0, <3>1, <3>2 DEF Queued
    <3>3. QED BY <2>1, <3>2
              DEF EnqueueParseJob, RaisesWith, Pushed, AfterRefusal, Queued
  <2>2. CASE ~EnqueueParseJob(j)
    BY <2>2 DEF CreateJob, CrashUpload, PutSource, InsertJob, CleanupSource,
                LoadEnqueueFailure, CommitEnqueueFailure, RefreshJob, Queued
  <2>3. QED BY <2>1, <2>2
<1>3. QED BY <1>1, <1>2

(* What the steps of a request leave of the invariant's parts *)
LEMMA DocumentUpload ==
  ASSUME DocumentInv, NEW j \in Jobs, CreateJob(j) \/ CrashUpload(j)
  PROVE  /\ IdsDrawnOnce' /\ DocumentInHand' /\ CreatedOnce'
         /\ OneDocumentPerJob' /\ LinkedToOwnDocument'
<1>0. /\ upload \in [Jobs -> Upload] /\ queue \in Seq(Jobs) /\ NoJob \notin Jobs
      /\ jobRow \in [Jobs -> Row] /\ document \in [Docs -> Jobs \cup {NoJob}]
  BY NullsDistinct DEF DocumentInv, HolderInv, Typed, TypeOK
<1>1. worker' = worker /\ document' = document /\ issued' = issued
  BY DEF CreateJob, CrashUpload, PutSource, InsertJob, EnqueueParseJob, CleanupSource,
         LoadEnqueueFailure, CommitEnqueueFailure, RefreshJob
<1>2. /\ \A k \in Jobs : upload'[k].pc \in NotYetPushed => upload[k].pc \in NotYetPushed
      /\ \A k \in Jobs : upload[k].pc \notin NotYetPushed /\ ~Queued(k) => ~Queued(k)'
  BY PushedStays DEF DocumentInv, HolderInv
<1>3. \A k \in Jobs : jobRow'[k].doc \in {jobRow[k].doc, NoDoc}
  <2>1. CASE InsertJob(j)
    BY <1>0, <2>1 DEF InsertJob, RaisesWith, QueuedRow, NoRow
  <2>2. CASE CommitEnqueueFailure(j)
    <3> DEFINE seen == upload[j].seen
               marked == [jobRow EXCEPT ![j] = Flush(@, seen, EnqueueFailedRow(seen))]
    <3>1. EnqueueFailedRow(seen).doc = seen.doc
      BY <1>0 DEF EnqueueFailedRow, Upload, Row
    <3>2. \A k \in Jobs : marked[k].doc = jobRow[k].doc
      BY <1>0, <3>1, FlushDoc
    <3>3. QED BY <2>2, <3>2 DEF CommitEnqueueFailure, RaisesWith
  <2>3. CASE ~InsertJob(j) /\ ~CommitEnqueueFailure(j)
    BY <2>3 DEF CreateJob, CrashUpload, PutSource, EnqueueParseJob, CleanupSource,
                LoadEnqueueFailure, RefreshJob
  <2>4. QED BY <2>1, <2>2, <2>3
<1>4. IdsDrawnOnce' /\ DocumentInHand' /\ OneDocumentPerJob'
  BY <1>1 DEF DocumentInv, IdsDrawnOnce, DocumentInHand, OneDocumentPerJob
<1>5. LinkedToOwnDocument'
  BY <1>1, <1>3 DEF DocumentInv, LinkedToOwnDocument
<1>6. CreatedOnce'
  <2> SUFFICES ASSUME NEW d \in Docs, document[d] # NoJob
               PROVE  /\ ~Queued(document[d])'
                      /\ upload'[document[d]].pc \notin NotYetPushed
                      /\ \A w \in Workers : worker[w].job = document[d] =>
                                               worker[w].pc \in PastCreating
    BY <1>1 DEF CreatedOnce, Queued
  <2>1. document[d] \in Jobs
    BY <1>0
  <2>2. QED BY <1>1, <1>2, <2>1 DEF DocumentInv, CreatedOnce, Queued
<1>7. QED BY <1>4, <1>5, <1>6

(* A step that moves nothing in documents keeps what the workers know of it *)
LEMMA DocumentQuiet ==
  ASSUME DocumentInv, NEW w \in Workers, Quiet(w)
  PROVE  IdsDrawnOnce' /\ DocumentInHand' /\ CreatedOnce' /\ OneDocumentPerJob'
<1>0. document' = document /\ issued' = issued /\ queue' = queue /\ upload' = upload
  BY DEF Quiet
<1>1. \A v \in Workers : worker'[v].doc \in {worker[v].doc, NoDoc}
  BY DEF Quiet
<1>2. \A v \in Workers : worker'[v].pc \in Creating \cup Linking =>
         /\ worker'[v].job = worker[v].job /\ worker'[v].doc = worker[v].doc
         /\ worker'[v].pc \in Creating => worker[v].pc \in Creating
         /\ worker'[v].pc \in Linking => worker[v].pc \in Linking
  BY DEF Quiet, Free, Creating, Linking
<1>3. \A v \in Workers : worker'[v].job # NoJob =>
         /\ worker'[v].job = worker[v].job
         /\ worker[v].pc \in PastCreating => worker'[v].pc \in PastCreating
  BY DEF Quiet
<1>4. IdsDrawnOnce'
  BY <1>0, <1>1 DEF DocumentInv, IdsDrawnOnce
<1>5. DocumentInHand'
  BY <1>0, <1>2 DEF DocumentInv, DocumentInHand
<1>6. CreatedOnce'
  BY <1>0, <1>3 DEF DocumentInv, CreatedOnce, Queued
<1>7. OneDocumentPerJob'
  BY <1>0 DEF DocumentInv, OneDocumentPerJob
<1>8. QED BY <1>4, <1>5, <1>6, <1>7

LEMMA DocumentDequeue ==
  ASSUME DocumentInv, NEW w \in Workers, DequeueParseJob(w)
  PROVE  IdsDrawnOnce' /\ DocumentInHand' /\ CreatedOnce' /\ OneDocumentPerJob'
<1>0. /\ queue \in Seq(Jobs) /\ worker \in [Workers -> Worker]
      /\ worker[w] = FreshWorker("idle")
      /\ UNCHANGED <<upload, document, issued>>
  BY DEF DequeueParseJob, WorkerAt, DocumentInv, HolderInv, Typed, TypeOK, WorkerShape, Free
<1>1. CASE queue # <<>> /\ queue' = Tail(queue)
  <2>1. /\ \A v \in Workers \ {w} : worker'[v] = worker[v]
        /\ worker'[w].job \in {Head(queue), NoJob} /\ worker'[w].doc = NoDoc
        /\ worker'[w].pc \notin Creating \cup Linking
    BY <1>0, <1>1 DEF DequeueParseJob, Die, FreshWorker, Worker, Creating, Linking
  <2>2. /\ Head(queue) = queue[1] /\ 1 \in DOMAIN queue
        /\ \A i \in DOMAIN queue' : i + 1 \in DOMAIN queue /\ queue'[i] = queue[i + 1]
    BY <1>0, <1>1
  <2>3. Queued(Head(queue)) /\ \A k \in Jobs \cup {NoJob} : Queued(k)' => Queued(k)
    BY <2>2 DEF Queued
  <2>4. IdsDrawnOnce'
    BY <1>0, <2>1 DEF DocumentInv, IdsDrawnOnce
  <2>5. DocumentInHand'
    BY <1>0, <2>1 DEF DocumentInv, DocumentInHand
  <2>6. CreatedOnce'
    <3> SUFFICES ASSUME NEW d \in Docs, document[d] # NoJob
                 PROVE  /\ ~Queued(document[d])'
                        /\ upload[document[d]].pc \notin NotYetPushed
                        /\ \A v \in Workers : worker'[v].job = document[d] =>
                                                 worker'[v].pc \in PastCreating
      BY <1>0 DEF CreatedOnce, Queued
    <3>1. document[d] \in Jobs
      BY DEF DocumentInv, HolderInv, Typed, TypeOK
    <3>2. document[d] # Head(queue)
      BY <2>3 DEF DocumentInv, CreatedOnce
    <3>3. QED BY <1>0, <2>1, <2>3, <3>1, <3>2 DEF DocumentInv, CreatedOnce, Queued
  <2>7. QED BY <1>0, <2>4, <2>5, <2>6 DEF DocumentInv, OneDocumentPerJob
<1>2. CASE queue' = queue /\ (worker' = worker \/ Die(w))
  <2>1. CASE Die(w)
    <3>1. Ends(w) /\ Typed
      BY <2>1 DEF Ends, DocumentInv, HolderInv
    <3>2. QED BY <1>0, <1>2, <3>1, EndsQuietly, DocumentQuiet
  <2>2. CASE worker' = worker
    BY <1>0, <1>2, <2>2
    DEF DocumentInv, IdsDrawnOnce, DocumentInHand, CreatedOnce, OneDocumentPerJob, Queued
  <2>3. QED BY <1>2, <2>1, <2>2
<1>3. QED BY <1>1, <1>2 DEF DequeueParseJob, Popped

LEMMA DocumentPutMarkdown ==
  ASSUME DocumentInv, NEW w \in Workers, PutMarkdown(w)
  PROVE  IdsDrawnOnce' /\ DocumentInHand' /\ CreatedOnce' /\ OneDocumentPerJob'
<1>0. /\ worker \in [Workers -> Worker] /\ NoDoc \notin Docs /\ worker[w].pc = "parsed"
      /\ UNCHANGED <<upload, queue, document>>
  BY NullsDistinct DEF PutMarkdown, WorkerAt, DocumentInv, HolderInv, Typed, TypeOK
<1>1. PICK d \in Docs \ issued :
         /\ issued' = issued \cup {d}
         /\ \/ worker' = [worker EXCEPT ![w].pc = "markdownStored", ![w].doc = d,
                                        ![w].uploaded = {Markdown(d)}]
            \/ worker' = [worker EXCEPT ![w].pc = "failing"]
  BY DEF PutMarkdown, FreshDoc, WorkerGo, FailingStep
<1>2. /\ \A v \in Workers \ {w} : worker'[v] = worker[v]
      /\ worker'[w].job = worker[w].job
      /\ \/ worker'[w].doc = d /\ worker'[w].pc = "markdownStored"
         \/ worker'[w].doc = worker[w].doc /\ worker'[w].pc = "failing"
  BY <1>0, <1>1 DEF Worker
<1>3. document[d] = NoJob /\ \A v \in Workers : worker[v].doc # d
  BY <1>0, <1>1 DEF DocumentInv, IdsDrawnOnce
<1>4. IdsDrawnOnce'
  BY <1>0, <1>1, <1>2, <1>3 DEF DocumentInv, IdsDrawnOnce
<1>5. DocumentInHand'
  BY <1>0, <1>2, <1>3 DEF DocumentInv, DocumentInHand, Creating, Linking
<1>6. CreatedOnce'
  <2>1. \A e \in Docs : document[e] # NoJob => worker[w].job # document[e]
    BY <1>0 DEF DocumentInv, CreatedOnce, PastCreating, Linking
  <2>2. QED BY <1>0, <1>2, <2>1 DEF DocumentInv, CreatedOnce, Queued
<1>7. QED BY <1>0, <1>4, <1>5, <1>6 DEF DocumentInv, OneDocumentPerJob

LEMMA DocumentInsert ==
  ASSUME DocumentInv, NEW w \in Workers, InsertDocument(w)
  PROVE  /\ IdsDrawnOnce' /\ DocumentInHand' /\ CreatedOnce'
         /\ OneDocumentPerJob' /\ LinkedToOwnDocument'
<1> DEFINE d == worker[w].doc
           j == worker[w].job
<1>0. /\ worker \in [Workers -> Worker] /\ document \in [Docs -> Jobs \cup {NoJob}]
      /\ NoJob \notin Jobs /\ NoDoc \notin Docs /\ jobRow \in [Jobs -> Row]
      /\ worker[w].pc = "resultStored" /\ d \in Docs /\ j \in Jobs
      /\ UNCHANGED <<upload, queue, jobRow, issued>>
  <2>1. Typed /\ worker[w].pc = "resultStored"
    BY DEF InsertDocument, WorkerAt, DocumentInv, HolderInv
  <2>2. d \in Docs /\ j \in Jobs
    BY <2>1 DEF Typed, TypeOK, WorkerShape, HasDoc, Free, Worker
  <2>3. QED BY <2>1, <2>2, NullsDistinct DEF InsertDocument, Typed, TypeOK
<1>1. /\ \/ document' = [document EXCEPT ![d] = j]
         \/ document' = document /\ worker'[w].pc # "inserted"
      /\ \A v \in Workers \ {w} : worker'[v] = worker[v]
      /\ worker'[w].job = j /\ worker'[w].doc = d
      /\ worker'[w].pc \in {"inserted", "cleaning"}
  BY <1>0 DEF InsertDocument, RaisesWith, WorkerGo, Worker
<1>2. document[d] = NoJob /\ d \in issued
  BY <1>0 DEF DocumentInv, DocumentInHand, IdsDrawnOnce, Creating
<1>3. \A e \in Docs : document[e] # j
  BY <1>0 DEF DocumentInv, CreatedOnce, PastCreating, Linking
<1>4. ~Queued(j) /\ upload[j].pc \notin NotYetPushed
  BY <1>0 DEF DocumentInv, HolderInv, SingleHolder, PushedOnce, Queued
<1>5. \A v \in Workers \ {w} : worker[v].job # j
  BY <1>0 DEF DocumentInv, HolderInv, SingleHolder
<1>6. \A v \in Workers \ {w} : worker[v].pc \in Creating \cup Linking =>
         worker[v].doc \in Docs /\ worker[v].doc # d
  <2>1. \A v \in Workers : worker[v].pc \in Creating \cup Linking => worker[v].doc \in Docs
    BY DEF DocumentInv, HolderInv, Typed, WorkerShape, HasDoc, Creating, Linking
  <2>2. QED BY <1>0, <2>1 DEF DocumentInv, IdsDrawnOnce
<1>7. \A e \in Docs : document'[e] = document[e] \/ (e = d /\ document'[e] = j)
  BY <1>0, <1>1
<1>8. IdsDrawnOnce'
  <2>1. \A v \in Workers : worker'[v].doc = worker[v].doc
    BY <1>1
  <2>2. QED BY <1>0, <1>2, <1>7, <2>1 DEF DocumentInv, IdsDrawnOnce
<1>9. DocumentInHand'
  <2>1. ASSUME NEW v \in Workers \ {w}
        PROVE  /\ worker'[v].pc \in Creating => document'[worker'[v].doc] = NoJob
               /\ worker'[v].pc \in Linking =>
                    /\ document'[worker'[v].doc] \in {worker'[v].job, NoJob}
                    /\ \A e \in Docs : document'[e] = worker'[v].job => e = worker'[v].doc
    BY <1>1, <1>5, <1>6, <1>7 DEF DocumentInv, DocumentInHand
  <2>2. /\ worker'[w].pc \notin Creating
        /\ worker'[w].pc \in Linking =>
             /\ document'[worker'[w].doc] \in {worker'[w].job, NoJob}
             /\ \A e \in Docs : document'[e] = worker'[w].job => e = worker'[w].doc
    BY <1>0, <1>1, <1>3, <1>7 DEF Creating, Linking
  <2>3. QED BY <2>1, <2>2 DEF DocumentInHand
<1>10. CreatedOnce'
  <2> SUFFICES ASSUME NEW e \in Docs, document'[e] # NoJob
               PROVE  /\ ~Queued(document'[e])
                      /\ upload[document'[e]].pc \notin NotYetPushed
                      /\ \A v \in Workers : worker'[v].job = document'[e] =>
                                               worker'[v].pc \in PastCreating
    BY <1>0 DEF CreatedOnce, Queued
  <2>1. CASE document'[e] = j
    BY <1>1, <1>4, <1>5, <2>1 DEF PastCreating, Linking
  <2>2. CASE document'[e] # j
    BY <1>1, <1>7, <2>2 DEF DocumentInv, CreatedOnce
  <2>3. QED BY <2>1, <2>2
<1>11. OneDocumentPerJob'
  BY <1>0, <1>3, <1>7 DEF DocumentInv, OneDocumentPerJob
<1>12. LinkedToOwnDocument'
  <2>1. \A k \in Jobs : jobRow[k].doc # NoDoc => jobRow[k].doc \in Docs
    BY <1>0 DEF Row
  <2>2. \A k \in Jobs : jobRow[k].doc # d
    BY <1>0, <1>2 DEF DocumentInv, LinkedToOwnDocument
  <2>3. QED BY <1>0, <1>7, <2>1, <2>2 DEF DocumentInv, LinkedToOwnDocument
<1>13. QED BY <1>8, <1>9, <1>10, <1>11, <1>12

(* What a worker's step writes into document_id: only complete_job does,   *)
(* the id of the row it has just created                                   *)
LEMMA LinkWorker ==
  ASSUME DocumentInv, NEW w \in Workers, document' = document,
         RunOnce(w) \/ CrashWorker(w) \/ RestartWorker(w)
  PROVE  LinkedToOwnDocument'
<1>0. /\ worker \in [Workers -> Worker] /\ jobRow \in [Jobs -> Row] /\ Typed
  BY DEF DocumentInv, HolderInv, Typed, TypeOK
<1>1. CASE CommitStart(w)
  <2>1. worker[w].seen \in Row
    BY <1>0 DEF Worker
  <2>2. StartedRow(worker[w].seen).doc = worker[w].seen.doc
    BY <2>1 DEF StartedRow, Row
  <2>3. \A k \in Jobs : jobRow'[k].doc = jobRow[k].doc
    BY <1>0, <1>1, <2>2, FlushDoc DEF CommitStart, RaisesWith
  <2>4. QED BY <2>3 DEF DocumentInv, LinkedToOwnDocument
<1>2. CASE CommitFail(w)
  <2>1. worker[w].seen \in Row
    BY <1>0 DEF Worker
  <2>2. FailedRow(worker[w].seen).doc = worker[w].seen.doc
    BY <2>1 DEF FailedRow, Row
  <2>3. \A k \in Jobs : jobRow'[k].doc = jobRow[k].doc
    BY <1>0, <1>2, <2>2, FlushDoc DEF CommitFail, RaisesWith
  <2>4. QED BY <2>3 DEF DocumentInv, LinkedToOwnDocument
<1>3. CASE CommitComplete(w)
  <2> DEFINE d == worker[w].doc
             j == worker[w].job
  <2>1. worker[w].seen \in Row /\ document[d] \in {j, NoJob}
    BY <1>0, <1>3 DEF Worker, CommitComplete, WorkerAt, DocumentInv, DocumentInHand, Linking
  <2>2. CompletedRow(worker[w].seen, d).doc = d
    BY <2>1 DEF CompletedRow, Row
  <2>3. CASE document[d] = NoJob
    BY <1>3, <2>3 DEF CommitComplete, DocumentInv, LinkedToOwnDocument
  <2>4. CASE document[d] # NoJob
    <3>1. \A k \in Jobs : jobRow'[k].doc = jobRow[k].doc \/ (k = j /\ jobRow'[k].doc = d)
      BY <1>0, <1>3, <2>2, FlushDoc DEF CommitComplete, RaisesWith
    <3>2. QED BY <2>1, <2>4, <3>1 DEF DocumentInv, LinkedToOwnDocument
  <2>5. QED BY <2>3, <2>4
<1>4. CASE jobRow' = jobRow
  BY <1>4 DEF DocumentInv, LinkedToOwnDocument
<1>5. QED
  BY <1>1, <1>2, <1>3, <1>4
  DEF RunOnce, DequeueParseJob, LoadStart, RefreshStarted, FetchSource, ParseSource,
      PutMarkdown, PutJson, InsertDocument, CleanResult, RefreshDocument, LoadComplete,
      LoadFail, CrashWorker, RestartWorker

LEMMA DocumentWorker ==
  ASSUME DocumentInv, NEW w \in Workers, RunOnce(w) \/ CrashWorker(w) \/ RestartWorker(w)
  PROVE  /\ IdsDrawnOnce' /\ DocumentInHand' /\ CreatedOnce'
         /\ OneDocumentPerJob' /\ LinkedToOwnDocument'
<1>0. Typed
  BY DEF DocumentInv, HolderInv
<1>1. CASE DequeueParseJob(w)
  <2>1. document' = document
    BY <1>1 DEF DequeueParseJob
  <2>2. QED BY <1>1, <2>1, DocumentDequeue, LinkWorker
<1>2. CASE PutMarkdown(w)
  <2>1. document' = document
    BY <1>2 DEF PutMarkdown
  <2>2. QED BY <1>2, <2>1, DocumentPutMarkdown, LinkWorker
<1>3. CASE InsertDocument(w)
  BY <1>3, DocumentInsert
<1>4. CASE Quiet(w)
  <2>1. document' = document
    BY <1>4 DEF Quiet
  <2>2. QED BY <1>4, <2>1, DocumentQuiet, LinkWorker
<1>5. QED
  BY <1>0, <1>1, <1>2, <1>3, <1>4, QuietSteps DEF RunOnce

LEMMA DocumentNext == DocumentInv /\ [Next]_vars => DocumentInv'
<1> SUFFICES ASSUME DocumentInv, [Next]_vars PROVE DocumentInv'
  OBVIOUS
<1>0. HolderInv'
  BY HolderNext DEF DocumentInv
<1>1. ASSUME NEW j \in Jobs, CreateJob(j) \/ CrashUpload(j) PROVE DocumentInv'
  BY <1>0, <1>1, DocumentUpload DEF DocumentInv
<1>2. ASSUME NEW w \in Workers, RunOnce(w) \/ CrashWorker(w) \/ RestartWorker(w)
      PROVE  DocumentInv'
  BY <1>0, <1>2, DocumentWorker DEF DocumentInv
<1>3. CASE UNCHANGED vars
  BY <1>0, <1>3 DEF vars, DocumentInv, IdsDrawnOnce, DocumentInHand, CreatedOnce,
                    OneDocumentPerJob, LinkedToOwnDocument, Queued
<1>4. QED BY <1>1, <1>2, <1>3 DEF Next

(***************************************************************************)
(* The inductive invariant behind the next two theorems: where a document  *)
(* id, its row and the job it belongs to can be at any time.               *)
(***************************************************************************)
THEOREM DocumentInvariant == Spec => []DocumentInv
<1>1. Init => DocumentInv
  BY TypeInit, HolderInit, DocumentInit DEF DocumentInv, HolderInv
<1>2. QED BY <1>1, DocumentNext, PTL DEF Spec

(***************************************************************************)
(* However calls fail and processes stop, one upload never becomes two     *)
(* documents.                                                              *)
(***************************************************************************)
THEOREM OneDocument == Spec => []OneDocumentPerJob
<1>1. DocumentInv => OneDocumentPerJob
  BY DEF DocumentInv
<1>2. QED BY <1>1, DocumentInvariant, PTL

(***************************************************************************)
(* A job that names a document names the one parsed from its own upload.   *)
(***************************************************************************)
THEOREM OwnDocument == Spec => []LinkedToOwnDocument
<1>1. DocumentInv => LinkedToOwnDocument
  BY DEF DocumentInv
<1>2. QED BY <1>1, DocumentInvariant, PTL

-----------------------------------------------------------------------------
(***************************************************************************)
(* The invariants                                                          *)
(***************************************************************************)
AtLarge(j) == Queued(j) \/ \E w \in Workers : worker[w].job = j

(* Pushes are acknowledged: a push that raised pushed nothing.             *)
NeverPushed ==
  \A j \in Jobs :
    /\ upload[j].pc \in {"marking", "markCommit"} => ~AtLarge(j)
    /\ jobRow[j].error = "queue_enqueue_failed" =>
         ~AtLarge(j) /\ upload[j].pc \notin NotYetPushed

RejectedInv == HolderInv /\ NeverPushed

(* Commits are acknowledged too: every session has the row as it is now,   *)
(* and the row says how far the job has come.                              *)
ProcessingRow == StartedRow(QueuedRow)
InProcess     == WorkerPcs \ {"idle", "down", "starting", "startCommit"}

RequestRow ==
  \A j \in Jobs :
    /\ upload[j].pc \in {"idle", "stored"} => jobRow[j] = NoRow
    /\ upload[j].pc \in {"persisted", "marking", "markCommit"} => jobRow[j] = QueuedRow
    /\ upload[j].pc = "markCommit" => upload[j].seen = QueuedRow
    /\ Queued(j) => jobRow[j] = QueuedRow

WorkerRow ==
  \A w \in Workers :
    /\ worker[w].pc \in {"starting", "startCommit"} => jobRow[worker[w].job] = QueuedRow
    /\ worker[w].pc = "startCommit" => worker[w].seen = QueuedRow
    /\ worker[w].pc \in InProcess => jobRow[worker[w].job] = ProcessingRow
    /\ worker[w].pc \in {"completeCommit", "failCommit"} => worker[w].seen = ProcessingRow

StatusInv == DocumentInv /\ NeverPushed /\ RequestRow /\ WorkerRow /\ LinkedOnlyWhenSucceeded

(* The database never fails: a worker that fails its job published nothing. *)
PublishedInProcess ==
  /\ \A j \in Jobs : Published(j) => jobRow[j].status \in {"processing", "succeeded"}
  /\ \A w \in Workers : worker[w].pc \in {"cleaning", "failing", "failCommit"} =>
                           ~Published(worker[w].job)

LifecycleInv == StatusInv /\ PublishedInProcess

(* Commits are acknowledged: a source object is deleted only while its job *)
(* has no row, a result object while its document has none.                *)
RowPresent ==
  \A j \in Jobs :
    /\ upload[j].pc \in {"idle", "stored", "cleanup"} =>
         jobRow[j].status = "absent" /\ ~AtLarge(j)
    /\ upload[j].pc \in {"persisted", "markCommit"} \/ AtLarge(j) \/ Published(j) =>
         jobRow[j].status # "absent"
    /\ upload[j].pc = "stored" \/ jobRow[j].status # "absent" => Source(j) \in objects

ResultKept ==
  /\ \A w \in Workers :
       /\ worker[w].pc \in {"markdownStored", "resultStored"} =>
            Markdown(worker[w].doc) \in objects
       /\ worker[w].pc = "resultStored" => Json(worker[w].doc) \in objects
       /\ worker[w].pc = "cleaning" =>
            worker[w].doc \in Docs /\ document[worker[w].doc] = NoJob
       /\ worker[w].pc \in {"markdownStored", "resultStored", "cleaning"} =>
            worker[w].uploaded \subseteq {Markdown(worker[w].doc), Json(worker[w].doc)}
  /\ \A d \in Docs : document[d] # NoJob => {Markdown(d), Json(d)} \subseteq objects

BackedInv == DocumentInv /\ RowPresent /\ ResultKept

(* Under every fault: what a worker stores for a document is on its list.  *)
OnTheList ==
  \A w \in Workers : \A d \in Docs :
    Storing(w, d) => (objects \ leaked) \cap {Markdown(d), Json(d)} \subseteq worker[w].uploaded

OrphanInv == DocumentInv /\ OnTheList /\ NoOrphanObjects
-----------------------------------------------------------------------------
(***************************************************************************)
(* What a step of a request and a step of a worker leave alone             *)
(***************************************************************************)
LEMMA RequestElsewhere ==
  ASSUME Typed, NEW j \in Jobs, CreateJob(j) \/ CrashUpload(j)
  PROVE  /\ UNCHANGED <<worker, document, issued>>
         /\ \A k \in Jobs \ {j} : /\ upload'[k] = upload[k] /\ jobRow'[k] = jobRow[k]
                                  /\ Queued(k)' <=> Queued(k)
                                  /\ AtLarge(k)' <=> AtLarge(k)
                                  /\ Source(k) \in objects' <=> Source(k) \in objects
                                  /\ Source(k) \in leaked' <=> Source(k) \in leaked
<1>0. /\ upload \in [Jobs -> Upload] /\ jobRow \in [Jobs -> Row] /\ queue \in Seq(Jobs)
  BY DEF Typed, TypeOK
<1>1. UNCHANGED <<worker, document, issued>>
  BY DEF CreateJob, CrashUpload, PutSource, InsertJob, EnqueueParseJob, CleanupSource,
         LoadEnqueueFailure, CommitEnqueueFailure, RefreshJob
<1>2. \A k \in Jobs \ {j} : upload'[k] = upload[k]
  BY <1>0 DEF CreateJob, CrashUpload, PutSource, InsertJob, EnqueueParseJob, CleanupSource,
              LoadEnqueueFailure, CommitEnqueueFailure, RefreshJob, UploadGo
<1>3. \A k \in Jobs \ {j} : jobRow'[k] = jobRow[k]
  BY <1>0 DEF CreateJob, CrashUpload, PutSource, InsertJob, EnqueueParseJob, CleanupSource,
              LoadEnqueueFailure, CommitEnqueueFailure, RefreshJob, RaisesWith
<1>4. queue' = queue \/ queue' = Append(queue, j)
  BY DEF CreateJob, CrashUpload, PutSource, InsertJob, EnqueueParseJob, CleanupSource,
         LoadEnqueueFailure, CommitEnqueueFailure, RefreshJob, RaisesWith, Pushed,
         AfterRefusal
<1>5. \A k \in Jobs \ {j} : Queued(k)' <=> Queued(k)
  <2>1. CASE queue' = queue
    BY <2>1 DEF Queued
  <2>2. CASE queue' = Append(queue, j)
    <3>1. /\ DOMAIN queue = 1..Len(queue) /\ Len(queue) \in Nat
          /\ DOMAIN queue' = 1..(Len(queue) + 1) /\ queue'[Len(queue) + 1] = j
          /\ \A i \in 1..Len(queue) : queue'[i] = queue[i]
      BY <1>0, <2>2
    <3>2. \A i \in DOMAIN queue' : i \in DOMAIN queue \/ i = Len(queue) + 1
      BY <3>1
    <3>3. \A i \in DOMAIN queue : i \in DOMAIN queue' /\ queue'[i] = queue[i]
      BY <3>1
    <3>4. QED BY <3>1, <3>2, <3>3 DEF Queued
  <2>3. QED BY <1>4, <2>1, <2>2
<1>6. \A k \in Jobs \ {j} : /\ Source(k) \in objects' <=> Source(k) \in objects
                            /\ Source(k) \in leaked' <=> Source(k) \in leaked
  <2>1. \A k \in Jobs \ {j} : Source(k) # Source(j)
    BY DEF Source
  <2>2. /\ objects' \in {objects, objects \cup {Source(j)}, objects \ {Source(j)}}
        /\ leaked' = leaked \/ leaked' = leaked \cup ({Source(j)} \cap objects')
    BY DEF CreateJob, CrashUpload, PutSource, InsertJob, EnqueueParseJob, CleanupSource,
           LoadEnqueueFailure, CommitEnqueueFailure, RefreshJob, RaisesWith, Leak
  <2> HIDE DEF Source
  <2>3. QED BY <2>1, <2>2
<1>7. QED BY <1>1, <1>2, <1>3, <1>5, <1>6 DEF AtLarge

LEMMA WorkerElsewhere ==
  ASSUME HolderInv, NEW w \in Workers, RunOnce(w) \/ CrashWorker(w) \/ RestartWorker(w)
  PROVE  /\ upload' = upload
         /\ \A v \in Workers \ {w} : worker'[v] = worker[v]
         /\ \A k \in Jobs : /\ Queued(k)' => Queued(k)
                            /\ AtLarge(k)' => AtLarge(k)
                            /\ k # worker[w].job => jobRow'[k] = jobRow[k]
         /\ worker'[w].job \in {worker[w].job, NoJob} \/ worker[w].job = NoJob
<1>0. /\ Typed /\ queue \in Seq(Jobs) /\ worker \in [Workers -> Worker]
      /\ jobRow \in [Jobs -> Row] /\ NoJob \notin Jobs
  BY NullsDistinct DEF HolderInv, Typed, TypeOK
<1>1. upload' = upload
  BY <1>0, TypedStores
<1>2. \A v \in Workers \ {w} : worker'[v] = worker[v]
  <2>1. CASE DequeueParseJob(w) \/ PutMarkdown(w) \/ InsertDocument(w)
    BY <1>0, <2>1 DEF DequeueParseJob, PutMarkdown, InsertDocument, WorkerGo, Die
  <2>2. CASE Quiet(w)
    BY <2>2 DEF Quiet
  <2>3. QED BY <1>0, <2>1, <2>2, QuietSteps DEF RunOnce
<1>3. \A k \in Jobs : k # worker[w].job => jobRow'[k] = jobRow[k]
  BY <1>0
  DEF RunOnce, DequeueParseJob, LoadStart, CommitStart, RefreshStarted, FetchSource,
      ParseSource, PutMarkdown, PutJson, InsertDocument, CleanResult, RefreshDocument,
      LoadComplete, CommitComplete, LoadFail, CommitFail, CrashWorker, RestartWorker,
      RaisesWith
<1>4. CASE DequeueParseJob(w)
  <2>0. worker[w].job = NoJob
    BY <1>0, <1>4 DEF DequeueParseJob, WorkerAt, Typed, WorkerShape, Free
  <2>1. CASE queue # <<>> /\ queue' = Tail(queue)
    <3>1. /\ Head(queue) = queue[1] /\ 1 \in DOMAIN queue
          /\ \A i \in DOMAIN queue' : i + 1 \in DOMAIN queue /\ queue'[i] = queue[i + 1]
      BY <1>0, <2>1
    <3>2. Queued(Head(queue)) /\ \A k \in Jobs : Queued(k)' => Queued(k)
      BY <3>1 DEF Queued
    <3>3. worker'[w].job \in {Head(queue), NoJob}
      BY <1>0, <1>4, <2>1 DEF DequeueParseJob, Die, FreshWorker, Worker
    <3>4. QED BY <1>0, <1>1, <1>2, <1>3, <2>0, <3>2, <3>3 DEF AtLarge
  <2>2. CASE queue' = queue /\ (worker' = worker \/ Die(w))
    BY <1>0, <1>1, <1>2, <1>3, <2>0, <2>2 DEF AtLarge, Queued, Die, FreshWorker
  <2>3. QED BY <1>4, <2>1, <2>2 DEF DequeueParseJob, Popped
<1>5. CASE ~DequeueParseJob(w)
  <2>1. queue' = queue /\ worker'[w].job \in {worker[w].job, NoJob}
    <3>1. CASE PutMarkdown(w)
      BY <1>0, <3>1 DEF PutMarkdown, WorkerGo, Worker
    <3>2. CASE InsertDocument(w)
      BY <1>0, <3>2 DEF InsertDocument, WorkerGo, Worker
    <3>3. CASE Quiet(w)
      BY <3>3 DEF Quiet
    <3>4. QED BY <1>0, <1>5, <3>1, <3>2, <3>3, QuietSteps DEF RunOnce
  <2>2. QED BY <1>0, <1>1, <1>2, <1>3, <2>1 DEF AtLarge, Queued
<1>6. QED BY <1>4, <1>5

(* a column that a commit does not change, or sets *)
LEMMA FlushColumns ==
  ASSUME NEW now, NEW seen, NEW new
  PROVE  /\ Flush(now, seen, new).status \in {now.status, new.status}
         /\ Flush(now, seen, new).error \in {now.error, new.error}
         /\ new.status # seen.status => Flush(now, seen, new).status = new.status
         /\ new.status = seen.status => Flush(now, seen, new).status = now.status
         /\ new.error = seen.error => Flush(now, seen, new).error = now.error
BY DEF Flush

(* a session that saw the row as it is now writes the row it means *)
LEMMA FlushFresh ==
  ASSUME NEW seen \in Row, NEW new \in Row
  PROVE  Flush(seen, seen, new) = new
BY DEF Flush, Row

-----------------------------------------------------------------------------
(***************************************************************************)
(* A rejected job is not queued, when pushes are acknowledged              *)
(***************************************************************************)
PushesAcknowledged == "queue" \notin Unacknowledged

LEMMA NeverPushedUpload ==
  ASSUME RejectedInv, PushesAcknowledged, NEW j \in Jobs, CreateJob(j) \/ CrashUpload(j)
  PROVE  NeverPushed'
<1>0. Typed /\ upload \in [Jobs -> Upload] /\ jobRow \in [Jobs -> Row]
  BY DEF RejectedInv, HolderInv, Typed, TypeOK
<1> DEFINE Safe(k) == /\ upload[k].pc \in {"marking", "markCommit"} => ~AtLarge(k)
                      /\ jobRow[k].error = "queue_enqueue_failed" =>
                           ~AtLarge(k) /\ upload[k].pc \notin NotYetPushed
<1>1. ASSUME NEW k \in Jobs \ {j}
      PROVE  Safe(k)'
  BY <1>0, RequestElsewhere DEF RejectedInv, NeverPushed
<1>2. Safe(j) /\ worker' = worker
  BY <1>0, RequestElsewhere DEF RejectedInv, NeverPushed
<1>3. upload[j].pc \in NotYetPushed => ~AtLarge(j)
  BY DEF RejectedInv, HolderInv, PushedOnce, AtLarge
<1>4. CASE EnqueueParseJob(j)
  <2>1. jobRow' = jobRow /\ upload[j].pc \in NotYetPushed
    BY <1>4 DEF EnqueueParseJob, UploadAt, NotYetPushed
  <2>2. \/ upload'[j].pc = "enqueued"
        \/ upload'[j].pc = "marking" /\ queue' = queue
    BY <1>0, <1>4 DEF EnqueueParseJob, RaisesWith, PushesAcknowledged, AfterRefusal,
                      AfterEnqueueFailure, UploadGo, Upload
  <2>3. Safe(j)'
    BY <1>2, <1>3, <2>1, <2>2 DEF AtLarge, Queued, NotYetPushed
  <2>4. QED BY <1>1, <2>3 DEF NeverPushed
<1>5. CASE PutSource(j) \/ InsertJob(j) \/ CleanupSource(j) \/ RefreshJob(j) \/ CrashUpload(j)
  <2>1. /\ queue' = queue /\ upload'[j].pc \notin {"marking", "markCommit"}
        /\ upload'[j].pc \in NotYetPushed => upload[j].pc \in NotYetPushed
        /\ jobRow'[j].error \in {jobRow[j].error, "none"}
    BY <1>0, <1>5
    DEF PutSource, InsertJob, CleanupSource, RefreshJob, CrashUpload, RaisesWith, UploadAt,
        UploadGo, Upload, QueuedRow, NoRow, NotYetPushed
  <2>2. Safe(j)'
    BY <1>2, <2>1 DEF AtLarge, Queued
  <2>3. QED BY <1>1, <2>2 DEF NeverPushed
<1>6. CASE LoadEnqueueFailure(j) \/ CommitEnqueueFailure(j)
  <2>1. /\ queue' = queue /\ upload[j].pc \in {"marking", "markCommit"}
        /\ upload'[j].pc \in {"rejected", "markCommit", "errored"}
    BY <1>0, <1>6
    DEF LoadEnqueueFailure, CommitEnqueueFailure, UploadAt, UploadGo, Upload
  <2>2. Safe(j)'
    BY <1>2, <2>1 DEF AtLarge, Queued, NotYetPushed
  <2>3. QED BY <1>1, <2>2 DEF NeverPushed
<1>7. QED BY <1>4, <1>5, <1>6 DEF CreateJob

(* no worker's commit says that a job was not queued *)
LEMMA WorkerErrors ==
  ASSUME Typed, NEW w \in Workers, RunOnce(w) \/ CrashWorker(w) \/ RestartWorker(w)
  PROVE  \A k \in Jobs : jobRow'[k].error \in {jobRow[k].error, "none", "parse_failed"}
<1>0. jobRow \in [Jobs -> Row] /\ worker \in [Workers -> Worker]
  BY DEF Typed, TypeOK
<1>1. worker[w].seen \in Row
  BY <1>0 DEF Worker
<1> DEFINE seen == worker[w].seen
<1>2. \A d : /\ StartedRow(seen).error = "none" /\ FailedRow(seen).error = "parse_failed"
             /\ CompletedRow(seen, d).error = "none"
  BY <1>1 DEF StartedRow, FailedRow, CompletedRow, Row
<1> HIDE DEF seen
<1>3. CASE CommitStart(w)
  BY <1>0, <1>2, <1>3, FlushColumns DEF CommitStart, RaisesWith, seen
<1>4. CASE CommitComplete(w)
  BY <1>0, <1>2, <1>4, FlushColumns DEF CommitComplete, RaisesWith, seen
<1>5. CASE CommitFail(w)
  BY <1>0, <1>2, <1>5, FlushColumns DEF CommitFail, RaisesWith, seen
<1>6. CASE jobRow' = jobRow
  BY <1>6
<1>7. QED
  BY <1>3, <1>4, <1>5, <1>6
  DEF RunOnce, DequeueParseJob, LoadStart, RefreshStarted, FetchSource, ParseSource,
      PutMarkdown, PutJson, InsertDocument, CleanResult, RefreshDocument, LoadComplete,
      LoadFail, CrashWorker, RestartWorker

LEMMA NeverPushedWorker ==
  ASSUME HolderInv, NeverPushed, NEW w \in Workers,
         RunOnce(w) \/ CrashWorker(w) \/ RestartWorker(w)
  PROVE  NeverPushed'
<1>1. /\ upload' = upload /\ \A k \in Jobs : AtLarge(k)' => AtLarge(k)
      /\ \A k \in Jobs : jobRow'[k].error \in {jobRow[k].error, "none", "parse_failed"}
  BY WorkerElsewhere, WorkerErrors DEF HolderInv
<1>2. QED BY <1>1 DEF NeverPushed

LEMMA RejectedNext ==
  ASSUME PushesAcknowledged
  PROVE  RejectedInv /\ [Next]_vars => RejectedInv'
<1> SUFFICES ASSUME RejectedInv, [Next]_vars PROVE RejectedInv'
  OBVIOUS
<1>0. HolderInv'
  BY HolderNext DEF RejectedInv
<1>1. ASSUME NEW j \in Jobs, CreateJob(j) \/ CrashUpload(j) PROVE RejectedInv'
  BY <1>0, <1>1, NeverPushedUpload DEF RejectedInv
<1>2. ASSUME NEW w \in Workers, RunOnce(w) \/ CrashWorker(w) \/ RestartWorker(w)
      PROVE  RejectedInv'
  BY <1>0, <1>2, NeverPushedWorker DEF RejectedInv
<1>3. CASE UNCHANGED vars
  BY <1>0, <1>3 DEF vars, RejectedInv, NeverPushed, AtLarge, Queued
<1>4. QED BY <1>1, <1>2, <1>3 DEF Next

LEMMA NeverPushedInit == Init => NeverPushed
<1> SUFFICES ASSUME Init, NEW j \in Jobs
             PROVE  upload[j].pc = "idle" /\ jobRow[j].error = "none"
  BY DEF NeverPushed
<1>1. QED BY DEF Init, NoRow

(***************************************************************************)
(* When a push that raises has pushed nothing, a job marked "could not be  *)
(* added to the queue" is not in the queue and no worker has it, whatever  *)
(* else fails and whatever process stops (_mark_enqueue_failure).          *)
(***************************************************************************)
THEOREM RejectedStaysOut ==
  ASSUME PushesAcknowledged
  PROVE  Spec => []RejectedNotQueued
<1>1. Init => RejectedInv
  BY TypeInit, HolderInit, NeverPushedInit DEF RejectedInv, HolderInv
<1>2. RejectedInv => RejectedNotQueued
  BY DEF RejectedInv, NeverPushed, AtLarge, Queued, RejectedNotQueued
<1>3. RejectedInv /\ [Next]_vars => RejectedInv'
  BY RejectedNext
<1>4. QED BY <1>1, <1>2, <1>3, PTL DEF Spec

-----------------------------------------------------------------------------
(***************************************************************************)
(* What the row of a job says, when pushes and commits are acknowledged    *)
(***************************************************************************)
WritesAcknowledged == "queue" \notin Unacknowledged /\ "db" \notin Unacknowledged

LEMMA RowValues ==
  /\ NoRow \in Row /\ NoRow.status = "absent" /\ NoRow.doc = NoDoc /\ NoRow.error = "none"
  /\ QueuedRow \in Row /\ QueuedRow.status = "queued" /\ QueuedRow.doc = NoDoc
  /\ ProcessingRow \in Row /\ ProcessingRow.status = "processing"
  /\ ProcessingRow.doc = NoDoc
  /\ EnqueueFailedRow(QueuedRow) \in Row /\ EnqueueFailedRow(QueuedRow).status = "failed"
  /\ EnqueueFailedRow(QueuedRow).doc = NoDoc
  /\ FailedRow(ProcessingRow) \in Row /\ FailedRow(ProcessingRow).status = "failed"
  /\ FailedRow(ProcessingRow).doc = NoDoc
  /\ \A d \in Docs : /\ CompletedRow(ProcessingRow, d) \in Row
                     /\ CompletedRow(ProcessingRow, d).status = "succeeded"
<1>1. NoRow \in Row /\ NoRow.status = "absent" /\ NoRow.doc = NoDoc /\ NoRow.error = "none"
  BY RowTypes DEF NoRow
<1>2. QueuedRow \in Row /\ QueuedRow.status = "queued" /\ QueuedRow.doc = NoDoc
  BY RowTypes DEF QueuedRow, NoRow
<1>3. /\ ProcessingRow \in Row /\ ProcessingRow.status = "processing"
      /\ ProcessingRow.doc = NoDoc
  BY RowTypes, <1>2 DEF ProcessingRow, StartedRow, Row
<1>4. /\ EnqueueFailedRow(QueuedRow) \in Row /\ EnqueueFailedRow(QueuedRow).status = "failed"
      /\ EnqueueFailedRow(QueuedRow).doc = NoDoc
  BY RowTypes, <1>2 DEF EnqueueFailedRow, Row
<1>5. /\ FailedRow(ProcessingRow) \in Row /\ FailedRow(ProcessingRow).status = "failed"
      /\ FailedRow(ProcessingRow).doc = NoDoc
  BY RowTypes, <1>3 DEF FailedRow, Row
<1>6. \A d \in Docs : /\ CompletedRow(ProcessingRow, d) \in Row
                      /\ CompletedRow(ProcessingRow, d).status = "succeeded"
  BY RowTypes, <1>3 DEF CompletedRow, Row
<1>7. QED BY <1>1, <1>2, <1>3, <1>4, <1>5, <1>6

(* the writes of a request *)
LEMMA RequestWrites ==
  ASSUME StatusInv, WritesAcknowledged, NEW j \in Jobs, CreateJob(j) \/ CrashUpload(j)
  PROVE  \/ jobRow' = jobRow
         \/ /\ InsertJob(j) /\ upload[j].pc = "stored" /\ upload'[j].pc = "persisted"
            /\ jobRow' = [jobRow EXCEPT ![j] = QueuedRow]
         \/ /\ CommitEnqueueFailure(j) /\ upload[j].pc = "markCommit"
            /\ upload'[j].pc \notin {"idle", "stored", "persisted", "marking", "markCommit"}
            /\ jobRow' = [jobRow EXCEPT ![j] = EnqueueFailedRow(QueuedRow)]
<1>0. upload \in [Jobs -> Upload] /\ jobRow \in [Jobs -> Row]
  BY DEF StatusInv, DocumentInv, HolderInv, Typed, TypeOK
<1>1. CASE InsertJob(j)
  BY <1>0, <1>1 DEF InsertJob, RaisesWith, WritesAcknowledged, UploadAt, UploadGo, Upload
<1>2. CASE CommitEnqueueFailure(j)
  <2>1. upload[j].pc = "markCommit" /\ upload[j].seen = QueuedRow /\ jobRow[j] = QueuedRow
    BY <1>2 DEF CommitEnqueueFailure, UploadAt, StatusInv, RequestRow
  <2>2. Flush(QueuedRow, QueuedRow, EnqueueFailedRow(QueuedRow)) = EnqueueFailedRow(QueuedRow)
    BY RowValues, FlushFresh
  <2>3. /\ jobRow' = jobRow \/ jobRow' = [jobRow EXCEPT ![j] = EnqueueFailedRow(QueuedRow)]
        /\ upload'[j].pc \in {"rejected", "errored"}
    BY <1>0, <1>2, <2>1, <2>2 DEF CommitEnqueueFailure, RaisesWith, WritesAcknowledged
  <2>4. QED BY <1>2, <2>1, <2>3
<1>3. CASE ~InsertJob(j) /\ ~CommitEnqueueFailure(j)
  BY <1>3 DEF CreateJob, CrashUpload, PutSource, EnqueueParseJob, CleanupSource,
              LoadEnqueueFailure, RefreshJob
<1>4. QED BY <1>1, <1>2, <1>3

(* the writes of a worker *)
LEMMA WorkerWrites ==
  ASSUME StatusInv, WritesAcknowledged, NEW w \in Workers,
         RunOnce(w) \/ CrashWorker(w) \/ RestartWorker(w)
  PROVE  \/ jobRow' = jobRow
         \/ /\ worker[w].pc = "startCommit" /\ worker'[w].pc = "started"
            /\ worker'[w].job = worker[w].job /\ document' = document
            /\ jobRow' = [jobRow EXCEPT ![worker[w].job] = ProcessingRow]
         \/ /\ worker[w].pc = "completeCommit" /\ worker'[w].job = NoJob
            /\ document' = document /\ worker[w].doc \in Docs
            /\ document[worker[w].doc] # NoJob
            /\ jobRow' = [jobRow EXCEPT ![worker[w].job] =
                            CompletedRow(ProcessingRow, worker[w].doc)]
         \/ /\ worker[w].pc = "failCommit" /\ worker'[w].job = NoJob /\ document' = document
            /\ jobRow' = [jobRow EXCEPT ![worker[w].job] = FailedRow(ProcessingRow)]
<1>0. /\ worker \in [Workers -> Worker] /\ jobRow \in [Jobs -> Row] /\ Typed
  BY DEF StatusInv, DocumentInv, HolderInv, Typed, TypeOK
<1>1. CASE CommitStart(w)
  <2>1. /\ worker[w].pc = "startCommit" /\ worker[w].seen = QueuedRow
        /\ jobRow[worker[w].job] = QueuedRow
    BY <1>1 DEF CommitStart, WorkerAt, StatusInv, WorkerRow
  <2>2. Flush(QueuedRow, QueuedRow, StartedRow(QueuedRow)) = ProcessingRow
    BY RowValues, FlushFresh DEF ProcessingRow
  <2>3. worker[w].job \in Jobs
    BY <1>0, <2>1, JobInHand DEF Free
  <2>4. QED
    BY <1>0, <1>1, <2>1, <2>2, <2>3
    DEF CommitStart, RaisesWith, WritesAcknowledged, Worker
<1>2. CASE CommitComplete(w)
  <2>1. /\ worker[w].pc = "completeCommit" /\ worker[w].seen = ProcessingRow
        /\ jobRow[worker[w].job] = ProcessingRow /\ worker[w].doc \in Docs
    BY <1>0, <1>2
    DEF CommitComplete, WorkerAt, StatusInv, WorkerRow, InProcess, WorkerPcs, Typed,
        WorkerShape, HasDoc
  <2>2. Flush(ProcessingRow, ProcessingRow, CompletedRow(ProcessingRow, worker[w].doc))
          = CompletedRow(ProcessingRow, worker[w].doc)
    BY <2>1, RowValues, FlushFresh
  <2>3. worker[w].job \in Jobs
    BY <1>0, <2>1, JobInHand DEF Free
  <2>4. QED
    BY <1>0, <1>2, <2>1, <2>2, <2>3
    DEF CommitComplete, RaisesWith, WritesAcknowledged, Finish, FreshWorker
<1>3. CASE CommitFail(w)
  <2>1. /\ worker[w].pc = "failCommit" /\ worker[w].seen = ProcessingRow
        /\ jobRow[worker[w].job] = ProcessingRow
    BY <1>3 DEF CommitFail, WorkerAt, StatusInv, WorkerRow, InProcess, WorkerPcs
  <2>2. Flush(ProcessingRow, ProcessingRow, FailedRow(ProcessingRow)) = FailedRow(ProcessingRow)
    BY RowValues, FlushFresh
  <2>3. worker[w].job \in Jobs
    BY <1>0, <2>1, JobInHand DEF Free
  <2>4. QED
    BY <1>0, <1>3, <2>1, <2>2, <2>3
    DEF CommitFail, RaisesWith, WritesAcknowledged, Finish, FreshWorker
<1>4. CASE jobRow' = jobRow
  BY <1>4
<1>5. QED
  BY <1>1, <1>2, <1>3, <1>4
  DEF RunOnce, DequeueParseJob, LoadStart, RefreshStarted, FetchSource, ParseSource,
      PutMarkdown, PutJson, InsertDocument, CleanResult, RefreshDocument, LoadComplete,
      LoadFail, CrashWorker, RestartWorker

LEMMA StatusUpload ==
  ASSUME StatusInv, WritesAcknowledged, NEW j \in Jobs, CreateJob(j) \/ CrashUpload(j)
  PROVE  RequestRow' /\ WorkerRow' /\ LinkedOnlyWhenSucceeded'
<1>0. /\ upload \in [Jobs -> Upload] /\ jobRow \in [Jobs -> Row] /\ Typed
      /\ NoJob \notin Jobs
  BY NullsDistinct DEF StatusInv, DocumentInv, HolderInv, Typed, TypeOK
<1>1. /\ worker' = worker
      /\ \A k \in Jobs \ {j} : /\ upload'[k] = upload[k] /\ jobRow'[k] = jobRow[k]
                               /\ Queued(k)' <=> Queued(k)
  BY <1>0, RequestElsewhere
<1>2. AtLarge(j) => jobRow' = jobRow
  <2>1. upload[j].pc \in {"stored", "markCommit"} => ~AtLarge(j)
    BY DEF StatusInv, DocumentInv, HolderInv, PushedOnce, NeverPushed, NotYetPushed, AtLarge
  <2>2. QED BY <2>1, RequestWrites
<1>3. WorkerRow'
  <2>1. ASSUME NEW w \in Workers, worker[w].pc \notin {"idle", "down"}
        PROVE  jobRow'[worker[w].job] = jobRow[worker[w].job]
    <3>1. worker[w].job \in Jobs
      BY <1>0, <2>1, JobInHand DEF Free
    <3>2. worker[w].job = j => AtLarge(j)
      BY DEF AtLarge
    <3>3. QED BY <1>1, <1>2, <3>1, <3>2
  <2>2. QED BY <1>1, <2>1 DEF StatusInv, WorkerRow, InProcess
<1>4. LinkedOnlyWhenSucceeded'
  BY <1>0, <1>1, RequestWrites, RowValues DEF StatusInv, LinkedOnlyWhenSucceeded
<1> DEFINE Tells(k) ==
      /\ upload[k].pc \in {"idle", "stored"} => jobRow[k] = NoRow
      /\ upload[k].pc \in {"persisted", "marking", "markCommit"} => jobRow[k] = QueuedRow
      /\ upload[k].pc = "markCommit" => upload[k].seen = QueuedRow
      /\ Queued(k) => jobRow[k] = QueuedRow
<1>5. Tells(j)
  BY DEF StatusInv, RequestRow
<1>6. Tells(j)'
  <2>1. CASE InsertJob(j)
    <3>1. queue' = queue /\ ~Queued(j)
      BY <2>1 DEF InsertJob, UploadAt, StatusInv, DocumentInv, HolderInv, PushedOnce,
                  NotYetPushed
    <3>2. \/ upload'[j].pc = "persisted" /\ jobRow'[j] = QueuedRow
          \/ upload'[j].pc = "cleanup"
      BY <1>0, <2>1 DEF InsertJob, UploadGo, Upload
    <3>3. QED BY <3>1, <3>2 DEF Queued
  <2>2. CASE EnqueueParseJob(j)
    <3>1. upload[j].pc = "persisted" /\ upload'[j].pc \in {"enqueued", "marking"}
      BY <1>0, <2>2
      DEF EnqueueParseJob, UploadAt, UploadGo, Upload, AfterEnqueueFailure
    <3>2. jobRow'[j] = QueuedRow
      BY <1>5, <2>2, <3>1 DEF EnqueueParseJob
    <3>3. QED BY <3>1, <3>2
  <2>3. CASE LoadEnqueueFailure(j)
    <3>1. /\ upload[j].pc = "marking" /\ queue' = queue /\ jobRow' = jobRow
          /\ \/ upload'[j].pc \in {"rejected", "errored"}
             \/ upload'[j].pc = "markCommit" /\ upload'[j].seen = jobRow[j]
      BY <1>0, <2>3 DEF LoadEnqueueFailure, UploadAt, UploadGo, Upload
    <3>2. QED BY <1>5, <3>1 DEF Queued
  <2>4. CASE CommitEnqueueFailure(j)
    <3>1. /\ queue' = queue /\ upload'[j].pc \in {"rejected", "errored"} /\ ~Queued(j)
      BY <1>0, <2>4
      DEF CommitEnqueueFailure, UploadAt, Upload, StatusInv, NeverPushed, AtLarge
    <3>2. QED BY <3>1 DEF Queued
  <2>5. CASE PutSource(j) \/ CleanupSource(j) \/ RefreshJob(j) \/ CrashUpload(j)
    <3>1. /\ queue' = queue /\ jobRow' = jobRow
          /\ \/ upload[j].pc = "idle" /\ upload'[j].pc = "stored"
             \/ upload'[j].pc \in {"cleanup", "rejected", "accepted", "errored", "crashed"}
      BY <1>0, <2>5
      DEF PutSource, CleanupSource, RefreshJob, CrashUpload, UploadAt, UploadGo, Upload
    <3>2. QED BY <1>5, <3>1 DEF Queued
  <2>6. QED BY <2>1, <2>2, <2>3, <2>4, <2>5 DEF CreateJob
<1>7. RequestRow'
  BY <1>1, <1>6 DEF StatusInv, RequestRow
<1>8. QED BY <1>3, <1>4, <1>7

(* the row of the job that a worker has in hand, step by step *)
LEMMA WorkerRowStep ==
  ASSUME StatusInv, WritesAcknowledged, NEW w \in Workers,
         RunOnce(w) \/ CrashWorker(w) \/ RestartWorker(w)
  PROVE  /\ worker'[w].pc \in {"starting", "startCommit"} =>
              jobRow'[worker'[w].job] = QueuedRow
         /\ worker'[w].pc = "startCommit" => worker'[w].seen = QueuedRow
         /\ worker'[w].pc \in InProcess => jobRow'[worker'[w].job] = ProcessingRow
         /\ worker'[w].pc \in {"completeCommit", "failCommit"} =>
              worker'[w].seen = ProcessingRow
<1> DEFINE W == /\ worker[w].pc \in {"starting", "startCommit"} =>
                     jobRow[worker[w].job] = QueuedRow
                /\ worker[w].pc = "startCommit" => worker[w].seen = QueuedRow
                /\ worker[w].pc \in InProcess => jobRow[worker[w].job] = ProcessingRow
                /\ worker[w].pc \in {"completeCommit", "failCommit"} =>
                     worker[w].seen = ProcessingRow
<1>0. /\ worker \in [Workers -> Worker] /\ jobRow \in [Jobs -> Row] /\ Typed
      /\ queue \in Seq(Jobs) /\ NoJob \notin Jobs
  BY NullsDistinct DEF StatusInv, DocumentInv, HolderInv, Typed, TypeOK
<1>1. W
  BY DEF StatusInv, WorkerRow
<1>2. CASE Ends(w)
  <2>1. worker'[w].pc \in {"idle", "down"}
    BY <1>0, <1>2 DEF Ends, Finish, Die, FreshWorker
  <2>2. QED BY <2>1 DEF InProcess
<1>3. CASE DequeueParseJob(w) /\ ~Ends(w)
  <2>1. CASE worker' = worker
    BY <1>1, <1>3, <2>1 DEF DequeueParseJob
  <2>2. CASE worker' # worker
    <3>1. /\ queue # <<>> /\ worker'[w].pc = "starting" /\ worker'[w].job = Head(queue)
          /\ jobRow' = jobRow
      BY <1>0, <1>3, <2>2 DEF DequeueParseJob, Ends, Worker
    <3>2. Head(queue) = queue[1] /\ 1 \in DOMAIN queue /\ Head(queue) \in Jobs
      BY <1>0, <3>1
    <3>3. jobRow[Head(queue)] = QueuedRow
      BY <3>2 DEF StatusInv, RequestRow, Queued
    <3>4. QED BY <3>1, <3>3 DEF InProcess
  <2>3. QED BY <2>1, <2>2
<1>4. CASE (LoadStart(w) \/ CommitStart(w)) /\ ~Ends(w)
  <2>1. CASE LoadStart(w)
    <3>1. /\ worker[w].pc = "starting" /\ worker'[w].pc = "startCommit" /\ jobRow' = jobRow
          /\ worker'[w].job = worker[w].job /\ worker'[w].seen = jobRow[worker[w].job]
      BY <1>0, <1>4, <2>1 DEF LoadStart, Ends, WorkerAt, Worker
    <3>2. QED BY <1>1, <3>1 DEF InProcess
  <2>2. CASE CommitStart(w)
    <3>1. /\ worker[w].pc = "startCommit" /\ worker'[w].pc = "started"
          /\ worker'[w].job = worker[w].job
          /\ jobRow' = [jobRow EXCEPT ![worker[w].job] =
                          Flush(@, worker[w].seen, StartedRow(worker[w].seen))]
      BY <1>0, <1>4, <2>2 DEF CommitStart, Ends, WorkerAt, Worker
    <3>2. worker[w].job \in Jobs
      BY <1>0, <3>1, JobInHand DEF Free
    <3>3. jobRow'[worker[w].job] = ProcessingRow
      BY <1>0, <1>1, <3>1, <3>2, FlushFresh, RowValues DEF ProcessingRow
    <3>4. QED BY <3>1, <3>3
  <2>3. QED BY <1>4, <2>1, <2>2
<1>5. CASE /\ ~Ends(w) /\ jobRow' = jobRow /\ worker'[w].job = worker[w].job
           /\ worker[w].pc \in InProcess
           /\ \/ worker'[w].pc \notin {"starting", "startCommit", "completeCommit", "failCommit"}
              \/ /\ worker'[w].pc \in {"completeCommit", "failCommit"}
                 /\ worker'[w].seen = jobRow[worker[w].job]
  BY <1>1, <1>5
<1>6. ASSUME ~Ends(w), ~DequeueParseJob(w), ~LoadStart(w), ~CommitStart(w)
      PROVE  /\ worker'[w].job = worker[w].job /\ worker[w].pc \in InProcess
             /\ \/ worker'[w].pc \notin {"starting", "startCommit", "completeCommit", "failCommit"}
                \/ /\ worker'[w].pc \in {"completeCommit", "failCommit"}
                   /\ worker'[w].seen = jobRow[worker[w].job]
  <2> USE <1>0, <1>6 DEF WorkerAt, WorkerGo, FailingStep, Ends, Worker, InProcess, WorkerPcs
  <2>1. CASE RefreshStarted(w) \/ FetchSource(w) \/ ParseSource(w)
    BY <2>1 DEF RefreshStarted, FetchSource, ParseSource
  <2>2. CASE PutMarkdown(w)
    <3>1. PICK d \in Docs : \/ worker' = [worker EXCEPT ![w].pc = "markdownStored", ![w].doc = d,
                                                       ![w].uploaded = {Markdown(d)}]
                          \/ worker' = [worker EXCEPT ![w].pc = "failing"]
      BY <2>2 DEF PutMarkdown, FreshDoc
    <3>2. worker'[w].pc \in {"markdownStored", "failing"} /\ worker'[w].job = worker[w].job
      BY <3>1
    <3>3. QED BY <2>2, <3>2 DEF PutMarkdown
  <2>3. CASE PutJson(w) \/ InsertDocument(w) \/ RefreshDocument(w)
    BY <2>3 DEF PutJson, InsertDocument, RefreshDocument
  <2>7. CASE CleanResult(w)
    <3>1. PICK key \in worker[w].uploaded, pc \in {"cleaning", "failing"} :
            worker' = [worker EXCEPT ![w].uploaded = worker[w].uploaded \ {key}, ![w].pc = pc]
      BY <2>7 DEF CleanResult
    <3>2. worker'[w].pc \in {"cleaning", "failing"} /\ worker'[w].job = worker[w].job
      BY <3>1
    <3>3. QED BY <2>7, <3>2 DEF CleanResult
  <2>4. CASE LoadComplete(w) \/ CommitComplete(w)
    BY <2>4 DEF LoadComplete, CommitComplete
  <2>5. CASE LoadFail(w) \/ CommitFail(w)
    BY <2>5 DEF LoadFail, CommitFail
  <2>6. QED BY <2>1, <2>2, <2>3, <2>4, <2>5, <2>7 DEF RunOnce, CrashWorker, RestartWorker
<1>7. ASSUME ~Ends(w), ~CommitStart(w) PROVE jobRow' = jobRow
  <2>1. CASE CommitComplete(w)
    BY <1>7, <2>1 DEF CommitComplete, RaisesWith, WritesAcknowledged, Ends
  <2>2. CASE CommitFail(w)
    BY <1>7, <2>2 DEF CommitFail, Ends
  <2>3. QED
    BY <1>7, <2>1, <2>2
    DEF RunOnce, DequeueParseJob, LoadStart, RefreshStarted, FetchSource, ParseSource,
        PutMarkdown, PutJson, InsertDocument, CleanResult, RefreshDocument, LoadComplete,
        LoadFail, CrashWorker, RestartWorker
<1>8. QED BY <1>2, <1>3, <1>4, <1>5, <1>6, <1>7

LEMMA StatusWorker ==
  ASSUME StatusInv, WritesAcknowledged, NEW w \in Workers,
         RunOnce(w) \/ CrashWorker(w) \/ RestartWorker(w)
  PROVE  RequestRow' /\ WorkerRow' /\ LinkedOnlyWhenSucceeded'
<1>0. /\ worker \in [Workers -> Worker] /\ jobRow \in [Jobs -> Row] /\ Typed /\ HolderInv
      /\ NoJob \notin Jobs
  BY NullsDistinct DEF StatusInv, DocumentInv, HolderInv, Typed, TypeOK
<1>1. /\ upload' = upload
      /\ \A v \in Workers \ {w} : worker'[v] = worker[v]
      /\ \A k \in Jobs : /\ Queued(k)' => Queued(k)
                         /\ k # worker[w].job => jobRow'[k] = jobRow[k]
  BY <1>0, WorkerElsewhere
<1>2. ASSUME NEW k \in Jobs, worker[w].job = k
      PROVE  /\ ~Queued(k)
             /\ upload[k].pc \notin {"idle", "stored", "persisted", "marking", "markCommit"}
  BY <1>0, <1>2
  DEF HolderInv, SingleHolder, PushedOnce, NotYetPushed, StatusInv, NeverPushed, AtLarge,
      Queued
<1>3. RequestRow'
  <2> SUFFICES ASSUME NEW k \in Jobs
               PROVE  /\ upload[k].pc \in {"idle", "stored"} => jobRow'[k] = NoRow
                      /\ upload[k].pc \in {"persisted", "marking", "markCommit"} =>
                           jobRow'[k] = QueuedRow
                      /\ upload[k].pc = "markCommit" => upload[k].seen = QueuedRow
                      /\ Queued(k)' => jobRow'[k] = QueuedRow
    BY <1>1 DEF RequestRow
  <2>1. QED BY <1>1, <1>2 DEF StatusInv, RequestRow
<1>4. WorkerRow'
  <2>1. ASSUME NEW v \in Workers \ {w}, worker[v].pc \notin {"idle", "down"}
        PROVE  jobRow'[worker[v].job] = jobRow[worker[v].job]
    <3>1. worker[v].job \in Jobs /\ worker[v].job # NoJob
      BY <1>0, <2>1, JobInHand DEF Free
    <3>2. worker[v].job # worker[w].job
      BY <1>0, <3>1 DEF HolderInv, SingleHolder
    <3>3. QED BY <1>1, <3>1, <3>2
  <2>2. QED BY <1>1, <2>1, WorkerRowStep DEF StatusInv, WorkerRow, InProcess
<1>5. LinkedOnlyWhenSucceeded'
  BY <1>0, <1>1, WorkerWrites, RowValues DEF StatusInv, LinkedOnlyWhenSucceeded
<1>6. QED BY <1>3, <1>4, <1>5

LEMMA StatusInit == Init => RequestRow /\ WorkerRow /\ LinkedOnlyWhenSucceeded
<1> SUFFICES ASSUME Init PROVE RequestRow /\ WorkerRow /\ LinkedOnlyWhenSucceeded
  OBVIOUS
<1>1. /\ \A j \in Jobs : upload[j].pc = "idle" /\ jobRow[j] = NoRow /\ ~Queued(j)
      /\ \A w \in Workers : worker[w].pc = "idle"
  BY DEF Init, FreshWorker, Queued
<1>2. QED
  BY <1>1, RowValues DEF RequestRow, WorkerRow, InProcess, LinkedOnlyWhenSucceeded

LEMMA StatusNext ==
  ASSUME WritesAcknowledged
  PROVE  StatusInv /\ [Next]_vars => StatusInv'
<1> SUFFICES ASSUME StatusInv, [Next]_vars PROVE StatusInv'
  OBVIOUS
<1>0. DocumentInv' /\ NeverPushed'
  <2>1. RejectedInv
    BY DEF StatusInv, DocumentInv, RejectedInv
  <2>2. QED
    BY <2>1, DocumentNext, RejectedNext
    DEF StatusInv, RejectedInv, WritesAcknowledged, PushesAcknowledged
<1>1. ASSUME NEW j \in Jobs, CreateJob(j) \/ CrashUpload(j) PROVE StatusInv'
  BY <1>0, <1>1, StatusUpload DEF StatusInv
<1>2. ASSUME NEW w \in Workers, RunOnce(w) \/ CrashWorker(w) \/ RestartWorker(w)
      PROVE  StatusInv'
  BY <1>0, <1>2, StatusWorker DEF StatusInv
<1>3. CASE UNCHANGED vars
  BY <1>0, <1>3
  DEF vars, StatusInv, RequestRow, WorkerRow, LinkedOnlyWhenSucceeded, Queued
<1>4. QED BY <1>1, <1>2, <1>3 DEF Next

LEMMA StatusStart == Init => StatusInv
BY TypeInit, HolderInit, DocumentInit, NeverPushedInit, StatusInit
DEF StatusInv, DocumentInv, HolderInv

(***************************************************************************)
(* documentId is null until the job has succeeded: with pushes and commits *)
(* acknowledged, no request or worker acts on a row that has moved on      *)
(* since it was read, however calls fail without effect, the storage fails *)
(* and processes stop.                                                     *)
(***************************************************************************)
THEOREM NullUntilSucceeded ==
  ASSUME WritesAcknowledged
  PROVE  Spec => []LinkedOnlyWhenSucceeded
<1>1. StatusInv => LinkedOnlyWhenSucceeded
  BY DEF StatusInv
<1>2. StatusInv /\ [Next]_vars => StatusInv'
  BY StatusNext
<1>3. QED BY StatusStart, <1>1, <1>2, PTL DEF Spec

-----------------------------------------------------------------------------
(***************************************************************************)
(* The life cycle, when moreover the database never fails                  *)
(***************************************************************************)
DatabaseUp == WritesAcknowledged /\ "db" \notin Refused

LEMMA PublishedUpload ==
  ASSUME LifecycleInv, DatabaseUp, NEW j \in Jobs, CreateJob(j) \/ CrashUpload(j)
  PROVE  PublishedInProcess'
<1>0. /\ Typed /\ StatusInv /\ jobRow \in [Jobs -> Row] /\ NoJob \notin Jobs
  BY NullsDistinct DEF LifecycleInv, StatusInv, DocumentInv, HolderInv, Typed, TypeOK
<1>1. /\ UNCHANGED <<worker, document>>
      /\ \A k \in Jobs \ {j} : jobRow'[k] = jobRow[k]
  BY <1>0, RequestElsewhere
<1>2. Published(j) => jobRow' = jobRow
  <2>1. Published(j) => upload[j].pc # "stored"
    BY <1>0 DEF StatusInv, DocumentInv, CreatedOnce, NotYetPushed, Published
  <2>2. Published(j) => upload[j].pc # "markCommit"
    BY <1>0, RowValues DEF LifecycleInv, PublishedInProcess, StatusInv, RequestRow
  <2>3. QED BY <1>0, <2>1, <2>2, RequestWrites DEF DatabaseUp
<1>3. \A k \in Jobs \cup {NoJob} : Published(k)' <=> Published(k)
  BY <1>1 DEF Published
<1>4. QED BY <1>1, <1>2, <1>3 DEF LifecycleInv, PublishedInProcess, Published

LEMMA PublishedWorker ==
  ASSUME LifecycleInv, DatabaseUp, NEW w \in Workers,
         RunOnce(w) \/ CrashWorker(w) \/ RestartWorker(w)
  PROVE  PublishedInProcess'
<1>0. /\ Typed /\ StatusInv /\ HolderInv /\ jobRow \in [Jobs -> Row] /\ NoJob \notin Jobs
      /\ worker \in [Workers -> Worker] /\ document \in [Docs -> Jobs \cup {NoJob}]
      /\ WritesAcknowledged
  BY NullsDistinct
  DEF LifecycleInv, StatusInv, DocumentInv, HolderInv, Typed, TypeOK, DatabaseUp
<1>1. /\ \A v \in Workers \ {w} : worker'[v] = worker[v]
      /\ \A k \in Jobs : k # worker[w].job => jobRow'[k] = jobRow[k]
  BY <1>0, WorkerElsewhere
<1> DEFINE j == worker[w].job
           d == worker[w].doc
           Failing == {"cleaning", "failing", "failCommit"}
<1>2. CASE InsertDocument(w)
  <2>1. /\ worker[w].pc = "resultStored" /\ d \in Docs /\ j \in Jobs
        /\ jobRow' = jobRow /\ worker'[w].pc = "inserted"
        /\ document' = [document EXCEPT ![d] = j]
    <3>1. worker[w].pc = "resultStored"
      BY <1>2 DEF InsertDocument, WorkerAt
    <3>2. d \in Docs /\ j \in Jobs
      BY <1>0, <3>1, JobInHand DEF Typed, WorkerShape, HasDoc, Free
    <3>3. QED
      BY <1>0, <1>2, <3>1, <3>2
      DEF InsertDocument, RaisesWith, WorkerGo, Worker, DatabaseUp, WritesAcknowledged
  <2>2. jobRow[j] = ProcessingRow
    BY <1>0, <2>1 DEF StatusInv, WorkerRow, InProcess, WorkerPcs
  <2>3. \A k \in Jobs : Published(k)' => Published(k) \/ k = j
    BY <1>0, <2>1 DEF Published
  <2>4. \A v \in Workers : worker'[v].pc \in Failing =>
           worker'[v] = worker[v] /\ worker[v].job \in Jobs /\ worker[v].job # j
    BY <1>0, <1>1, <2>1, JobInHand DEF HolderInv, SingleHolder, Free
  <2>5. QED
    BY <2>1, <2>2, <2>3, <2>4, RowValues DEF LifecycleInv, PublishedInProcess
<1>3. CASE ~InsertDocument(w)
  <2>1. document' = document
    BY <1>3
    DEF RunOnce, DequeueParseJob, LoadStart, CommitStart, RefreshStarted, FetchSource,
        ParseSource, PutMarkdown, PutJson, CleanResult, RefreshDocument, LoadComplete,
        CommitComplete, LoadFail, CommitFail, CrashWorker, RestartWorker
  <2>2. \A k : Published(k)' <=> Published(k)
    BY <2>1 DEF Published
  <2>3. worker[w].pc = "failCommit" => ~Published(j)
    BY DEF LifecycleInv, PublishedInProcess
  <2>4. \A k \in Jobs : Published(k) => jobRow'[k].status \in {"processing", "succeeded"}
    BY <1>0, <1>1, <2>3, WorkerWrites, RowValues DEF LifecycleInv, PublishedInProcess
  <2>5. worker'[w].pc \in Failing =>
          worker'[w].job = j /\ (worker[w].pc \in Failing \/ ~Published(j))
    <3> DEFINE Before == {"fetching", "parsing", "parsed", "markdownStored"}
    <3>1. worker[w].pc \in Before => ~Published(j)
      BY <1>0, JobInHand
      DEF Free, StatusInv, DocumentInv, CreatedOnce, PastCreating, Linking, Published
    <3>2. worker[w].pc \in Linking /\ document[d] = NoJob => ~Published(j)
      BY <1>0, JobInHand DEF StatusInv, DocumentInv, DocumentInHand, Linking, Free, Published
    <3>3. CASE PutMarkdown(w)
      <4>1. worker[w].pc = "parsed"
        BY <3>3 DEF PutMarkdown, WorkerAt
      <4>2. worker'[w].job = j
        BY <1>0, <3>3 DEF PutMarkdown, WorkerGo, Worker
      <4>3. QED BY <3>1, <4>1, <4>2
    <3>4. CASE Ends(w)
      BY <1>0, <3>4 DEF Ends, Finish, Die, FreshWorker
    <3> USE <1>0 DEF WorkerAt, WorkerGo, FailingStep, Ends, Worker, Linking, Fails,
                     DatabaseUp, WritesAcknowledged
    <3>5. CASE (DequeueParseJob(w) \/ LoadStart(w) \/ CommitStart(w)) /\ ~Ends(w)
      BY <3>5 DEF DequeueParseJob, LoadStart, CommitStart
    <3>6. CASE RefreshStarted(w) \/ FetchSource(w) \/ ParseSource(w)
      BY <3>1, <3>4, <3>6 DEF RefreshStarted, FetchSource, ParseSource
    <3>7. CASE PutJson(w)
      BY <3>1, <3>7 DEF PutJson
    <3>8. CASE CleanResult(w)
      BY <3>8 DEF CleanResult
    <3>9. CASE RefreshDocument(w) \/ LoadComplete(w)
      BY <3>2, <3>9 DEF RefreshDocument, RefreshFails, LoadComplete
    <3>10. CASE CommitComplete(w) /\ ~Ends(w)
      BY <3>2, <3>10 DEF CommitComplete, RaisesWith
    <3>11. CASE (LoadFail(w) \/ CommitFail(w)) /\ ~Ends(w)
      BY <3>11 DEF LoadFail, CommitFail
    <3>12. QED
      BY <1>3, <3>3, <3>4, <3>5, <3>6, <3>7, <3>8, <3>9, <3>10, <3>11
      DEF RunOnce, CrashWorker, RestartWorker
  <2>6. \A v \in Workers : worker'[v].pc \in Failing => ~Published(worker'[v].job)
    BY <1>1, <2>5 DEF LifecycleInv, PublishedInProcess
  <2>7. QED BY <2>2, <2>4, <2>6 DEF PublishedInProcess
<1>4. QED BY <1>2, <1>3

LEMMA LifecycleInvNext ==
  ASSUME DatabaseUp
  PROVE  LifecycleInv /\ [Next]_vars => LifecycleInv'
<1> SUFFICES ASSUME LifecycleInv, [Next]_vars PROVE LifecycleInv'
  OBVIOUS
<1>0. StatusInv'
  BY StatusNext DEF LifecycleInv, DatabaseUp
<1>1. ASSUME NEW j \in Jobs, CreateJob(j) \/ CrashUpload(j) PROVE LifecycleInv'
  BY <1>0, <1>1, PublishedUpload DEF LifecycleInv
<1>2. ASSUME NEW w \in Workers, RunOnce(w) \/ CrashWorker(w) \/ RestartWorker(w)
      PROVE  LifecycleInv'
  BY <1>0, <1>2, PublishedWorker DEF LifecycleInv
<1>3. CASE UNCHANGED vars
  BY <1>0, <1>3 DEF vars, LifecycleInv, PublishedInProcess, Published
<1>4. QED BY <1>1, <1>2, <1>3 DEF Next

LEMMA LifecycleStart == Init => LifecycleInv
<1> SUFFICES ASSUME Init PROVE PublishedInProcess
  BY StatusStart DEF LifecycleInv
<1>1. /\ \A j \in Jobs : ~Published(j)
      /\ \A w \in Workers : worker[w].pc = "idle"
  BY NullsDistinct DEF Init, FreshWorker, Published
<1>2. QED BY <1>1 DEF PublishedInProcess

(***************************************************************************)
(* A failed job created no document row, as long as the database answers:  *)
(* run_once reaches _fail_job after the commit of the document only        *)
(* through an error of the database.                                       *)
(***************************************************************************)
THEOREM FailedPublishesNothing ==
  ASSUME DatabaseUp
  PROVE  Spec => []FailedHasNoDocument
<1>1. LifecycleInv => FailedHasNoDocument
  <2> SUFFICES ASSUME LifecycleInv, NEW d \in Docs, document[d] # NoJob
               PROVE  jobRow[document[d]].status # "failed"
    BY DEF FailedHasNoDocument
  <2>1. document[d] \in Jobs /\ Published(document[d])
    BY DEF LifecycleInv, StatusInv, DocumentInv, HolderInv, Typed, TypeOK, Published
  <2>2. QED BY <2>1 DEF LifecycleInv, PublishedInProcess
<1>2. LifecycleInv /\ [Next]_vars => LifecycleInv'
  BY LifecycleInvNext
<1>3. QED BY LifecycleStart, <1>1, <1>2, PTL DEF Spec

-----------------------------------------------------------------------------
(***************************************************************************)
(* The pipeline implements the life cycle                                  *)
(***************************************************************************)
State == [j \in Jobs |-> LifecycleState(j)]

LEMMA StateOf ==
  ASSUME NEW j \in Jobs
  PROVE  /\ State[j] = LifecycleState(j)
         /\ jobRow[j].status = "absent" => LifecycleState(j) = "none"
         /\ jobRow[j].status = "queued" => LifecycleState(j) = "queued"
         /\ jobRow[j].status = "succeeded" => LifecycleState(j) = "succeeded"
         /\ jobRow[j].status = "failed" => LifecycleState(j) = "failed"
         /\ jobRow[j].status = "processing" =>
              LifecycleState(j) = IF Published(j) THEN "published" ELSE "processing"
BY DEF State, LifecycleState

LEMMA StateNext ==
  ASSUME NEW j \in Jobs
  PROVE  /\ State'[j] = LifecycleState(j)'
         /\ jobRow'[j].status = "absent" => LifecycleState(j)' = "none"
         /\ jobRow'[j].status = "queued" => LifecycleState(j)' = "queued"
         /\ jobRow'[j].status = "succeeded" => LifecycleState(j)' = "succeeded"
         /\ jobRow'[j].status = "failed" => LifecycleState(j)' = "failed"
         /\ jobRow'[j].status = "processing" =>
              LifecycleState(j)' = IF Published(j)' THEN "published" ELSE "processing"
BY DEF State, LifecycleState

LEMMA StateMove ==
  ASSUME NEW j \in Jobs, NEW to,
         \A k \in Jobs \ {j} : LifecycleState(k)' = LifecycleState(k),
         LifecycleState(j)' = to
  PROVE  State' = [State EXCEPT ![j] = to]
BY DEF State

LEMMA LifecycleUpload ==
  ASSUME LifecycleInv, DatabaseUp, NEW j \in Jobs, CreateJob(j) \/ CrashUpload(j)
  PROVE  Lifecycle!Submit(j) \/ Lifecycle!EnqueueFailed(j) \/ UNCHANGED State
<1>0. /\ StatusInv /\ Typed /\ WritesAcknowledged /\ jobRow \in [Jobs -> Row]
      /\ document' = document
  BY RequestElsewhere DEF LifecycleInv, StatusInv, DocumentInv, HolderInv, Typed, TypeOK, DatabaseUp
<1>1. \A k \in Jobs : jobRow'[k] = jobRow[k] => LifecycleState(k)' = LifecycleState(k)
  BY <1>0 DEF LifecycleState, Published
<1>2. CASE jobRow' = jobRow
  BY <1>1, <1>2 DEF State
<1>3. CASE upload[j].pc = "stored" /\ jobRow' = [jobRow EXCEPT ![j] = QueuedRow]
  <2>1. LifecycleState(j) = "none" /\ LifecycleState(j)' = "queued"
    BY <1>0, <1>3, RowValues, StateOf, StateNext DEF StatusInv, RequestRow
  <2>2. \A k \in Jobs \ {j} : LifecycleState(k)' = LifecycleState(k)
    BY <1>0, <1>1, <1>3
  <2>3. State[j] = "none" /\ State' = [State EXCEPT ![j] = "queued"]
    BY <2>1, <2>2, StateOf, StateMove
  <2>4. QED BY <2>3 DEF Lifecycle!Submit, Lifecycle!Move, State
<1>4. CASE /\ upload[j].pc = "markCommit"
           /\ jobRow' = [jobRow EXCEPT ![j] = EnqueueFailedRow(QueuedRow)]
  <2>1. LifecycleState(j) = "queued" /\ LifecycleState(j)' = "failed"
    BY <1>0, <1>4, RowValues, StateOf, StateNext DEF StatusInv, RequestRow
  <2>2. \A k \in Jobs \ {j} : LifecycleState(k)' = LifecycleState(k)
    BY <1>0, <1>1, <1>4
  <2>3. State[j] = "queued" /\ State' = [State EXCEPT ![j] = "failed"]
    BY <2>1, <2>2, StateOf, StateMove
  <2>4. QED BY <2>3 DEF Lifecycle!EnqueueFailed, Lifecycle!Move, State
<1>5. QED BY <1>0, <1>2, <1>3, <1>4, RequestWrites

LEMMA LifecycleWorker ==
  ASSUME LifecycleInv, DatabaseUp, NEW w \in Workers,
         RunOnce(w) \/ CrashWorker(w) \/ RestartWorker(w)
  PROVE  \/ UNCHANGED State
         \/ \E j \in Jobs : \/ Lifecycle!Start(j) \/ Lifecycle!Publish(j)
                            \/ Lifecycle!Succeed(j) \/ Lifecycle!Fail(j)
<1>a. PICK j, d : j = worker[w].job /\ d = worker[w].doc
  OBVIOUS
<1> USE <1>a
<1>0. /\ StatusInv /\ Typed /\ WritesAcknowledged /\ jobRow \in [Jobs -> Row]
      /\ document \in [Docs -> Jobs \cup {NoJob}] /\ NoJob \notin Jobs
  BY NullsDistinct DEF LifecycleInv, StatusInv, DocumentInv, HolderInv, Typed, TypeOK, DatabaseUp
<1>1. ASSUME document' = document
      PROVE  /\ \A k \in Jobs : jobRow'[k] = jobRow[k] => LifecycleState(k)' = LifecycleState(k)
             /\ \A k \in Jobs : Published(k)' <=> Published(k)
  BY <1>1 DEF LifecycleState, Published
<1>2. CASE InsertDocument(w)
  <2>1. /\ worker[w].pc = "resultStored" /\ d \in Docs /\ j \in Jobs
        /\ jobRow' = jobRow /\ document' = [document EXCEPT ![d] = j]
    <3>1. worker[w].pc = "resultStored"
      BY <1>2 DEF InsertDocument, WorkerAt
    <3>2. d \in Docs /\ j \in Jobs
      BY <1>0, <3>1, JobInHand DEF Typed, WorkerShape, HasDoc, Free
    <3>3. QED
      BY <1>0, <1>2, <3>1, <3>2
      DEF InsertDocument, RaisesWith, DatabaseUp, WritesAcknowledged
  <2>2. /\ jobRow[j] = ProcessingRow /\ document[d] = NoJob
        /\ \A e \in Docs : document[e] # j
    BY <1>0, <2>1
    DEF StatusInv, WorkerRow, InProcess, WorkerPcs, DocumentInv, DocumentInHand,
        CreatedOnce, Creating, PastCreating, Linking
  <2>3. ~Published(j) /\ Published(j)'
    BY <1>0, <2>1, <2>2 DEF Published
  <2>4. \A k \in Jobs \ {j} : Published(k)' <=> Published(k)
    BY <1>0, <2>1, <2>2 DEF Published
  <2>5. \A k \in Jobs \ {j} : LifecycleState(k)' = LifecycleState(k)
    BY <2>1, <2>4 DEF LifecycleState
  <2>6. LifecycleState(j) = "processing" /\ LifecycleState(j)' = "published"
    BY <2>1, <2>2, <2>3, RowValues, StateOf, StateNext
  <2>7. State[j] = "processing" /\ State' = [State EXCEPT ![j] = "published"]
    BY <2>1, <2>5, <2>6, StateOf, StateMove
  <2>8. QED BY <2>1, <2>7 DEF Lifecycle!Publish, Lifecycle!Move, State
<1>3. CASE jobRow' = jobRow /\ document' = document
  BY <1>1, <1>3 DEF State
<1>4. CASE /\ worker[w].pc = "startCommit" /\ document' = document
           /\ jobRow' = [jobRow EXCEPT ![j] = ProcessingRow]
  <2>1. /\ j \in Jobs /\ jobRow[j] = QueuedRow /\ ~Published(j)
    BY <1>0, <1>4, JobInHand
    DEF Free, StatusInv, WorkerRow, DocumentInv, CreatedOnce, PastCreating, Linking, Published
  <2>2. LifecycleState(j) = "queued" /\ LifecycleState(j)' = "processing"
    BY <1>0, <1>1, <1>4, <2>1, RowValues, StateOf, StateNext
  <2>3. \A k \in Jobs \ {j} : LifecycleState(k)' = LifecycleState(k)
    BY <1>0, <1>1, <1>4
  <2>4. State[j] = "queued" /\ State' = [State EXCEPT ![j] = "processing"]
    BY <2>1, <2>2, <2>3, StateOf, StateMove
  <2>5. QED BY <2>1, <2>4 DEF Lifecycle!Start, Lifecycle!Move, State
<1>5. CASE /\ worker[w].pc = "completeCommit" /\ document' = document /\ d \in Docs
           /\ document[d] # NoJob
           /\ jobRow' = [jobRow EXCEPT ![j] = CompletedRow(ProcessingRow, d)]
  <2>1. j \in Jobs /\ jobRow[j] = ProcessingRow /\ Published(j)
    BY <1>0, <1>5, JobInHand
    DEF Free, StatusInv, WorkerRow, InProcess, WorkerPcs, DocumentInv, DocumentInHand,
        Linking, Published
  <2>2. LifecycleState(j) = "published" /\ LifecycleState(j)' = "succeeded"
    BY <1>0, <1>5, <2>1, RowValues, StateOf, StateNext
  <2>3. \A k \in Jobs \ {j} : LifecycleState(k)' = LifecycleState(k)
    BY <1>0, <1>1, <1>5
  <2>4. State[j] = "published" /\ State' = [State EXCEPT ![j] = "succeeded"]
    BY <2>1, <2>2, <2>3, StateOf, StateMove
  <2>5. QED BY <2>1, <2>4 DEF Lifecycle!Succeed, Lifecycle!Move, State
<1>6. CASE /\ worker[w].pc = "failCommit" /\ document' = document
           /\ jobRow' = [jobRow EXCEPT ![j] = FailedRow(ProcessingRow)]
  <2>1. j \in Jobs /\ jobRow[j] = ProcessingRow /\ ~Published(j)
    BY <1>0, <1>6, JobInHand
    DEF Free, StatusInv, WorkerRow, InProcess, WorkerPcs, LifecycleInv, PublishedInProcess
  <2>2. LifecycleState(j) = "processing" /\ LifecycleState(j)' = "failed"
    BY <1>0, <1>6, <2>1, RowValues, StateOf, StateNext
  <2>3. \A k \in Jobs \ {j} : LifecycleState(k)' = LifecycleState(k)
    BY <1>0, <1>1, <1>6
  <2>4. State[j] = "processing" /\ State' = [State EXCEPT ![j] = "failed"]
    BY <2>1, <2>2, <2>3, StateOf, StateMove
  <2>5. QED BY <2>1, <2>4 DEF Lifecycle!Fail, Lifecycle!Move, State
<1>7. ~InsertDocument(w) => document' = document
  BY DEF RunOnce, DequeueParseJob, LoadStart, CommitStart, RefreshStarted, FetchSource,
         ParseSource, PutMarkdown, PutJson, CleanResult, RefreshDocument, LoadComplete,
         CommitComplete, LoadFail, CommitFail, CrashWorker, RestartWorker
<1>8. QED BY <1>0, <1>2, <1>3, <1>4, <1>5, <1>6, <1>7, WorkerWrites

(***************************************************************************)
(* As long as the database answers and a push that raises pushed nothing,  *)
(* every job goes through JobLifecycle's states and no others: picked up   *)
(* once, at most one document, succeeded exactly when it published one.    *)
(* No document is withdrawn: this module deletes none.                     *)
(***************************************************************************)
THEOREM FollowsLifecycle ==
  ASSUME DatabaseUp
  PROVE  Spec => ImplementsLifecycle
<1>1. Init => Lifecycle!Init
  <2> SUFFICES ASSUME Init PROVE Lifecycle!Init
    OBVIOUS
  <2>1. \A j \in Jobs : LifecycleState(j) = "none"
    BY RowValues, StateOf DEF Init
  <2>2. QED BY <2>1 DEF Lifecycle!Init
<1>2. LifecycleInv /\ [Next]_vars => [Lifecycle!Next]_State
  <2> SUFFICES ASSUME LifecycleInv, [Next]_vars PROVE [Lifecycle!Next]_State
    OBVIOUS
  <2>1. ASSUME NEW j \in Jobs, CreateJob(j) \/ CrashUpload(j)
        PROVE  Lifecycle!Next \/ UNCHANGED State
    BY <2>1, LifecycleUpload DEF Lifecycle!Next
  <2>2. ASSUME NEW w \in Workers, RunOnce(w) \/ CrashWorker(w) \/ RestartWorker(w)
        PROVE  Lifecycle!Next \/ UNCHANGED State
    BY <2>2, LifecycleWorker DEF Lifecycle!Next
  <2>3. CASE UNCHANGED vars
    BY <2>3 DEF vars, State, LifecycleState, Published
  <2>4. QED BY <2>1, <2>2, <2>3 DEF Next
<1>3. LifecycleInv /\ [Next]_vars => LifecycleInv'
  BY LifecycleInvNext
<1>4. LifecycleInv /\ [Next]_vars => [Lifecycle!Next]_([j \in Jobs |-> LifecycleState(j)])
  BY <1>2 DEF State
<1>5. QED BY LifecycleStart, <1>1, <1>3, <1>4, PTL
          DEF Spec, ImplementsLifecycle, Lifecycle!Spec

-----------------------------------------------------------------------------
(***************************************************************************)
(* The stored objects: which keys a step touches                           *)
(***************************************************************************)
StoringPcs == {"markdownStored", "resultStored", "cleaning"}

ResultOf(d) == {Markdown(d), Json(d)}

LEMMA KeysApart ==
  /\ \A j, k : Source(j) = Source(k) <=> j = k
  /\ \A j, d : Source(j) \notin ResultOf(d)
  /\ \A d, e : d # e => ResultOf(d) \cap ResultOf(e) = {}
  /\ \A d, e : Markdown(d) # Json(e)
  /\ \A d \in Docs : ResultOf(d) \subseteq ResultKeys
  /\ \A d : d \notin Docs => ResultOf(d) \cap ResultKeys = {}
  /\ \A j : Source(j) \notin ResultKeys
BY DEF Source, Markdown, Json, ResultOf, ResultKeys

LEMMA RequestObjects ==
  ASSUME NEW j \in Jobs, CreateJob(j) \/ CrashUpload(j)
  PROVE  \A d : /\ ResultOf(d) \cap objects' = ResultOf(d) \cap objects
                /\ ResultOf(d) \cap leaked' = ResultOf(d) \cap leaked
<1>1. /\ objects' \in {objects, objects \cup {Source(j)}, objects \ {Source(j)}}
      /\ leaked' = leaked \/ leaked' = leaked \cup ({Source(j)} \cap objects')
  BY DEF CreateJob, CrashUpload, PutSource, InsertJob, EnqueueParseJob, CleanupSource,
         LoadEnqueueFailure, CommitEnqueueFailure, RefreshJob, RaisesWith, Leak
<1>2. QED BY <1>1, KeysApart

(* a row is never taken back *)
LEMMA RowsStay ==
  ASSUME Typed, Next
  PROVE  \A k \in Jobs : jobRow[k].status # "absent" => jobRow'[k].status # "absent"
<1>0. jobRow \in [Jobs -> Row] /\ upload \in [Jobs -> Upload] /\ worker \in [Workers -> Worker]
  BY DEF Typed, TypeOK
<1>1. \A r \in Row : /\ EnqueueFailedRow(r).status # "absent"
                     /\ StartedRow(r).status # "absent" /\ FailedRow(r).status # "absent"
                     /\ \A d : CompletedRow(r, d).status # "absent"
  BY DEF EnqueueFailedRow, StartedRow, FailedRow, CompletedRow, Row
<1>2. ASSUME NEW j \in Jobs, CreateJob(j) \/ CrashUpload(j)
      PROVE  \A k \in Jobs : jobRow[k].status # "absent" => jobRow'[k].status # "absent"
  <2>1. CASE InsertJob(j)
    BY <1>0, <2>1, RowValues DEF InsertJob, RaisesWith
  <2>2. CASE CommitEnqueueFailure(j)
    <3>1. upload[j].seen \in Row
      BY <1>0 DEF Upload
    <3>2. QED
      BY <1>0, <1>1, <2>2, <3>1, FlushColumns DEF CommitEnqueueFailure, RaisesWith
  <2>3. CASE ~InsertJob(j) /\ ~CommitEnqueueFailure(j)
    BY <1>2, <2>3 DEF CreateJob, CrashUpload, PutSource, EnqueueParseJob, CleanupSource,
                      LoadEnqueueFailure, RefreshJob
  <2>4. QED BY <2>1, <2>2, <2>3
<1>3. ASSUME NEW w \in Workers, RunOnce(w) \/ CrashWorker(w) \/ RestartWorker(w)
      PROVE  \A k \in Jobs : jobRow[k].status # "absent" => jobRow'[k].status # "absent"
  <2>0. worker[w].seen \in Row
    BY <1>0 DEF Worker
  <2>1. CASE CommitStart(w)
    BY <1>0, <1>1, <2>0, <2>1, FlushColumns DEF CommitStart, RaisesWith
  <2>2. CASE CommitComplete(w)
    BY <1>0, <1>1, <2>0, <2>2, FlushColumns DEF CommitComplete, RaisesWith
  <2>3. CASE CommitFail(w)
    BY <1>0, <1>1, <2>0, <2>3, FlushColumns DEF CommitFail, RaisesWith
  <2>4. CASE jobRow' = jobRow
    BY <2>4
  <2>5. QED
    BY <1>3, <2>1, <2>2, <2>3, <2>4
    DEF RunOnce, DequeueParseJob, LoadStart, RefreshStarted, FetchSource, ParseSource,
        PutMarkdown, PutJson, InsertDocument, CleanResult, RefreshDocument, LoadComplete,
        LoadFail, CrashWorker, RestartWorker
<1>4. QED BY <1>2, <1>3 DEF Next

(* the steps of a worker that store nothing and delete nothing *)
LEMMA OtherWorkerSteps ==
  ASSUME Typed, NEW w \in Workers, RunOnce(w) \/ CrashWorker(w) \/ RestartWorker(w),
         ~PutMarkdown(w), ~PutJson(w), ~InsertDocument(w), ~CleanResult(w)
  PROVE  /\ objects' = objects /\ document' = document
         /\ worker'[w].pc \notin StoringPcs
         /\ \/ CrashWorker(w)
            \/ leaked' = leaked /\ worker[w].pc \notin StoringPcs
<1>0. worker \in [Workers -> Worker]
  BY DEF Typed, TypeOK
<1> USE DEF StoringPcs, WorkerAt, WorkerGo, Finish, Die, FreshWorker, Worker, FailingStep
<1>1. CASE DequeueParseJob(w) \/ LoadStart(w) \/ CommitStart(w)
  BY <1>0, <1>1 DEF DequeueParseJob, LoadStart, CommitStart
<1>2. CASE RefreshStarted(w) \/ FetchSource(w) \/ ParseSource(w) \/ RefreshDocument(w)
  BY <1>0, <1>2 DEF RefreshStarted, FetchSource, ParseSource, RefreshDocument
<1>3. CASE LoadComplete(w) \/ CommitComplete(w)
  BY <1>0, <1>3 DEF LoadComplete, CommitComplete
<1>4. CASE LoadFail(w) \/ CommitFail(w)
  BY <1>0, <1>4 DEF LoadFail, CommitFail
<1>5. CASE CrashWorker(w) \/ RestartWorker(w)
  BY <1>0, <1>5 DEF CrashWorker, RestartWorker
<1>6. QED BY <1>1, <1>2, <1>3, <1>4, <1>5 DEF RunOnce

-----------------------------------------------------------------------------
(***************************************************************************)
(* Rows are backed by objects, when commits are acknowledged               *)
(***************************************************************************)
CommitsAcknowledged == "db" \notin Unacknowledged

LEMMA RowPresentUpload ==
  ASSUME BackedInv, CommitsAcknowledged, NEW j \in Jobs, CreateJob(j) \/ CrashUpload(j)
  PROVE  RowPresent'
<1>0. /\ Typed /\ upload \in [Jobs -> Upload] /\ jobRow \in [Jobs -> Row]
      /\ document' = document
  BY RequestElsewhere DEF BackedInv, DocumentInv, HolderInv, Typed, TypeOK
<1> DEFINE Present(k) ==
             /\ upload[k].pc \in {"idle", "stored", "cleanup"} =>
                  jobRow[k].status = "absent" /\ ~AtLarge(k)
             /\ upload[k].pc \in {"persisted", "markCommit"} \/ AtLarge(k) \/ Published(k) =>
                  jobRow[k].status # "absent"
             /\ upload[k].pc = "stored" \/ jobRow[k].status # "absent" => Source(k) \in objects
<1>1. \A k \in Jobs : Present(k)
  BY DEF BackedInv, RowPresent
<1>2. \A k : Published(k)' <=> Published(k)
  BY <1>0 DEF Published
<1>3. ASSUME NEW k \in Jobs \ {j} PROVE Present(k)'
  BY <1>0, <1>1, <1>2, RequestElsewhere
<1>4. Present(j)'
  <2>1. jobRow[j].status # "absent" => jobRow'[j].status # "absent"
    BY <1>0, RowsStay DEF Next
  <2>2. CASE EnqueueParseJob(j)
    <3>1. /\ jobRow' = jobRow /\ objects' = objects /\ upload[j].pc = "persisted"
          /\ upload'[j].pc \in {"enqueued", "marking"}
      BY <1>0, <2>2 DEF EnqueueParseJob, UploadAt, UploadGo, Upload, AfterEnqueueFailure
    <3>2. QED BY <1>1, <3>1
  <2>3. CASE ~EnqueueParseJob(j)
    <3>1. queue' = queue /\ worker' = worker
      BY <2>3 DEF CreateJob, CrashUpload, PutSource, InsertJob, CleanupSource,
                  LoadEnqueueFailure, CommitEnqueueFailure, RefreshJob
    <3>2. AtLarge(j)' <=> AtLarge(j)
      BY <3>1 DEF AtLarge, Queued
    <3>3. CASE PutSource(j)
      <4>1. /\ jobRow' = jobRow /\ upload[j].pc = "idle"
            /\ \/ upload'[j].pc = "stored" /\ Source(j) \in objects'
               \/ upload'[j].pc = "cleanup"
        BY <1>0, <3>3 DEF PutSource, UploadAt, UploadGo, Upload
      <4>2. QED BY <1>1, <1>2, <3>2, <4>1
    <3>4. CASE InsertJob(j)
      <4>1. /\ objects' = objects /\ upload[j].pc = "stored"
            /\ \/ upload'[j].pc = "persisted" /\ jobRow'[j].status = "queued"
               \/ upload'[j].pc = "cleanup" /\ jobRow' = jobRow
        BY <1>0, <3>4, RowValues
        DEF InsertJob, RaisesWith, CommitsAcknowledged, UploadAt, UploadGo, Upload
      <4>2. QED BY <1>1, <1>2, <3>2, <4>1
    <3>5. CASE CleanupSource(j)
      <4>1. jobRow' = jobRow /\ upload[j].pc = "cleanup" /\ upload'[j].pc = "rejected"
        BY <1>0, <3>5 DEF CleanupSource, UploadAt, UploadGo, Upload
      <4>2. QED BY <1>1, <1>2, <3>2, <4>1
    <3>6. CASE LoadEnqueueFailure(j)
      <4>1. /\ jobRow' = jobRow /\ objects' = objects
            /\ \/ upload'[j].pc \in {"rejected", "errored"}
               \/ upload'[j].pc = "markCommit" /\ jobRow[j].status # "absent"
        BY <1>0, <3>6 DEF LoadEnqueueFailure, UploadAt, UploadGo, Upload
      <4>2. QED BY <1>1, <1>2, <3>2, <4>1
    <3>7. CASE CommitEnqueueFailure(j)
      <4>1. /\ objects' = objects /\ upload[j].pc = "markCommit"
            /\ upload'[j].pc \in {"rejected", "errored"}
        BY <1>0, <3>7 DEF CommitEnqueueFailure, UploadAt, Upload
      <4>2. QED BY <1>1, <1>2, <2>1, <3>2, <4>1
    <3>8. CASE RefreshJob(j) \/ CrashUpload(j)
      <4>1. /\ jobRow' = jobRow /\ objects' = objects
            /\ upload'[j].pc \in {"accepted", "errored", "crashed"}
        BY <1>0, <3>8 DEF RefreshJob, CrashUpload, UploadAt, UploadGo, Upload
      <4>2. QED BY <1>1, <1>2, <3>2, <4>1
    <3>9. QED BY <2>3, <3>3, <3>4, <3>5, <3>6, <3>7, <3>8 DEF CreateJob
  <2>4. QED BY <2>2, <2>3
<1>5. QED BY <1>3, <1>4 DEF RowPresent

LEMMA ResultKeptUpload ==
  ASSUME BackedInv, NEW j \in Jobs, CreateJob(j) \/ CrashUpload(j)
  PROVE  ResultKept'
<1>1. worker' = worker /\ document' = document
  BY RequestElsewhere DEF BackedInv, DocumentInv, HolderInv
<1>2. \A d : /\ Markdown(d) \in objects' <=> Markdown(d) \in objects
             /\ Json(d) \in objects' <=> Json(d) \in objects
  <2>1. \A d : ResultOf(d) \cap objects' = ResultOf(d) \cap objects
    BY RequestObjects
  <2>2. \A d : Markdown(d) \in ResultOf(d) /\ Json(d) \in ResultOf(d)
    BY DEF ResultOf
  <2>3. QED BY <2>1, <2>2
<1>3. QED BY <1>1, <1>2 DEF BackedInv, ResultKept

(* the keys a worker's step adds or takes away are of its document *)
LEMMA WorkerObjects ==
  ASSUME Typed, NEW w \in Workers, RunOnce(w) \/ CrashWorker(w) \/ RestartWorker(w)
  PROVE  \A j : /\ Source(j) \in objects' <=> Source(j) \in objects
                /\ Source(j) \in leaked' <=> Source(j) \in leaked
<1>0. worker \in [Workers -> Worker]
  BY DEF Typed, TypeOK
<1>1. CASE PutMarkdown(w)
  BY <1>1, KeysApart DEF PutMarkdown, RaisesWith, Leak, ResultOf
<1>2. CASE PutJson(w)
  BY <1>2, KeysApart DEF PutJson, RaisesWith, Leak, ResultOf
<1>3. CASE CleanResult(w)
  BY <1>0, <1>3, KeysApart DEF CleanResult, Leak, Worker
<1>4. CASE InsertDocument(w)
  BY <1>4 DEF InsertDocument
<1>5. CASE CrashWorker(w)
  BY <1>5, KeysApart DEF CrashWorker, Leak
<1>6. CASE ~PutMarkdown(w) /\ ~PutJson(w) /\ ~InsertDocument(w) /\ ~CleanResult(w)
  BY <1>5, <1>6, OtherWorkerSteps
<1>7. QED BY <1>1, <1>2, <1>3, <1>4, <1>6

LEMMA RowPresentWorker ==
  ASSUME BackedInv, NEW w \in Workers, RunOnce(w) \/ CrashWorker(w) \/ RestartWorker(w)
  PROVE  RowPresent'
<1>0. /\ Typed /\ HolderInv /\ worker \in [Workers -> Worker] /\ upload' = upload
      /\ \A k \in Jobs : /\ AtLarge(k)' => AtLarge(k)
                         /\ k # worker[w].job => jobRow'[k] = jobRow[k]
  BY WorkerElsewhere DEF BackedInv, DocumentInv, HolderInv, Typed, TypeOK
<1>1. \A k \in Jobs : k = worker[w].job => AtLarge(k)
  BY DEF AtLarge
<1>2. \A k \in Jobs : Published(k)' => Published(k) \/ k = worker[w].job
  <2>1. CASE InsertDocument(w)
    BY <2>1, <1>0 DEF InsertDocument, RaisesWith, Published, Typed, TypeOK
  <2>2. CASE ~InsertDocument(w)
    <3>1. document' = document
      BY <2>2 DEF RunOnce, DequeueParseJob, LoadStart, CommitStart, RefreshStarted,
         FetchSource, ParseSource, PutMarkdown, PutJson, CleanResult, RefreshDocument,
         LoadComplete, CommitComplete, LoadFail, CommitFail, CrashWorker, RestartWorker
    <3>2. QED BY <3>1 DEF Published
  <2>3. QED BY <2>1, <2>2
<1>3. \A k \in Jobs : jobRow[k].status # "absent" => jobRow'[k].status # "absent"
  BY <1>0, RowsStay DEF Next
<1>4. \A k \in Jobs : Source(k) \in objects' <=> Source(k) \in objects
  BY <1>0, WorkerObjects
<1>5. \A k \in Jobs : jobRow'[k].status # "absent" => jobRow[k].status # "absent"
  BY <1>0, <1>1 DEF BackedInv, RowPresent
<1>6. QED BY <1>0, <1>1, <1>2, <1>3, <1>4, <1>5 DEF BackedInv, RowPresent

LEMMA ResultKeptWorker ==
  ASSUME BackedInv, CommitsAcknowledged, NEW w \in Workers,
         RunOnce(w) \/ CrashWorker(w) \/ RestartWorker(w)
  PROVE  ResultKept'
<1>a. PICK d, j : d = worker[w].doc /\ j = worker[w].job
  OBVIOUS
<1> USE <1>a
<1> DEFINE Kept(v) ==
             /\ worker[v].pc \in {"markdownStored", "resultStored"} =>
                  Markdown(worker[v].doc) \in objects
             /\ worker[v].pc = "resultStored" => Json(worker[v].doc) \in objects
             /\ worker[v].pc = "cleaning" =>
                  worker[v].doc \in Docs /\ document[worker[v].doc] = NoJob
             /\ worker[v].pc \in StoringPcs => worker[v].uploaded \subseteq ResultOf(worker[v].doc)
           Backed(e) == document[e] # NoJob => ResultOf(e) \subseteq objects
<1>0. /\ Typed /\ worker \in [Workers -> Worker] /\ document \in [Docs -> Jobs \cup {NoJob}]
      /\ NoJob \notin Jobs /\ NoDoc \notin Docs
  BY NullsDistinct DEF BackedInv, DocumentInv, HolderInv, Typed, TypeOK
<1>1. /\ \A v \in Workers : Kept(v)
      /\ \A e \in Docs : Backed(e)
  BY DEF BackedInv, ResultKept, ResultOf, StoringPcs
<1>2. SUFFICES /\ \A v \in Workers : Kept(v)'
               /\ \A e \in Docs : Backed(e)'
  BY DEF ResultKept, ResultOf, StoringPcs
<1>3. \A v \in Workers \ {w} : worker'[v] = worker[v]
  BY WorkerElsewhere DEF BackedInv, DocumentInv
<1>4. \A v \in Workers : worker[v].pc \in StoringPcs => worker[v].doc \in Docs
  BY <1>0, <1>1 DEF Typed, WorkerShape, HasDoc, StoringPcs
<1>5. \A v \in Workers \ {w} : worker[v].pc \in StoringPcs => worker[v].doc # d
  BY <1>0, <1>4 DEF BackedInv, DocumentInv, IdsDrawnOnce
<1>6. \A e : Markdown(e) \in ResultOf(e) /\ Json(e) \in ResultOf(e)
  BY DEF ResultOf
<1>7. CASE PutMarkdown(w) \/ PutJson(w)
  <2>1. document' = document /\ objects \subseteq objects'
    BY <1>7 DEF PutMarkdown, PutJson, RaisesWith
  <2>2. \A v \in Workers \ {w} : Kept(v)'
    BY <1>1, <1>3, <2>1
  <2>3. CASE PutMarkdown(w)
    <3>1. PICK e \in Docs :
            \/ /\ objects' = objects \cup {Markdown(e)} /\ worker'[w].pc = "markdownStored"
               /\ worker'[w].doc = e /\ worker'[w].uploaded = {Markdown(e)}
            \/ worker'[w].pc = "failing"
      BY <1>0, <2>3 DEF PutMarkdown, FreshDoc, WorkerGo, FailingStep, Worker
    <3>2. Kept(w)'
      BY <1>6, <3>1 DEF StoringPcs
    <3>3. QED BY <1>1, <2>1, <2>2, <3>2
  <2>4. CASE PutJson(w)
    <3>1. worker[w].pc = "markdownStored" /\ worker'[w].doc = d
      BY <1>0, <2>4 DEF PutJson, WorkerAt, WorkerGo, Worker
    <3>2. \/ /\ objects' = objects \cup {Json(d)} /\ worker'[w].pc = "resultStored"
             /\ worker'[w].uploaded = worker[w].uploaded \cup {Json(d)}
          \/ worker'[w].pc = "cleaning" /\ worker'[w].uploaded = worker[w].uploaded
      BY <1>0, <2>4 DEF PutJson, WorkerGo, Recorded, Worker
    <3>3. document[d] = NoJob
      BY <3>1 DEF BackedInv, DocumentInv, DocumentInHand, Creating
    <3>4. Kept(w)'
      BY <1>1, <1>4, <1>6, <2>1, <3>1, <3>2, <3>3 DEF StoringPcs
    <3>5. QED BY <1>1, <2>1, <2>2, <3>4
  <2>5. QED BY <1>7, <2>3, <2>4
<1>8. CASE InsertDocument(w)
  <2>1. worker[w].pc = "resultStored" /\ worker'[w].doc = d /\ objects' = objects
    BY <1>0, <1>8 DEF InsertDocument, WorkerAt, WorkerGo, Worker
  <2>2. \/ document' = [document EXCEPT ![d] = j] /\ worker'[w].pc = "inserted"
        \/ /\ document' = document /\ worker'[w].pc = "cleaning"
           /\ worker'[w].uploaded = worker[w].uploaded
    BY <1>0, <1>8 DEF InsertDocument, WorkerGo, RaisesWith, CommitsAcknowledged, Worker
  <2>3. d \in Docs /\ document[d] = NoJob /\ ResultOf(d) \subseteq objects
    BY <1>1, <1>4, <2>1
    DEF BackedInv, DocumentInv, DocumentInHand, Creating, StoringPcs, ResultOf
  <2>4. \A e \in Docs : Backed(e)'
    BY <1>0, <1>1, <2>1, <2>2, <2>3
  <2>5. \A v \in Workers \ {w} : Kept(v)'
    <3> SUFFICES ASSUME NEW v \in Workers \ {w} PROVE Kept(v)'
      OBVIOUS
    <3>1. worker[v].pc = "cleaning" => document'[worker[v].doc] = document[worker[v].doc]
      BY <1>0, <1>4, <1>5, <2>2, <2>3 DEF StoringPcs
    <3>2. QED BY <1>1, <1>3, <2>1, <3>1
  <2>6. Kept(w)'
    BY <1>1, <2>1, <2>2, <2>3 DEF StoringPcs
  <2>7. QED BY <2>4, <2>5, <2>6
<1>9. CASE CleanResult(w)
  <2>1. worker[w].pc = "cleaning" /\ document' = document
    BY <1>9 DEF CleanResult, WorkerAt
  <2>2. PICK key \in worker[w].uploaded :
          /\ objects \ {key} \subseteq objects'
          /\ worker'[w].doc = d /\ worker'[w].uploaded \subseteq worker[w].uploaded
          /\ worker'[w].pc \in {"cleaning", "failing"}
    BY <1>0, <1>9 DEF CleanResult, Worker, WorkerAt, FailingStep
  <2>3. d \in Docs /\ document[d] = NoJob /\ key \in ResultOf(d)
    BY <1>1, <2>1, <2>2 DEF StoringPcs
  <2>4. \A e : e # d => (\A k \in ResultOf(e) : k \in objects => k \in objects')
    BY <2>2, <2>3, KeysApart
  <2>5. \A e \in Docs : Backed(e)'
    BY <1>1, <2>1, <2>3, <2>4
  <2>6. \A v \in Workers \ {w} : Kept(v)'
    BY <1>1, <1>3, <1>5, <1>6, <2>1, <2>4 DEF StoringPcs
  <2>7. Kept(w)'
    BY <1>1, <2>1, <2>2, <2>3 DEF StoringPcs
  <2>8. QED BY <2>5, <2>6, <2>7
<1>10. CASE ~PutMarkdown(w) /\ ~PutJson(w) /\ ~InsertDocument(w) /\ ~CleanResult(w)
  <2>1. objects' = objects /\ document' = document /\ worker'[w].pc \notin StoringPcs
    BY <1>0, <1>10, OtherWorkerSteps
  <2>2. \A v \in Workers \ {w} : Kept(v)'
    BY <1>1, <1>3, <2>1
  <2>3. Kept(w)'
    BY <2>1 DEF StoringPcs
  <2>4. QED BY <1>1, <2>1, <2>2, <2>3
<1>11. QED BY <1>7, <1>8, <1>9, <1>10

LEMMA BackedNext ==
  ASSUME CommitsAcknowledged
  PROVE  BackedInv /\ [Next]_vars => BackedInv'
<1> SUFFICES ASSUME BackedInv, [Next]_vars PROVE BackedInv'
  OBVIOUS
<1>0. DocumentInv'
  BY DocumentNext DEF BackedInv
<1>1. ASSUME NEW j \in Jobs, CreateJob(j) \/ CrashUpload(j) PROVE BackedInv'
  BY <1>0, <1>1, RowPresentUpload, ResultKeptUpload DEF BackedInv
<1>2. ASSUME NEW w \in Workers, RunOnce(w) \/ CrashWorker(w) \/ RestartWorker(w)
      PROVE  BackedInv'
  BY <1>0, <1>2, RowPresentWorker, ResultKeptWorker DEF BackedInv
<1>3. CASE UNCHANGED vars
  <2>1. RowPresent'
    BY <1>3 DEF vars, BackedInv, RowPresent, AtLarge, Queued, Published
  <2>2. ResultKept'
    BY <1>3 DEF vars, BackedInv, ResultKept
  <2>3. QED BY <1>0, <2>1, <2>2 DEF BackedInv
<1>4. QED BY <1>1, <1>2, <1>3 DEF Next

LEMMA BackedInit == Init => BackedInv
<1> SUFFICES ASSUME Init PROVE BackedInv
  OBVIOUS
<1>1. DocumentInv
  BY TypeInit, HolderInit, DocumentInit DEF DocumentInv, HolderInv
<1>2. /\ \A j \in Jobs : /\ upload[j].pc = "idle" /\ jobRow[j].status = "absent"
                         /\ ~AtLarge(j) /\ ~Published(j)
      /\ \A w \in Workers : worker[w].pc = "idle"
      /\ \A d \in Docs : document[d] = NoJob
  BY NullsDistinct DEF Init, FreshWorker, NoRow, AtLarge, Queued, Published
<1>3. RowPresent /\ ResultKept
  BY <1>2 DEF RowPresent, ResultKept
<1>4. QED BY <1>1, <1>3 DEF BackedInv

(***************************************************************************)
(* When a commit that raises has changed nothing, what a row names can be  *)
(* read: however storage and queue fail and whatever process stops, the    *)
(* compensation of create_job and of create_document_from_parse_result     *)
(* deletes no object that a committed row refers to.                       *)
(***************************************************************************)
THEOREM CompensationIsSafe ==
  ASSUME CommitsAcknowledged
  PROVE  Spec => []RowsBackedByObjects
<1>1. BackedInv => RowsBackedByObjects
  <2> SUFFICES ASSUME BackedInv PROVE RowsBackedByObjects
    OBVIOUS
  <2>1. \A j \in Jobs : jobRow[j].status # "absent" => Source(j) \in objects
    BY DEF BackedInv, RowPresent
  <2>2. ASSUME NEW d \in Docs, document[d] # NoJob
        PROVE  {Source(document[d]), Markdown(d), Json(d)} \subseteq objects
    <3>1. document[d] \in Jobs /\ Published(document[d])
      BY <2>2 DEF BackedInv, DocumentInv, HolderInv, Typed, TypeOK, Published
    <3>2. QED BY <2>1, <2>2, <3>1 DEF BackedInv, RowPresent, ResultKept
  <2>3. QED BY <2>1, <2>2 DEF RowsBackedByObjects
<1>2. BackedInv /\ [Next]_vars => BackedInv'
  BY BackedNext
<1>3. QED BY BackedInit, <1>1, <1>2, PTL DEF Spec

-----------------------------------------------------------------------------
(***************************************************************************)
(* Nothing is stored for nobody, under every fault                         *)
(***************************************************************************)
Present(d) == (objects \ leaked) \cap ResultOf(d)   \* not leaked, and of document d

LEMMA OrphanUpload ==
  ASSUME OrphanInv, NEW j \in Jobs, CreateJob(j) \/ CrashUpload(j)
  PROVE  OnTheList' /\ NoOrphanObjects'
<1>0. /\ Typed /\ upload \in [Jobs -> Upload] /\ jobRow \in [Jobs -> Row]
      /\ worker' = worker /\ document' = document
  BY RequestElsewhere DEF OrphanInv, DocumentInv, HolderInv, Typed, TypeOK
<1>1. \A d : Present(d)' = Present(d)
  <2>1. \A d : /\ ResultOf(d) \cap objects' = ResultOf(d) \cap objects
               /\ ResultOf(d) \cap leaked' = ResultOf(d) \cap leaked
    BY RequestObjects
  <2>2. QED BY <2>1 DEF Present, ResultOf, Markdown, Json
<1>2. OnTheList'
  BY <1>0, <1>1 DEF OrphanInv, OnTheList, Storing, Present, ResultOf
<1>3. \A d \in Docs : Present(d)' # {} => document'[d] # NoJob \/ \E w \in Workers : Storing(w, d)'
  BY <1>0, <1>1 DEF OrphanInv, NoOrphanObjects, Storing, Present, ResultOf
<1> DEFINE Owned(k) == Source(k) \in objects \ leaked =>
                         jobRow[k].status # "absent" \/ upload[k].pc \in {"stored", "cleanup"}
<1>4. Owned(j) /\ (jobRow[j].status # "absent" => jobRow'[j].status # "absent")
  BY <1>0, RowsStay DEF OrphanInv, NoOrphanObjects, Next
<1>5. Owned(j)'
  <2>1. CASE PutSource(j)
    BY <1>0, <2>1 DEF PutSource, UploadGo, Upload
  <2>2. CASE InsertJob(j)
    BY <1>0, <2>2, RowValues DEF InsertJob, UploadGo, Upload
  <2>3. CASE CleanupSource(j)
    BY <1>0, <2>3 DEF CleanupSource, Leak
  <2>4. CASE EnqueueParseJob(j) \/ LoadEnqueueFailure(j) \/ CommitEnqueueFailure(j)
             \/ RefreshJob(j)
    <3>1. upload[j].pc \notin {"stored", "cleanup"} /\ UNCHANGED <<objects, leaked>>
      BY <2>4 DEF EnqueueParseJob, LoadEnqueueFailure, CommitEnqueueFailure, RefreshJob, UploadAt
    <3>2. QED BY <1>4, <3>1
  <2>5. CASE CrashUpload(j)
    BY <2>5 DEF CrashUpload, Leak
  <2>6. QED BY <2>1, <2>2, <2>3, <2>4, <2>5 DEF CreateJob
<1>6. \A k \in Jobs \ {j} : Owned(k)'
  BY <1>0, RequestElsewhere DEF OrphanInv, NoOrphanObjects
<1>7. NoOrphanObjects'
  BY <1>3, <1>5, <1>6 DEF NoOrphanObjects, Present, ResultOf, Markdown, Json
<1>8. QED BY <1>2, <1>7

(* the source objects: a worker's step touches none *)
LEMMA SourcesOwned ==
  ASSUME OrphanInv, NEW w \in Workers, RunOnce(w) \/ CrashWorker(w) \/ RestartWorker(w)
  PROVE  \A j \in Jobs : Source(j) \in objects' \ leaked' =>
           jobRow'[j].status # "absent" \/ upload'[j].pc \in {"stored", "cleanup"}
<1>1. /\ upload' = upload
      /\ \A j : Source(j) \in objects' \ leaked' <=> Source(j) \in objects \ leaked
  BY WorkerElsewhere, WorkerObjects DEF OrphanInv, DocumentInv, HolderInv
<1>2. \A j \in Jobs : jobRow[j].status # "absent" => jobRow'[j].status # "absent"
  BY RowsStay DEF OrphanInv, DocumentInv, HolderInv, Next
<1>3. QED BY <1>1, <1>2 DEF OrphanInv, NoOrphanObjects

(* the result objects: what is there is on the list of who stores it *)
LEMMA ResultsOwned ==
  ASSUME OrphanInv, NEW w \in Workers, RunOnce(w) \/ CrashWorker(w) \/ RestartWorker(w)
  PROVE  /\ OnTheList'
         /\ \A d \in Docs : Present(d)' # {} => document'[d] # NoJob \/ \E v \in Workers : Storing(v, d)'
<1>a. PICK d, j : d = worker[w].doc /\ j = worker[w].job
  OBVIOUS
<1> USE <1>a
<1> DEFINE Listed(v, e) == Storing(v, e) => Present(e) \subseteq worker[v].uploaded
           Owned(e) == Present(e) # {} => document[e] # NoJob \/ \E v \in Workers : Storing(v, e)
<1>0. /\ Typed /\ worker \in [Workers -> Worker] /\ document \in [Docs -> Jobs \cup {NoJob}]
      /\ NoJob \notin Jobs /\ NoDoc \notin Docs
  BY NullsDistinct DEF OrphanInv, DocumentInv, HolderInv, Typed, TypeOK
<1>1. \A e \in Docs : Owned(e) /\ \A v \in Workers : Listed(v, e)
  BY DEF OrphanInv, OnTheList, NoOrphanObjects, Present, ResultOf
<1>2. SUFFICES \A e \in Docs : Owned(e)' /\ \A v \in Workers : Listed(v, e)'
  BY DEF OnTheList, Present, ResultOf
<1>3. \A v \in Workers \ {w} : worker'[v] = worker[v]
  BY WorkerElsewhere DEF OrphanInv, DocumentInv
<1>4. \A v \in Workers \ {w} : \A e : Storing(v, e)' <=> Storing(v, e)
  BY <1>3 DEF Storing
<1>5. \A v \in Workers : \A e \in Docs : Storing(v, e) => e \in issued
  BY <1>0 DEF OrphanInv, DocumentInv, IdsDrawnOnce, Storing
(* w goes on with its document e *)
<1>6. ASSUME NEW e \in Docs, Storing(w, e),
             Present(e)' \subseteq worker'[w].uploaded, Storing(w, e)' \/ document'[e] # NoJob,
             \A f \in Docs \ {e} : Present(f)' \subseteq Present(f),
             \A f \in Docs \ {e} : document'[f] = document[f],
             worker'[w].doc = e
      PROVE  \A f \in Docs : Owned(f)' /\ \A v \in Workers : Listed(v, f)'
  <2>1. \A v \in Workers \ {w} : ~Storing(v, e)
    BY <1>0, <1>6 DEF OrphanInv, DocumentInv, IdsDrawnOnce, Storing
  <2>2. \A f \in Docs \ {e} : ~Storing(w, f) /\ ~Storing(w, f)'
    BY <1>6 DEF Storing
  <2>3. ASSUME NEW f \in Docs \ {e} PROVE Owned(f)' /\ \A v \in Workers : Listed(v, f)'
    BY <1>1, <1>3, <1>4, <1>6, <2>2
  <2>4. Owned(e)' /\ \A v \in Workers : Listed(v, e)'
    BY <1>4, <1>6, <2>1
  <2>5. QED BY <2>3, <2>4
<1>7. CASE PutMarkdown(w)
  <2>1. document' = document /\ worker[w].pc = "parsed"
    BY <1>7 DEF PutMarkdown, WorkerAt
  <2>2. PICK e \in Docs \ issued :
          /\ \A f \in Docs \ {e} : Present(f)' = Present(f)
          /\ Present(e)' \subseteq Present(e) \cup {Markdown(e)}
          /\ \/ /\ worker'[w].pc = "markdownStored" /\ worker'[w].doc = e
                /\ worker'[w].uploaded = {Markdown(e)}
             \/ worker'[w].pc = "failing" /\ Markdown(e) \notin Present(e)'
    <3>1. PICK e \in Docs \ issued :
            /\ objects' \in {objects, objects \cup {Markdown(e)}}
            /\ \/ /\ worker'[w].pc = "markdownStored" /\ worker'[w].doc = e
                  /\ worker'[w].uploaded = {Markdown(e)} /\ leaked' = leaked
               \/ worker'[w].pc = "failing" /\ leaked' = leaked \cup ({Markdown(e)} \cap objects')
      BY <1>0, <1>7 DEF PutMarkdown, FreshDoc, RaisesWith, Leak, WorkerGo, FailingStep, Worker
    <3>2. \A f \in Docs \ {e} : Markdown(e) \notin ResultOf(f)
      BY DEF ResultOf, Markdown, Json
    <3>3. \A f \in Docs \ {e} : Present(f)' = Present(f)
      BY <3>1, <3>2 DEF Present, ResultOf, Markdown, Json
    <3>4. Present(e)' \subseteq Present(e) \cup {Markdown(e)}
      BY <3>1 DEF Present, ResultOf, Markdown, Json
    <3>5. worker'[w].pc = "failing" => Markdown(e) \notin Present(e)'
      BY <3>1 DEF Present
    <3>6. QED BY <3>1, <3>3, <3>4, <3>5
  <2>3. Present(e) = {}
    BY <1>1, <1>5 DEF OrphanInv, DocumentInv, IdsDrawnOnce
  <2>4. \A f \in Docs : ~Storing(w, f)
    BY <2>1 DEF Storing
  <2>5. \A v \in Workers : ~Storing(v, e)
    BY <1>5
  <2>6. ASSUME NEW f \in Docs \ {e} PROVE Owned(f)' /\ \A v \in Workers : Listed(v, f)'
    <3>1. ~Storing(w, f)'
      BY <2>2 DEF Storing
    <3>2. QED BY <1>1, <1>3, <1>4, <2>1, <2>2, <2>4, <3>1
  <2>7. Owned(e)' /\ \A v \in Workers : Listed(v, e)'
    <3>1. CASE worker'[w].pc = "markdownStored" /\ worker'[w].doc = e
      <4>1. Storing(w, e)'
        BY <3>1 DEF Storing
      <4>2. QED BY <1>4, <2>2, <2>3, <2>5, <3>1, <4>1
    <3>2. CASE worker'[w].pc = "failing" /\ Markdown(e) \notin Present(e)'
      <4>1. Present(e)' = {} /\ ~Storing(w, e)'
        BY <2>2, <2>3, <3>2 DEF Storing
      <4>2. QED BY <1>4, <2>5, <4>1
    <3>3. QED BY <2>2, <3>1, <3>2
  <2>8. QED BY <2>6, <2>7
<1>8. CASE PutJson(w)
  <2>1. /\ document' = document /\ worker[w].pc = "markdownStored" /\ d \in Docs
        /\ worker'[w].doc = d
    BY <1>0, <1>8 DEF PutJson, WorkerAt, WorkerGo, Worker, Typed, WorkerShape, HasDoc
  <2>2. /\ objects' \in {objects, objects \cup {Json(d)}}
        /\ \/ /\ worker'[w].pc = "resultStored" /\ leaked' = leaked
              /\ worker'[w].uploaded = worker[w].uploaded \cup {Json(d)}
           \/ /\ worker'[w].pc = "cleaning" /\ leaked' = leaked \cup ({Json(d)} \cap objects')
              /\ worker'[w].uploaded = worker[w].uploaded
    BY <1>0, <1>8 DEF PutJson, RaisesWith, Leak, WorkerGo, Recorded, Worker
  <2>3. Storing(w, d) /\ Storing(w, d)'
    BY <2>1, <2>2 DEF Storing
  <2>4. \A f \in Docs \ {d} : Present(f)' = Present(f)
    BY <2>2 DEF Present, ResultOf, Markdown, Json
  <2>5. Present(d)' \subseteq worker'[w].uploaded
    <3>1. Present(d) \subseteq worker[w].uploaded
      BY <1>1, <2>1, <2>3
    <3>2. Present(d)' \subseteq Present(d) \cup {Json(d)}
      BY <2>2 DEF Present, ResultOf, Markdown, Json
    <3>3. worker'[w].pc = "cleaning" => Json(d) \notin Present(d)'
      BY <2>2 DEF Present
    <3>4. QED BY <2>2, <3>1, <3>2, <3>3
  <2>6. QED BY <1>6, <2>1, <2>3, <2>4, <2>5
<1>9. CASE InsertDocument(w)
  <2>1. /\ UNCHANGED <<objects, leaked>> /\ worker[w].pc = "resultStored" /\ d \in Docs
        /\ j \in Jobs /\ worker'[w].doc = d /\ worker'[w].uploaded = worker[w].uploaded
    <3>1. worker[w].pc = "resultStored"
      BY <1>9 DEF InsertDocument, WorkerAt
    <3>2. d \in Docs /\ j \in Jobs
      BY <1>0, <3>1, JobInHand DEF Typed, WorkerShape, HasDoc, Free
    <3>3. QED BY <1>0, <1>9, <3>1, <3>2 DEF InsertDocument, WorkerGo, Worker
  <2>2. \/ worker'[w].pc = "inserted" /\ document' = [document EXCEPT ![d] = j]
        \/ worker'[w].pc = "cleaning" /\ document' \in {document, [document EXCEPT ![d] = j]}
    BY <1>0, <1>9 DEF InsertDocument, RaisesWith, WorkerGo, Worker
  <2>3. \A f : Present(f)' = Present(f)
    BY <2>1 DEF Present, ResultOf, Markdown, Json
  <2>4. /\ Storing(w, d)
        /\ worker'[w].pc = "cleaning" => Storing(w, d)'
    BY <2>1 DEF Storing
  <2>5. worker'[w].pc = "inserted" => document'[d] # NoJob
    BY <1>0, <2>1, <2>2
  <2>6. \A f \in Docs \ {d} : document'[f] = document[f]
    BY <1>0, <2>2
  <2>7. Present(d)' \subseteq worker'[w].uploaded
    BY <1>1, <2>1, <2>3, <2>4
  <2>8. QED BY <1>6, <2>1, <2>2, <2>3, <2>4, <2>5, <2>6, <2>7
<1>10. CASE CleanResult(w)
  <2>1. document' = document /\ worker[w].pc = "cleaning"
    BY <1>10 DEF CleanResult, WorkerAt
  <2>2. PICK key \in worker[w].uploaded :
          /\ objects' \ leaked' \subseteq (objects \ leaked) \ {key}
          /\ worker'[w].doc = d /\ worker'[w].uploaded = worker[w].uploaded \ {key}
          /\ \/ worker'[w].pc = "cleaning"
             \/ worker[w].uploaded = {key} /\ worker'[w].pc = "failing"
    <3>1. PICK key \in worker[w].uploaded :
            /\ \/ objects' = objects \ {key} /\ leaked' = leaked
               \/ objects' = objects /\ Leak({key})
            /\ worker' = [worker EXCEPT ![w].uploaded = @ \ {key},
                            ![w].pc = IF worker[w].uploaded = {key} THEN FailingStep ELSE @]
      BY <1>10 DEF CleanResult
    <3>2. objects' \ leaked' \subseteq (objects \ leaked) \ {key}
      BY <3>1 DEF Leak
    <3>3. QED BY <1>0, <2>1, <3>1, <3>2 DEF Worker, FailingStep
  <2>3. \A f : Present(f)' \subseteq Present(f) \ {key}
    BY <2>2 DEF Present, ResultOf, Markdown, Json
  <2>4. \A f \in Docs : f = d <=> Storing(w, f)
    BY <2>1 DEF Storing
  <2>5. CASE d \notin Docs
    <3>1. \A f \in Docs : ~Storing(w, f) /\ ~Storing(w, f)'
      BY <2>2, <2>5 DEF Storing
    <3>2. QED BY <1>1, <1>3, <1>4, <2>1, <2>3, <3>1
  <2>6. CASE d \in Docs /\ worker'[w].pc = "cleaning"
    <3>1. Storing(w, d)'
      BY <2>2, <2>6 DEF Storing
    <3>2. Present(d)' \subseteq worker'[w].uploaded
      BY <1>1, <2>2, <2>3, <2>4, <2>6
    <3>3. QED BY <1>6, <2>1, <2>2, <2>3, <2>4, <2>6, <3>1, <3>2
  <2>7. CASE d \in Docs /\ worker[w].uploaded = {key} /\ worker'[w].pc = "failing"
    <3>1. Present(d)' = {}
      BY <1>1, <2>3, <2>4, <2>7
    <3>2. \A f \in Docs : ~Storing(w, f)'
      BY <2>7 DEF Storing
    <3>3. QED BY <1>1, <1>3, <1>4, <2>1, <2>3, <2>4, <3>1, <3>2
  <2>8. QED BY <2>2, <2>5, <2>6, <2>7
<1>11. CASE ~PutMarkdown(w) /\ ~PutJson(w) /\ ~InsertDocument(w) /\ ~CleanResult(w)
  <2>1. /\ objects' = objects /\ document' = document /\ worker'[w].pc \notin StoringPcs
        /\ CrashWorker(w) \/ (leaked' = leaked /\ worker[w].pc \notin StoringPcs)
    BY <1>0, <1>11, OtherWorkerSteps
  <2>2. \A f : ~Storing(w, f)'
    BY <2>1 DEF Storing, StoringPcs
  <2>3. CASE leaked' = leaked /\ worker[w].pc \notin StoringPcs
    <3>1. \A f : ~Storing(w, f) /\ Present(f)' = Present(f)
      BY <2>1, <2>3 DEF Storing, StoringPcs, Present, ResultOf, Markdown, Json
    <3>2. QED BY <1>1, <1>3, <1>4, <2>1, <2>2, <3>1
  <2>4. CASE CrashWorker(w)
    <3>1. leaked' = leaked \cup (ResultKeys \cap ResultOf(d) \cap objects')
      BY <2>4 DEF CrashWorker, Leak, ResultOf
    <3>2. \A f : Present(f)' \subseteq Present(f)
      BY <2>1, <3>1 DEF Present, ResultOf, Markdown, Json
    <3>3. d \in Docs => Present(d)' = {}
      <4>1. d \in Docs => ResultOf(d) \subseteq ResultKeys
        BY KeysApart
      <4>2. QED BY <3>1, <4>1 DEF Present, ResultOf, Markdown, Json
    <3>4. \A f \in Docs : Storing(w, f) => f = d
      BY DEF Storing
    <3>5. QED BY <1>1, <1>3, <1>4, <2>1, <2>2, <3>2, <3>3, <3>4
  <2>5. QED BY <2>1, <2>3, <2>4
<1>12. QED BY <1>7, <1>8, <1>9, <1>10, <1>11

LEMMA OrphanNext == OrphanInv /\ [Next]_vars => OrphanInv'
<1> SUFFICES ASSUME OrphanInv, [Next]_vars PROVE OrphanInv'
  OBVIOUS
<1>0. DocumentInv'
  BY DocumentNext DEF OrphanInv
<1>1. ASSUME NEW j \in Jobs, CreateJob(j) \/ CrashUpload(j) PROVE OrphanInv'
  BY <1>0, <1>1, OrphanUpload DEF OrphanInv
<1>2. ASSUME NEW w \in Workers, RunOnce(w) \/ CrashWorker(w) \/ RestartWorker(w)
      PROVE  OrphanInv'
  <2>1. NoOrphanObjects'
    BY <1>2, SourcesOwned, ResultsOwned
    DEF NoOrphanObjects, Present, ResultOf, Markdown, Json, Source
  <2>2. QED BY <1>0, <1>2, <2>1, ResultsOwned DEF OrphanInv
<1>3. CASE UNCHANGED vars
  BY <1>0, <1>3 DEF vars, OrphanInv, OnTheList, NoOrphanObjects, Storing
<1>4. QED BY <1>1, <1>2, <1>3 DEF Next

LEMMA OrphanInit == Init => OrphanInv
<1> SUFFICES ASSUME Init PROVE OrphanInv
  OBVIOUS
<1>1. DocumentInv
  BY TypeInit, HolderInit, DocumentInit DEF DocumentInv, HolderInv
<1>2. objects = {}
  BY DEF Init
<1>3. QED BY <1>1, <1>2 DEF OrphanInv, OnTheList, NoOrphanObjects

(***************************************************************************)
(* Whatever fails and whatever process stops, an object that is not leaked *)
(* by a cause outside the program has a row, or a request or a worker at   *)
(* work on it: every error path of create_job and of                       *)
(* create_document_from_parse_result that keeps running cleans up.         *)
(***************************************************************************)
THEOREM NothingStoredForNobody == Spec => []NoOrphanObjects
<1>1. OrphanInv => NoOrphanObjects
  BY DEF OrphanInv
<1>2. QED BY OrphanInit, OrphanNext, <1>1, PTL DEF Spec

-----------------------------------------------------------------------------
(***************************************************************************)
(* Nothing that goes on forgets an open job, under every fault             *)
(***************************************************************************)
Starting == {"starting", "startCommit"}
Marking  == {"marking", "markCommit"}
Ending   == {"completeCommit", "failCommit"}

Unstarted(j) == \/ upload[j].pc \in NotYetPushed
                \/ Queued(j)
                \/ \E w \in Workers : worker[w].job = j /\ worker[w].pc \in Starting

(* What start_job returns early for is not processing, and what the        *)
(* request's mark leaves out is written already.                           *)
RowInStep(j) ==
  /\ Unstarted(j) => jobRow[j].status # "processing"
  /\ upload[j].pc = "persisted" => jobRow[j].status = "queued"
  /\ upload[j].pc \in Marking /\ jobRow[j].status = "failed" => ~AtLarge(j)
  /\ upload[j].pc = "markCommit" /\ upload[j].seen.status = "failed" =>
       jobRow[j].status = "failed"

(* What a worker's last UPDATE leaves out is written already.              *)
EndSeen(w) ==
  worker[w].pc \in Ending /\ worker[w].seen.status \in Terminal => ~Open(worker[w].job)

HandsInv == /\ HolderInv
            /\ \A j \in Jobs : RowInStep(j)
            /\ \A w \in Workers : EndSeen(w)

LEMMA HandsStart == Init => HandsInv
<1> SUFFICES ASSUME Init PROVE HandsInv
  OBVIOUS
<1>1. HolderInv
  BY TypeInit, HolderInit DEF HolderInv
<1>2. ASSUME NEW j \in Jobs PROVE RowInStep(j)
  BY DEF Init, RowInStep, NoRow, Marking
<1>3. ASSUME NEW w \in Workers PROVE EndSeen(w)
  BY DEF Init, EndSeen, FreshWorker, Ending
<1>4. QED BY <1>1, <1>2, <1>3 DEF HandsInv

(* what a request writes to the status of its job *)
LEMMA RequestStatus ==
  ASSUME Typed, NEW j \in Jobs, CreateJob(j) \/ CrashUpload(j)
  PROVE  /\ jobRow'[j].status \in {jobRow[j].status, "queued", "failed"}
         /\ Open(j)' /\ ~Open(j) => upload[j].pc = "stored"
<1>0. jobRow \in [Jobs -> Row] /\ upload[j].seen \in Row
  BY DEF Typed, TypeOK, Upload
<1>1. CASE InsertJob(j)
  BY <1>0, <1>1 DEF InsertJob, RaisesWith, UploadAt, QueuedRow, NoRow
<1>2. CASE CommitEnqueueFailure(j)
  <2>1. EnqueueFailedRow(upload[j].seen).status = "failed"
    BY <1>0 DEF EnqueueFailedRow, Row
  <2>2. jobRow'[j].status \in {jobRow[j].status, "failed"}
    BY <1>0, <1>2, <2>1, FlushColumns DEF CommitEnqueueFailure, RaisesWith
  <2>3. QED BY <2>2 DEF Open
<1>3. CASE jobRow' = jobRow
  BY <1>3 DEF Open
<1>4. QED
  BY <1>1, <1>2, <1>3
  DEF CreateJob, CrashUpload, PutSource, EnqueueParseJob, CleanupSource,
      LoadEnqueueFailure, RefreshJob

(* what a worker writes to the status of its job, and where it goes then *)
LEMMA WorkerStatus ==
  ASSUME Typed, NEW w \in Workers, RunOnce(w) \/ CrashWorker(w) \/ RestartWorker(w),
         NEW k \in Jobs, jobRow'[k].status # jobRow[k].status
  PROVE  /\ k = worker[w].job
         /\ \/ /\ worker[w].pc = "startCommit" /\ jobRow'[k].status = "processing"
               /\ worker'[w].pc \notin Starting
            \/ worker[w].pc = "completeCommit" /\ jobRow'[k].status = "succeeded"
            \/ /\ worker[w].pc = "failCommit" /\ jobRow'[k].status = "failed"
               /\ worker'[w].job = NoJob
<1>0. jobRow \in [Jobs -> Row] /\ worker \in [Workers -> Worker]
  BY DEF Typed, TypeOK
<1> DEFINE seen == worker[w].seen
<1>1. /\ StartedRow(seen).status = "processing" /\ FailedRow(seen).status = "failed"
      /\ \A d : CompletedRow(seen, d).status = "succeeded"
  BY <1>0 DEF StartedRow, FailedRow, CompletedRow, Row, Worker
<1> HIDE DEF seen
<1>2. CASE CommitStart(w)
  <2>1. k = worker[w].job /\ jobRow'[k].status = "processing"
    BY <1>0, <1>1, <1>2, FlushColumns DEF CommitStart, RaisesWith, seen
  <2>2. worker'[w].pc \notin Starting
    BY <1>0, <1>2 DEF CommitStart, Die, FreshWorker, Starting, Worker
  <2>3. QED BY <1>2, <2>1, <2>2 DEF CommitStart, WorkerAt
<1>3. CASE CommitComplete(w)
  BY <1>0, <1>1, <1>3, FlushColumns DEF CommitComplete, RaisesWith, WorkerAt, seen
<1>4. CASE CommitFail(w)
  <2>1. k = worker[w].job /\ jobRow'[k].status = "failed"
    BY <1>0, <1>1, <1>4, FlushColumns DEF CommitFail, RaisesWith, seen
  <2>2. worker'[w].job = NoJob
    BY <1>0, <1>4 DEF CommitFail, Finish, Die, FreshWorker
  <2>3. QED BY <1>4, <2>1, <2>2 DEF CommitFail, WorkerAt
<1>5. CASE jobRow' = jobRow
  BY <1>5
<1>6. QED
  BY <1>2, <1>3, <1>4, <1>5
  DEF RunOnce, DequeueParseJob, LoadStart, RefreshStarted, FetchSource, ParseSource,
      PutMarkdown, PutJson, InsertDocument, CleanResult, RefreshDocument, LoadComplete,
      LoadFail, CrashWorker, RestartWorker

LEMMA HandsUpload ==
  ASSUME HandsInv, NEW j \in Jobs, CreateJob(j) \/ CrashUpload(j)
  PROVE  HandsInv'
<1>0. /\ Typed /\ HolderInv /\ upload \in [Jobs -> Upload] /\ jobRow \in [Jobs -> Row]
  BY DEF HandsInv, HolderInv, Typed, TypeOK
<1>1. HolderInv'
  BY HolderNext DEF HandsInv, Next
<1>2. /\ worker' = worker
      /\ \A k \in Jobs \ {j} : /\ upload'[k] = upload[k] /\ jobRow'[k] = jobRow[k]
                               /\ Queued(k)' <=> Queued(k)
                               /\ AtLarge(k)' <=> AtLarge(k)
  BY <1>0, RequestElsewhere
<1>3. ASSUME NEW k \in Jobs \ {j} PROVE RowInStep(k)'
  <2>1. RowInStep(k)
    BY DEF HandsInv
  <2>2. Unstarted(k)' <=> Unstarted(k)
    BY <1>2 DEF Unstarted
  <2>3. QED BY <1>2, <2>1, <2>2 DEF RowInStep
<1>4. RowInStep(j)'
  <2>0. RowInStep(j)
    BY DEF HandsInv
  <2>1. Unstarted(j)' => jobRow'[j].status # "processing"
    <3>1. /\ upload'[j].pc \in NotYetPushed => upload[j].pc \in NotYetPushed
          /\ queue' = queue \/ upload[j].pc \in NotYetPushed
      BY <1>0
      DEF CreateJob, CrashUpload, PutSource, InsertJob, EnqueueParseJob, CleanupSource,
          LoadEnqueueFailure, CommitEnqueueFailure, RefreshJob, UploadAt, UploadGo, Upload,
          NotYetPushed, AfterEnqueueFailure
    <3>2. Unstarted(j)' => Unstarted(j)
      BY <1>2, <3>1 DEF Unstarted, Queued
    <3>3. QED BY <1>0, <2>0, <3>2, RequestStatus DEF RowInStep
  <2>2. upload'[j].pc = "persisted" => jobRow'[j].status = "queued"
    BY <1>0
    DEF CreateJob, CrashUpload, PutSource, InsertJob, EnqueueParseJob, CleanupSource,
        LoadEnqueueFailure, CommitEnqueueFailure, RefreshJob, UploadAt, UploadGo, Upload,
        AfterEnqueueFailure, QueuedRow, NoRow
  <2>3. upload'[j].pc \in Marking /\ jobRow'[j].status = "failed" => ~AtLarge(j)'
    <3>1. CASE EnqueueParseJob(j)
      BY <1>0, <2>0, <3>1 DEF EnqueueParseJob, UploadAt, RowInStep
    <3>2. CASE LoadEnqueueFailure(j)
      <4>1. jobRow' = jobRow /\ queue' = queue /\ upload[j].pc \in Marking
        BY <3>2 DEF LoadEnqueueFailure, UploadAt, Marking
      <4>2. QED BY <1>2, <2>0, <4>1 DEF RowInStep, AtLarge, Queued
    <3>3. CASE ~EnqueueParseJob(j) /\ ~LoadEnqueueFailure(j)
      BY <1>0, <3>3
      DEF CreateJob, CrashUpload, PutSource, InsertJob, CleanupSource,
          CommitEnqueueFailure, RefreshJob, UploadAt, UploadGo, Upload, Marking
    <3>4. QED BY <3>1, <3>2, <3>3
  <2>4. upload'[j].pc = "markCommit" /\ upload'[j].seen.status = "failed" =>
          jobRow'[j].status = "failed"
    <3>1. CASE LoadEnqueueFailure(j)
      BY <1>0, <3>1 DEF LoadEnqueueFailure, UploadGo, Upload
    <3>2. CASE ~LoadEnqueueFailure(j)
      BY <1>0, <3>2
      DEF CreateJob, CrashUpload, PutSource, InsertJob, EnqueueParseJob, CleanupSource,
          CommitEnqueueFailure, RefreshJob, UploadAt, UploadGo, Upload, AfterEnqueueFailure
    <3>3. QED BY <3>1, <3>2
  <2>5. QED BY <2>1, <2>2, <2>3, <2>4 DEF RowInStep
<1>5. ASSUME NEW w \in Workers PROVE EndSeen(w)'
  <2>1. CASE worker[w].pc \in Ending
    <3>1. worker[w].job \in Jobs
      BY <1>0, <2>1, JobInHand DEF Ending, Free
    <3>2. worker[w].job = j /\ Open(j)' => Open(j)
      BY <1>0, RequestStatus DEF HolderInv, PushedOnce, NotYetPushed
    <3>3. Open(worker[w].job)' => Open(worker[w].job)
      BY <1>2, <3>1, <3>2 DEF Open
    <3>4. QED BY <1>2, <3>3 DEF HandsInv, EndSeen
  <2>2. QED BY <1>2, <2>1 DEF EndSeen
<1>6. QED BY <1>1, <1>3, <1>4, <1>5 DEF HandsInv

(* the steps between start_job and complete_job neither start nor end a job *)
Middle(w) == \/ CommitStart(w) \/ RefreshStarted(w) \/ FetchSource(w) \/ ParseSource(w)
             \/ PutMarkdown(w) \/ PutJson(w) \/ InsertDocument(w) \/ CleanResult(w)
             \/ RefreshDocument(w)

LEMMA MiddleStep ==
  ASSUME Typed, NEW w \in Workers, Middle(w)
  PROVE  worker'[w].pc \notin Starting \cup Ending \cup {"idle"}
<1>0. worker \in [Workers -> Worker]
  BY DEF Typed, TypeOK
<1> USE <1>0 DEF WorkerGo, WorkerAt, Worker, FailingStep, Starting, Ending
<1>1. CASE CommitStart(w) \/ RefreshStarted(w)
  BY <1>1 DEF CommitStart, RefreshStarted, Die, FreshWorker
<1>2. CASE FetchSource(w) \/ ParseSource(w)
  BY <1>2 DEF FetchSource, ParseSource
<1>3. CASE PutMarkdown(w)
  BY <1>3 DEF PutMarkdown
<1>4. CASE PutJson(w)
  BY <1>4 DEF PutJson
<1>5. CASE InsertDocument(w) \/ RefreshDocument(w)
  BY <1>5 DEF InsertDocument, RefreshDocument
<1>6. CASE CleanResult(w)
  <2>1. worker[w].pc = "cleaning"
    BY <1>6 DEF CleanResult
  <2>2. PICK key \in worker[w].uploaded, pc \in {"cleaning", "failing"} :
          worker' = [worker EXCEPT ![w].uploaded = worker[w].uploaded \ {key}, ![w].pc = pc]
    BY <1>6 DEF CleanResult
  <2>3. QED BY <2>2
<1>7. QED BY <1>1, <1>2, <1>3, <1>4, <1>5, <1>6 DEF Middle

(* a job that w's step leaves unstarted was so before *)
LEMMA UnstartedShrinks ==
  ASSUME HolderInv, NEW w \in Workers, RunOnce(w) \/ CrashWorker(w) \/ RestartWorker(w),
         NEW k \in Jobs, Unstarted(k)'
  PROVE  Unstarted(k)
<1>0. Typed /\ worker \in [Workers -> Worker] /\ queue \in Seq(Jobs) /\ NoJob \notin Jobs
  BY NullsDistinct DEF HolderInv, Typed, TypeOK
<1>1. /\ upload' = upload /\ \A v \in Workers \ {w} : worker'[v] = worker[v]
      /\ Queued(k)' => Queued(k)
  BY WorkerElsewhere
<1>2. ASSUME worker'[w].job = k, worker'[w].pc \in Starting
      PROVE  Unstarted(k)
  <2>1. CASE DequeueParseJob(w)
    <3>1. CASE queue # <<>> /\ worker'[w].job = Head(queue)
      <4>1. 1 \in DOMAIN queue /\ queue[1] = k
        BY <1>0, <1>2, <3>1
      <4>2. QED BY <4>1 DEF Unstarted, Queued
    <3>2. CASE worker' = worker
      BY <1>2, <3>2 DEF Unstarted
    <3>3. QED BY <1>0, <1>2, <2>1, <3>1, <3>2 DEF DequeueParseJob, Die, FreshWorker, Worker
  <2>2. CASE Ends(w)
    BY <1>0, <1>2, <2>2 DEF Ends, Finish, Die, FreshWorker
  <2>3. CASE LoadStart(w) /\ ~Ends(w)
    BY <1>0, <1>2, <2>3 DEF LoadStart, Ends, WorkerAt, Worker, Unstarted, Starting
  <2>4. CASE Middle(w)
    BY <1>0, <1>2, <2>4, MiddleStep
  <2>5. CASE LoadComplete(w) \/ CommitComplete(w) \/ LoadFail(w) \/ CommitFail(w)
    BY <1>0, <1>2, <2>2, <2>5
    DEF LoadComplete, CommitComplete, LoadFail, CommitFail, Ends, WorkerGo, FailingStep,
        Worker, Starting
  <2>6. QED BY <2>1, <2>2, <2>3, <2>4, <2>5 DEF RunOnce, CrashWorker, RestartWorker, Middle, Ends
<1>3. QED BY <1>1, <1>2 DEF Unstarted

(* only the SELECT of complete_job or fail_job leads to its COMMIT *)
LEMMA EndingStep ==
  ASSUME Typed, NEW w \in Workers, RunOnce(w) \/ CrashWorker(w) \/ RestartWorker(w),
         worker'[w].pc \in Ending
  PROVE  /\ jobRow' = jobRow /\ worker'[w].job = worker[w].job
         /\ worker'[w].seen = jobRow[worker[w].job]
<1>0. worker \in [Workers -> Worker]
  BY DEF Typed, TypeOK
<1>1. CASE LoadComplete(w) \/ LoadFail(w)
  BY <1>0, <1>1 DEF LoadComplete, LoadFail, WorkerGo, Die, FreshWorker, FailingStep, Worker,
                    Ending
<1>2. CASE Ends(w)
  BY <1>0, <1>2 DEF Ends, Finish, Die, FreshWorker, Ending
<1>3. CASE DequeueParseJob(w) \/ LoadStart(w) \/ CommitComplete(w) \/ CommitFail(w)
  BY <1>0, <1>2, <1>3
  DEF DequeueParseJob, LoadStart, CommitComplete, CommitFail, Ends, WorkerAt, FailingStep,
      Worker, Ending
<1>4. CASE Middle(w)
  BY <1>4, MiddleStep
<1>5. QED BY <1>1, <1>2, <1>3, <1>4 DEF RunOnce, CrashWorker, RestartWorker, Middle, Ends

LEMMA HandsWorker ==
  ASSUME HandsInv, NEW w \in Workers, RunOnce(w) \/ CrashWorker(w) \/ RestartWorker(w)
  PROVE  HandsInv'
<1>0. Typed /\ HolderInv /\ NoJob \notin Jobs
  BY NullsDistinct DEF HandsInv, HolderInv, Typed
<1>1. HolderInv'
  BY HolderNext DEF HandsInv, Next
<1>2. /\ upload' = upload
      /\ \A v \in Workers \ {w} : worker'[v] = worker[v]
      /\ \A k \in Jobs : /\ AtLarge(k)' => AtLarge(k)
                         /\ Queued(k)' => Queued(k)
                         /\ k # worker[w].job => jobRow'[k] = jobRow[k]
  BY <1>0, WorkerElsewhere
<1>3. ASSUME NEW k \in Jobs PROVE RowInStep(k)'
  <2>0. RowInStep(k)
    BY DEF HandsInv
  <2>1. k = worker[w].job =>
          /\ ~Queued(k) /\ upload[k].pc \notin NotYetPushed
          /\ \A v \in Workers \ {w} : worker[v].job # k
    BY <1>0 DEF HolderInv, SingleHolder, PushedOnce, Queued
  <2>2. Unstarted(k)' => jobRow'[k].status # "processing"
    <3>1. CASE jobRow'[k].status = jobRow[k].status
      BY <1>0, <2>0, <3>1, UnstartedShrinks DEF RowInStep
    <3>2. CASE jobRow'[k].status # jobRow[k].status
      BY <1>0, <1>2, <2>1, <3>2, WorkerStatus DEF Unstarted
    <3>3. QED BY <3>1, <3>2
  <2>3. upload'[k].pc = "persisted" => jobRow'[k].status = "queued"
    BY <1>2, <2>0, <2>1 DEF RowInStep, NotYetPushed
  <2>4. upload'[k].pc \in Marking /\ jobRow'[k].status = "failed" => ~AtLarge(k)'
    <3>1. CASE jobRow'[k].status = jobRow[k].status
      BY <1>2, <2>0, <3>1 DEF RowInStep
    <3>2. CASE jobRow'[k].status # jobRow[k].status
      BY <1>0, <1>2, <2>1, <3>2, WorkerStatus DEF AtLarge
    <3>3. QED BY <3>1, <3>2
  <2>5. upload'[k].pc = "markCommit" /\ upload'[k].seen.status = "failed" =>
          jobRow'[k].status = "failed"
    BY <1>2, <2>0 DEF RowInStep, AtLarge, Marking
  <2>6. QED BY <2>2, <2>3, <2>4, <2>5 DEF RowInStep
<1>4. ASSUME NEW v \in Workers PROVE EndSeen(v)'
  <2>1. CASE v = w
    BY <1>0, <2>1, EndingStep DEF EndSeen, Open, Terminal
  <2>2. CASE v # w /\ worker[v].pc \in Ending
    <3>1. worker[v].job \in Jobs /\ worker[v].job # worker[w].job
      BY <1>0, <2>2, JobInHand DEF HolderInv, SingleHolder, Ending, Free
    <3>2. QED BY <1>2, <2>2, <3>1 DEF HandsInv, EndSeen, Open
  <2>3. QED BY <1>2, <2>1, <2>2 DEF EndSeen
<1>5. QED BY <1>1, <1>3, <1>4 DEF HandsInv

LEMMA HandsNext == HandsInv /\ [Next]_vars => HandsInv'
<1> SUFFICES ASSUME HandsInv, [Next]_vars PROVE HandsInv'
  OBVIOUS
<1>1. CASE UNCHANGED vars
  <2>1. HolderInv'
    BY HolderNext DEF HandsInv
  <2>2. QED
    BY <1>1, <2>1 DEF vars, HandsInv, RowInStep, EndSeen, Unstarted, AtLarge, Queued, Open
<1>2. QED BY <1>1, HandsUpload, HandsWorker DEF Next

(* a request lets go of an open job only with an answer that says so *)
LEMMA RequestForgets ==
  ASSUME HandsInv, NEW j \in Jobs, CreateJob(j) \/ CrashUpload(j),
         NEW k \in Jobs, Forgotten(k)', ~Forgotten(k)
  PROVE  RequestGivesUp(k)
<1>0. /\ Typed /\ upload \in [Jobs -> Upload] /\ jobRow \in [Jobs -> Row]
      /\ queue \in Seq(Jobs) /\ upload[j].seen \in Row
  BY DEF HandsInv, HolderInv, Typed, TypeOK, Upload
<1>1. /\ worker' = worker
      /\ k # j => upload'[k] = upload[k] /\ jobRow'[k] = jobRow[k] /\ (Queued(k)' <=> Queued(k))
  BY <1>0, RequestElsewhere
<1>2. k = j
  BY <1>1 DEF Forgotten, Open, InHands, Queued
<1>3. CASE PutSource(j) \/ CleanupSource(j) \/ RefreshJob(j)
  <2>1. jobRow' = jobRow /\ queue' = queue
        /\ upload[j].pc \notin {"persisted", "marking", "markCommit"}
    BY <1>3 DEF PutSource, CleanupSource, RefreshJob, UploadAt
  <2>2. QED BY <1>1, <1>2, <2>1 DEF Forgotten, Open, InHands
<1>4. CASE InsertJob(j)
  BY <1>0, <1>2, <1>4 DEF InsertJob, UploadAt, UploadGo, Upload, Forgotten, InHands,
                          RequestGivesUp
<1>5. CASE EnqueueParseJob(j)
  <2>1. CASE queue' = Append(queue, j)
    <3>1. Len(queue) + 1 \in DOMAIN queue' /\ queue'[Len(queue) + 1] = j
      BY <1>0, <2>1
    <3>2. QED BY <1>2, <3>1 DEF Forgotten, InHands
  <2>2. CASE upload'[j].pc = "marking"
    BY <1>2, <2>2 DEF Forgotten, InHands
  <2>3. QED BY <1>0, <1>5, <2>1, <2>2 DEF EnqueueParseJob, Pushed, UploadGo, Upload,
                                          AfterEnqueueFailure
<1>6. CASE LoadEnqueueFailure(j)
  BY <1>0, <1>2, <1>6 DEF LoadEnqueueFailure, UploadAt, UploadGo, Upload, Forgotten, Open,
                          InHands, RequestGivesUp
<1>7. CASE CommitEnqueueFailure(j)
  <2>1. CASE upload'[j].pc = "errored"
    BY <1>2, <1>7, <2>1 DEF CommitEnqueueFailure, UploadAt, RequestGivesUp
  <2>2. CASE upload'[j].pc # "errored"
    <3>1. jobRow'[j] = Flush(jobRow[j], upload[j].seen, EnqueueFailedRow(upload[j].seen))
      BY <1>0, <1>7, <2>2 DEF CommitEnqueueFailure
    <3>2. EnqueueFailedRow(upload[j].seen).status = "failed"
      BY <1>0 DEF EnqueueFailedRow, Row
    <3>3. upload[j].seen.status = "failed" => jobRow[j].status = "failed"
      BY <1>7 DEF CommitEnqueueFailure, UploadAt, HandsInv, RowInStep
    <3>4. jobRow'[j].status = "failed"
      BY <3>1, <3>2, <3>3, FlushColumns
    <3>5. QED BY <1>2, <3>4 DEF Forgotten, Open
  <2>3. QED BY <2>1, <2>2
<1>8. CASE CrashUpload(j)
  BY <1>0, <1>2, <1>8 DEF CrashUpload, UploadAt, Upload, Answered, RequestGivesUp
<1>9. QED BY <1>3, <1>4, <1>5, <1>6, <1>7, <1>8 DEF CreateJob

(* a worker that goes on lets go of its job only when the row says its end *)
LEMMA WorkerForgets ==
  ASSUME HandsInv, NEW w \in Workers, RunOnce(w) \/ CrashWorker(w) \/ RestartWorker(w),
         NEW k \in Jobs, Forgotten(k)', ~Forgotten(k)
  PROVE  WorkerEndsWith(k)
<1>0. /\ Typed /\ HolderInv /\ worker \in [Workers -> Worker] /\ queue \in Seq(Jobs)
      /\ jobRow \in [Jobs -> Row] /\ NoJob \notin Jobs
  BY NullsDistinct DEF HandsInv, HolderInv, Typed, TypeOK
<1>1. /\ upload' = upload
      /\ \A v \in Workers \ {w} : worker'[v] = worker[v]
      /\ k # worker[w].job => jobRow'[k] = jobRow[k]
  BY <1>0, WorkerElsewhere
<1>2. worker'[w].job # k
  BY DEF Forgotten, InHands
<1>3. CASE k # worker[w].job
  <2>1. Open(k) /\ InHands(k)
    BY <1>1, <1>3 DEF Forgotten, Open
  <2>2. Queued(k) /\ ~Queued(k)'
    BY <1>1, <1>3, <2>1 DEF Forgotten, InHands, Queued
  <2>3. DequeueParseJob(w)
    BY <1>0, <2>2, QuietSteps DEF RunOnce, Quiet, PutMarkdown, InsertDocument, Queued
  <2>4. queue # <<>> /\ queue' = Tail(queue)
    BY <2>2, <2>3 DEF DequeueParseJob, Popped, Queued
  <2>5. Head(queue) = k
    <3>1. PICK i \in DOMAIN queue : queue[i] = k
      BY <2>2 DEF Queued
    <3>2. CASE i = 1
      BY <1>0, <2>4, <3>1, <3>2
    <3>3. CASE i # 1
      <4>1. i - 1 \in DOMAIN queue' /\ queue'[i - 1] = k
        BY <1>0, <2>4, <3>1, <3>3
      <4>2. QED BY <2>2, <4>1 DEF Queued
    <3>4. QED BY <3>2, <3>3
  <2>6. WorkerAt(w, "idle") /\ worker'[w].pc = "down"
    <3>1. Die(w)
      BY <1>0, <1>2, <2>2, <2>3, <2>5 DEF DequeueParseJob, Worker, Queued
    <3>2. QED BY <1>0, <2>3, <3>1 DEF DequeueParseJob, Die, FreshWorker
  <2>7. QED BY <2>4, <2>5, <2>6 DEF WorkerEndsWith, WorkerAt
<1>4. CASE k = worker[w].job
  <2>0. worker[w].pc \notin Free
    BY <1>0, <1>4 DEF Typed, WorkerShape
  <2>1. CASE Die(w)
    BY <1>0, <1>4, <2>0, <2>1 DEF Die, FreshWorker, WorkerEndsWith, WorkerAt, Free
  <2>2. CASE Finish(w)
    <3>0. worker'[w].pc = "idle" /\ worker[w].seen \in Row
      BY <1>0, <2>2 DEF Finish, FreshWorker, Worker
    <3>1. CASE LoadStart(w)
      <4>1. jobRow[k].status # "queued" /\ jobRow' = jobRow /\ worker[w].pc \in Starting
        BY <1>0, <1>4, <2>2, <3>0, <3>1
        DEF LoadStart, Startable, Die, FreshWorker, WorkerAt, Starting, Worker
      <4>2. jobRow[k].status # "processing"
        BY <1>4, <4>1 DEF HandsInv, RowInStep, Unstarted
      <4>3. QED BY <4>1, <4>2 DEF Forgotten, Open
    <3>2. CASE CommitComplete(w)
      <4>1. CompletedRow(worker[w].seen, worker[w].doc).status = "succeeded"
        BY <3>0 DEF CompletedRow, Row
      <4>2. jobRow'[k] = Flush(jobRow[k], worker[w].seen,
                               CompletedRow(worker[w].seen, worker[w].doc))
        BY <1>0, <1>4, <3>0, <3>2 DEF CommitComplete, FailingStep, Worker
      <4>3. worker[w].seen.status \in Terminal => ~Open(k)
        BY <1>4, <3>2 DEF CommitComplete, WorkerAt, HandsInv, EndSeen, Ending
      <4>4. jobRow'[k].status = "succeeded" \/ /\ worker[w].seen.status = "succeeded"
                                               /\ jobRow'[k].status = jobRow[k].status
        BY <4>1, <4>2, FlushColumns
      <4>5. QED BY <4>3, <4>4 DEF Forgotten, Open, Terminal
    <3>3. CASE CommitFail(w)
      <4>1. FailedRow(worker[w].seen).status = "failed"
        BY <3>0 DEF FailedRow, Row
      <4>2. jobRow'[k] = Flush(jobRow[k], worker[w].seen, FailedRow(worker[w].seen))
        BY <1>0, <1>4, <3>0, <3>3 DEF CommitFail, Die, FreshWorker
      <4>3. worker[w].seen.status \in Terminal => ~Open(k)
        BY <1>4, <3>3 DEF CommitFail, WorkerAt, HandsInv, EndSeen, Ending
      <4>4. jobRow'[k].status = "failed" \/ /\ worker[w].seen.status = "failed"
                                            /\ jobRow'[k].status = jobRow[k].status
        BY <4>1, <4>2, FlushColumns
      <4>5. QED BY <4>3, <4>4 DEF Forgotten, Open, Terminal
    <3>4. CASE LoadComplete(w) \/ LoadFail(w) \/ CrashWorker(w)
      BY <1>0, <3>0, <3>4
      DEF LoadComplete, LoadFail, CrashWorker, Die, FreshWorker, WorkerGo, Worker, FailingStep
    <3>5. ~DequeueParseJob(w) /\ ~RestartWorker(w) /\ ~Middle(w)
      BY <1>0, <2>0, <3>0, MiddleStep DEF DequeueParseJob, RestartWorker, WorkerAt, Free
    <3>6. QED BY <3>1, <3>2, <3>3, <3>4, <3>5 DEF RunOnce, Middle
  <2>3. CASE ~Finish(w) /\ ~Die(w)
    <3>1. worker'[w].job = NoJob
      BY <1>0, <1>2, <1>4, WorkerElsewhere
    <3>2. worker' \in [Workers -> Worker] /\ WorkerShape'
      BY <1>0, TypedWorker
    <3>3. PICK pc \in Free : worker'[w] = FreshWorker(pc)
      BY <3>1, <3>2 DEF WorkerShape
    <3>4. worker' = [worker EXCEPT ![w] = FreshWorker(pc)]
      BY <1>0, <1>1, <3>2, <3>3
    <3>5. QED BY <2>3, <3>4 DEF Finish, Die, Free
  <2>4. QED BY <2>1, <2>2, <2>3
<1>5. QED BY <1>3, <1>4

(***************************************************************************)
(* Under every fault class: a job is left waiting or processing in         *)
(* nobody's hands only by a step in which its request stops, answers an    *)
(* error or sees its insert raise, or in which the worker that has it or   *)
(* is taking it ends (create_job, run_once).                               *)
(***************************************************************************)
THEOREM ForgottenByFaults == Spec => ForgottenOnlyByFaults
<1>1. HandsInv /\ [Next]_vars =>
        [\A j \in Jobs : Forgotten(j)' /\ ~Forgotten(j) =>
           RequestGivesUp(j) \/ WorkerEndsWith(j)]_vars
  <2> SUFFICES ASSUME HandsInv, Next, NEW k \in Jobs, Forgotten(k)', ~Forgotten(k)
               PROVE  RequestGivesUp(k) \/ WorkerEndsWith(k)
    OBVIOUS
  <2>1. QED BY RequestForgets, WorkerForgets DEF Next
<1>2. QED BY <1>1, HandsStart, HandsNext, PTL DEF Spec, ForgottenOnlyByFaults
=============================================================================
