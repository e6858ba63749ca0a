----------------------------- MODULE ParseJobs -----------------------------
(***************************************************************************)
(* The asynchronous parse pipeline: the upload request that creates a job  *)
(* (ParseJobService.create_job), the queue, the worker processes           *)
(* (WorkerRunner.run_once and the service calls it makes), and the two     *)
(* stores they write, parse_jobs/documents rows and stored objects.        *)
(*                                                                         *)
(* Every call to the object storage, the database or the queue is a step   *)
(* of its own, and so are the SELECT and the COMMIT of one ORM             *)
(* read-modify-write.  A call may raise: having had no effect (its         *)
(* subsystem is in Refused) or after it took effect (in Unacknowledged).   *)
(* A process of a kind in Crashes may stop between any two steps.          *)
(*                                                                         *)
(* A definition marked "deviant" is not part of the model: it is what the  *)
(* next definition would be with a particular bug, and a property is known *)
(* to fail with it.                                                        *)
(***************************************************************************)
EXTENDS Stores, Naturals, Sequences

CONSTANT Workers   \* worker processes

VARIABLES
  upload,     \* [Jobs -> what the upload request of the job is doing]
  worker,     \* [Workers -> what the worker process is doing]
  queue,      \* the Redis list: job ids, oldest first
  jobRow,     \* [Jobs -> row of parse_jobs]
  document,   \* [Docs -> job whose parse result the documents row holds]
  issued,     \* document ids drawn so far (uuid4 never repeats one)
  objects,    \* keys present in the object storage
  leaked      \* history: keys that a fault outside the program's control
              \* kept it from deleting or from knowing

vars == <<upload, worker, queue, jobRow, document, issued, objects, leaked>>

(***************************************************************************)
(* Rows of parse_jobs.  "absent" stands for no row.                        *)
(***************************************************************************)
Statuses == {"absent", "queued", "processing", "succeeded", "failed"}
Terminal == {"succeeded", "failed"}
Errors   == {"none", "queue_enqueue_failed", "parse_failed"}
Row      == [status : Statuses, doc : Docs \cup {NoDoc}, error : Errors]

NoRow     == [status |-> "absent", doc |-> NoDoc, error |-> "none"]
QueuedRow == [NoRow EXCEPT !.status = "queued"]

(***************************************************************************)
(* A session's UPDATE names only the columns whose new value differs from  *)
(* the value the session loaded: the others keep what is in the table now. *)
(***************************************************************************)
Flush(now, seen, new) ==
  [c \in {"status", "doc", "error"} |->
     IF new[c] = seen[c] THEN now[c] ELSE new[c]]

RunningRow(r)         == [r EXCEPT !.status = "running"]   \* deviant
StartedRow(r)         == [r EXCEPT !.status = "processing", !.error = "none"]
LinkedRow(r, d)       == [r EXCEPT !.doc = d]              \* deviant
CompletedRow(r, d)    == [r EXCEPT !.status = "succeeded", !.doc = d,
                                   !.error = "none"]
FailedRow(r)          == [r EXCEPT !.status = "failed", !.error = "parse_failed"]
EnqueueFailedRow(r)   == [r EXCEPT !.status = "failed",
                                   !.error = "queue_enqueue_failed"]

Unfinished(r) == r.status = "processing"   \* deviant
Startable(r)  == r.status = "queued"

(***************************************************************************)
(* The program is not to blame for these keys if they outlive their owner: *)
(* a delete failed, a put took effect but raised (its key is then in no    *)
(* uploaded_keys), or the process stopped.                                 *)
(***************************************************************************)
Leak(keys) == leaked' = leaked \cup (keys \cap objects')

-----------------------------------------------------------------------------
(***************************************************************************)
(* The upload request                                                      *)
(***************************************************************************)
Answered  == {"accepted", "rejected", "errored", "crashed"}
UploadPcs == {"idle", "stored", "persisted", "enqueued", "cleanup", "marking",
              "markCommit"} \cup Answered

Upload == [pc : UploadPcs, seen : Row]

UploadAt(j, pc) == upload[j].pc = pc
UploadGo(j, pc) == upload' = [upload EXCEPT ![j].pc = pc]

(* put_bytes(source_object_key) *)
PutSource(j) ==
  /\ UploadAt(j, "idle")
  /\ \/ objects' = objects \cup {Source(j)} /\ UploadGo(j, "stored")
     \/ /\ RaisesWith("storage", objects, objects \cup {Source(j)}, objects')
        /\ UploadGo(j, "cleanup")
  /\ UNCHANGED <<worker, queue, jobRow, document, issued, leaked>>

(* session.add(job); session.commit() *)
InsertJob(j) ==
  /\ UploadAt(j, "stored")
  /\ \/ jobRow' = [jobRow EXCEPT ![j] = QueuedRow] /\ UploadGo(j, "persisted")
     \/ /\ RaisesWith("db", jobRow, [jobRow EXCEPT ![j] = QueuedRow], jobRow')
        /\ UploadGo(j, "cleanup")
  /\ UNCHANGED <<worker, queue, document, issued, objects, leaked>>

(* queue.enqueue_parse_job: RPUSH *)
PushedTwice(q, j) == q \o <<j, j>>        \* deviant
NotPushed(q, j)   == q                    \* deviant
Pushed(q, j)      == Append(q, j)

PushedAgain(q, j)  == Pushed(q, j)        \* deviant: the command is sent again
AfterRefusal(q, j) == q

(* job_persisted is set by now, so the source object stays *)
AsIfNotPersisted    == "cleanup"          \* deviant
AfterEnqueueFailure == "marking"

EnqueueParseJob(j) ==
  /\ UploadAt(j, "persisted")
  /\ \/ queue' = Pushed(queue, j) /\ UploadGo(j, "enqueued")
     \/ /\ RaisesWith("queue", AfterRefusal(queue, j), Pushed(queue, j), queue')
        /\ UploadGo(j, AfterEnqueueFailure)
  /\ UNCHANGED <<worker, jobRow, document, issued, objects, leaked>>

(* _cleanup_source_object_best_effort: one delete, its failure is swallowed *)
CleanupSource(j) ==
  /\ UploadAt(j, "cleanup")
  /\ \/ objects' = objects \ {Source(j)} /\ leaked' = leaked
     \/ "storage" \in Refused /\ objects' = objects /\ Leak({Source(j)})
  /\ UploadGo(j, "rejected")
  /\ UNCHANGED <<worker, queue, jobRow, document, issued>>

(* _mark_enqueue_failure: session.get *)
LoadEnqueueFailure(j) ==
  /\ UploadAt(j, "marking")
  /\ \/ upload' = [upload EXCEPT ![j] =
                     IF jobRow[j].status = "absent"
                     THEN [pc |-> "rejected", seen |-> NoRow]
                     ELSE [pc |-> "markCommit", seen |-> jobRow[j]]]
     \/ Fails("db") /\ UploadGo(j, "errored")
  /\ UNCHANGED <<worker, queue, jobRow, document, issued, objects, leaked>>

(* _mark_enqueue_failure: assignments and commit, whatever the status was *)
CommitEnqueueFailure(j) ==
  LET seen   == upload[j].seen
      marked == [jobRow EXCEPT ![j] = Flush(@, seen, EnqueueFailedRow(seen))]
      Finish(pc) == upload' = [upload EXCEPT ![j] = [pc |-> pc, seen |-> NoRow]]
  IN  /\ UploadAt(j, "markCommit")
      /\ \/ jobRow' = marked /\ Finish("rejected")
         \/ RaisesWith("db", jobRow, marked, jobRow') /\ Finish("errored")
      /\ UNCHANGED <<worker, queue, document, issued, objects, leaked>>

(* session.refresh(job) and the 202 response; outside the try block *)
RefreshJob(j) ==
  /\ UploadAt(j, "enqueued")
  /\ \/ UploadGo(j, "accepted")
     \/ Fails("db") /\ UploadGo(j, "errored")
  /\ UNCHANGED <<worker, queue, jobRow, document, issued, objects, leaked>>

(* The API process stops: nothing resumes the request *)
CrashUpload(j) ==
  /\ "api" \in Crashes
  /\ upload[j].pc \notin Answered \cup {"idle"}
  /\ upload' = [upload EXCEPT ![j] = [pc |-> "crashed", seen |-> NoRow]]
  /\ UNCHANGED <<worker, queue, jobRow, document, issued, objects>>
  /\ Leak({Source(j)})

CreateJob(j) == \/ PutSource(j) \/ InsertJob(j) \/ EnqueueParseJob(j)
                \/ CleanupSource(j) \/ LoadEnqueueFailure(j)
                \/ CommitEnqueueFailure(j) \/ RefreshJob(j)

-----------------------------------------------------------------------------
(***************************************************************************)
(* The worker process                                                      *)
(***************************************************************************)
WorkerPcs == {"idle", "starting", "startCommit", "started", "fetching",
              "parsing", "parsed", "markdownStored", "resultStored",
              "cleaning", "inserted", "completing", "completeCommit",
              "failing", "failCommit", "down"}

Worker == [pc : WorkerPcs, job : Jobs \cup {NoJob}, doc : Docs \cup {NoDoc},
           uploaded : SUBSET ResultKeys, seen : Row]

FreshWorker(pc) == [pc |-> pc, job |-> NoJob, doc |-> NoDoc,
                    uploaded |-> {}, seen |-> NoRow]

WorkerAt(w, pc) == worker[w].pc = pc
WorkerGo(w, pc) == worker' = [worker EXCEPT ![w].pc = pc]

(* run_once returned: the loop of run_forever starts over *)
Finish(w) == worker' = [worker EXCEPT ![w] = FreshWorker("idle")]

(* an exception left run_once, and with it run_forever: the process ends *)
Die(w) == worker' = [worker EXCEPT ![w] = FreshWorker("down")]

(* queue.dequeue_parse_job: BLPOP, or None when the list stayed empty *)
Peeked(q) == q   \* deviant
Popped(q) == Tail(q)

DequeueParseJob(w) ==
  /\ WorkerAt(w, "idle")
  /\ \/ /\ queue # <<>>
        /\ queue' = Popped(queue)
        /\ worker' = [worker EXCEPT ![w].pc = "starting", ![w].job = Head(queue)]
     \/ queue = <<>> /\ UNCHANGED <<queue, worker>>
     \/ "queue" \in Refused /\ queue' = queue /\ Die(w)
     \/ /\ "queue" \in Unacknowledged /\ queue # <<>>
        /\ queue' = Popped(queue)
        /\ Die(w)
  /\ UNCHANGED <<upload, jobRow, document, issued, objects, leaked>>

(* start_job: session.get and the early returns *)
LoadStart(w) ==
  LET row == jobRow[worker[w].job]
  IN  /\ WorkerAt(w, "starting")
      /\ \/ ~Startable(row) /\ Finish(w)
         \/ /\ Startable(row)
            /\ worker' = [worker EXCEPT ![w].pc = "startCommit", ![w].seen = row]
         \/ Fails("db") /\ Die(w)
      /\ UNCHANGED <<upload, queue, jobRow, document, issued, objects, leaked>>

(* start_job: assignments and commit; not inside run_once's try block *)
CommitStart(w) ==
  LET seen    == worker[w].seen
      claimed == [jobRow EXCEPT ![worker[w].job] =
                    Flush(@, seen, StartedRow(seen))]
  IN  /\ WorkerAt(w, "startCommit")
      /\ \/ /\ jobRow' = claimed
            /\ worker' = [worker EXCEPT ![w].pc = "started", ![w].seen = NoRow]
         \/ RaisesWith("db", jobRow, claimed, jobRow') /\ Die(w)
      /\ UNCHANGED <<upload, queue, document, issued, objects, leaked>>

(* start_job: session.refresh *)
RefreshStarted(w) ==
  /\ WorkerAt(w, "started")
  /\ \/ WorkerGo(w, "fetching")
     \/ Fails("db") /\ Die(w)
  /\ UNCHANGED <<upload, queue, jobRow, document, issued, objects, leaked>>

(* where the except blocks of run_once lead: _fail_job *)
Unhandled   == "down"      \* deviant
FailingStep == "failing"

(* storage.get_bytes(source_object_key) *)
FetchSource(w) ==
  /\ WorkerAt(w, "fetching")
  /\ \/ Source(worker[w].job) \in objects /\ WorkerGo(w, "parsing")
     \/ /\ Source(worker[w].job) \notin objects \/ Fails("storage")
        /\ WorkerGo(w, FailingStep)
  /\ UNCHANGED <<upload, queue, jobRow, document, issued, objects, leaked>>

(* writing the temporary file and parser.parse: any input may be rejected, *)
(* by WorkerParseError or by another exception                             *)
ParseSource(w) ==
  /\ WorkerAt(w, "parsing")
  /\ \/ WorkerGo(w, "parsed")
     \/ WorkerGo(w, FailingStep)
  /\ UNCHANGED <<upload, queue, jobRow, document, issued, objects, leaked>>

-----------------------------------------------------------------------------
(***************************************************************************)
(* create_document_from_parse_result                                       *)
(***************************************************************************)
AnyDoc(used)   == Docs   \* deviant
FreshDoc(used) == Docs \ used

PutMarkdown(w) ==
  /\ WorkerAt(w, "parsed")
  /\ \E d \in FreshDoc(issued) :
       /\ issued' = issued \cup {d}
       /\ \/ /\ objects' = objects \cup {Markdown(d)}
             /\ worker' = [worker EXCEPT ![w].pc = "markdownStored",
                                         ![w].doc = d,
                                         ![w].uploaded = {Markdown(d)}]
             /\ leaked' = leaked
          \/ /\ RaisesWith("storage", objects, objects \cup {Markdown(d)}, objects')
             /\ WorkerGo(w, FailingStep)
             /\ Leak({Markdown(d)})
  /\ UNCHANGED <<upload, queue, jobRow, document>>

NotRecorded(keys, key) == keys             \* deviant
Recorded(keys, key)    == keys \cup {key}  \* uploaded_keys.append(key)

PutJson(w) ==
  LET key == Json(worker[w].doc)
  IN  /\ WorkerAt(w, "markdownStored")
      /\ \/ /\ objects' = objects \cup {key}
            /\ worker' = [worker EXCEPT ![w].pc = "resultStored",
                                        ![w].uploaded = Recorded(@, key)]
            /\ leaked' = leaked
         \/ /\ RaisesWith("storage", objects, objects \cup {key}, objects')
            /\ WorkerGo(w, "cleaning")
            /\ Leak({key})
      /\ UNCHANGED <<upload, queue, jobRow, document, issued>>

(* documents and document_results rows, one commit *)
InsertDocument(w) ==
  LET inserted == [document EXCEPT ![worker[w].doc] = worker[w].job]
  IN  /\ WorkerAt(w, "resultStored")
      /\ \/ document' = inserted /\ WorkerGo(w, "inserted")
         \/ RaisesWith("db", document, inserted, document') /\ WorkerGo(w, "cleaning")
      /\ UNCHANGED <<upload, queue, jobRow, issued, objects, leaked>>

(* _delete_objects_best_effort(uploaded_keys, retries=3), one key a step;   *)
(* a key survives when its three attempts fail                             *)
CleanResult(w) ==
  /\ WorkerAt(w, "cleaning")
  /\ \E key \in worker[w].uploaded :
       /\ \/ objects' = objects \ {key} /\ leaked' = leaked
          \/ "storage" \in Refused /\ objects' = objects /\ Leak({key})
       /\ worker' = [worker EXCEPT ![w].uploaded = @ \ {key},
                       ![w].pc = IF worker[w].uploaded = {key} THEN FailingStep ELSE @]
  /\ UNCHANGED <<upload, queue, jobRow, document, issued>>

(* session.refresh(document), twice: raises if the row is gone *)
ReadBackFails == Fails("storage")   \* deviant: the result is read back instead
RefreshFails  == Fails("db")

RefreshDocument(w) ==
  /\ WorkerAt(w, "inserted")
  /\ \/ document[worker[w].doc] # NoJob /\ WorkerGo(w, "completing")
     \/ /\ document[worker[w].doc] = NoJob \/ RefreshFails
        /\ WorkerGo(w, FailingStep)
  /\ UNCHANGED <<upload, queue, jobRow, document, issued, objects, leaked>>

-----------------------------------------------------------------------------
(***************************************************************************)
(* complete_job and fail_job                                               *)
(***************************************************************************)
LoadComplete(w) ==
  /\ WorkerAt(w, "completing")
  /\ \/ worker' = [worker EXCEPT ![w].pc = "completeCommit",
                                 ![w].seen = jobRow[worker[w].job]]
     \/ Fails("db") /\ WorkerGo(w, FailingStep)
  /\ UNCHANGED <<upload, queue, jobRow, document, issued, objects, leaked>>

(* The commit raises when the foreign key parse_jobs.document_id has no row *)
CommitComplete(w) ==
  LET seen      == worker[w].seen
      doc       == worker[w].doc
      completed == [jobRow EXCEPT ![worker[w].job] =
                      Flush(@, seen, CompletedRow(seen, doc))]
  IN  /\ WorkerAt(w, "completeCommit")
      /\ \/ document[doc] # NoJob /\ jobRow' = completed /\ Finish(w)
         \/ /\ \/ document[doc] = NoJob /\ jobRow' = jobRow
               \/ /\ document[doc] # NoJob
                  /\ RaisesWith("db", jobRow, completed, jobRow')
            /\ worker' = [worker EXCEPT ![w].pc = FailingStep, ![w].seen = NoRow]
      /\ UNCHANGED <<upload, queue, document, issued, objects, leaked>>

(* _fail_job: not inside a try block, what it raises ends the process *)
LoadFail(w) ==
  /\ WorkerAt(w, "failing")
  /\ \/ worker' = [worker EXCEPT ![w].pc = "failCommit",
                                 ![w].seen = jobRow[worker[w].job]]
     \/ Fails("db") /\ Die(w)
  /\ UNCHANGED <<upload, queue, jobRow, document, issued, objects, leaked>>

CommitFail(w) ==
  LET seen   == worker[w].seen
      failed == [jobRow EXCEPT ![worker[w].job] = Flush(@, seen, FailedRow(seen))]
  IN  /\ WorkerAt(w, "failCommit")
      /\ \/ jobRow' = failed /\ Finish(w)
         \/ RaisesWith("db", jobRow, failed, jobRow') /\ Die(w)
      /\ UNCHANGED <<upload, queue, document, issued, objects, leaked>>

-----------------------------------------------------------------------------
CrashWorker(w) ==
  /\ "worker" \in Crashes
  /\ ~WorkerAt(w, "down")
  /\ Die(w)
  /\ UNCHANGED <<upload, queue, jobRow, document, issued, objects>>
  /\ Leak(ResultKeys \cap {Markdown(worker[w].doc), Json(worker[w].doc)})

(* whoever supervises the process starts a new one *)
RestartWorker(w) ==
  /\ WorkerAt(w, "down")
  /\ Finish(w)
  /\ UNCHANGED <<upload, queue, jobRow, document, issued, objects, leaked>>

RunOnce(w) == \/ DequeueParseJob(w) \/ LoadStart(w) \/ CommitStart(w)
              \/ RefreshStarted(w) \/ FetchSource(w) \/ ParseSource(w)
              \/ PutMarkdown(w) \/ PutJson(w) \/ InsertDocument(w)
              \/ CleanResult(w) \/ RefreshDocument(w) \/ LoadComplete(w)
              \/ CommitComplete(w) \/ LoadFail(w) \/ CommitFail(w)

Init ==
  /\ upload = [j \in Jobs |-> [pc |-> "idle", seen |-> NoRow]]
  /\ worker = [w \in Workers |-> FreshWorker("idle")]
  /\ queue = <<>>
  /\ jobRow = [j \in Jobs |-> NoRow]
  /\ document = [d \in Docs |-> NoJob]
  /\ issued = {}
  /\ objects = {}
  /\ leaked = {}

Next == \/ \E j \in Jobs : CreateJob(j) \/ CrashUpload(j)
        \/ \E w \in Workers : RunOnce(w) \/ CrashWorker(w) \/ RestartWorker(w)

Spec == Init /\ [][Next]_vars

(***************************************************************************)
(* A request handler that was entered runs on; a worker process that is up *)
(* runs on.  Nothing obliges a user to upload, or a stopped worker to be   *)
(* started again.                                                          *)
(***************************************************************************)
Fairness == /\ \A j \in Jobs : WF_vars(CreateJob(j) /\ ~UploadAt(j, "idle"))
            /\ \A w \in Workers : WF_vars(RunOnce(w))

FairSpec == Spec /\ Fairness

-----------------------------------------------------------------------------
TypeOK ==
  /\ upload \in [Jobs -> Upload]
  /\ worker \in [Workers -> Worker]
  /\ queue \in Seq(Jobs)
  /\ jobRow \in [Jobs -> Row]
  /\ document \in [Docs -> Jobs \cup {NoJob}]
  /\ issued \subseteq Docs
  /\ objects \subseteq Keys
  /\ leaked \subseteq Keys

(***************************************************************************)
(* A job is in one place: one position of the queue or one worker, so no   *)
(* two workers ever parse the same upload (create_job pushes once, BLPOP   *)
(* removes what it returns, nothing is pushed again).                      *)
(***************************************************************************)
SingleHolder ==
  /\ \A i, k \in DOMAIN queue : queue[i] = queue[k] => i = k
  /\ \A w \in Workers : \A i \in DOMAIN queue : queue[i] # worker[w].job
  /\ \A v, w \in Workers :
       worker[v].job = worker[w].job /\ worker[v].job # NoJob => v = w

(***************************************************************************)
(* However calls fail and processes stop, one upload never becomes two     *)
(* documents (create_document_from_parse_result draws a new id each time). *)
(***************************************************************************)
OneDocumentPerJob ==
  \A d, e \in Docs : document[d] = document[e] /\ document[d] # NoJob => d = e

(***************************************************************************)
(* A job that names a document names the one parsed from its own upload,   *)
(* and the row exists (complete_job with the id create_document returned). *)
(***************************************************************************)
LinkedToOwnDocument ==
  \A j \in Jobs : jobRow[j].doc # NoDoc => document[jobRow[j].doc] = j

(***************************************************************************)
(* documentId is null until the job has succeeded (docs/API_SPEC.md).      *)
(***************************************************************************)
LinkedOnlyWhenSucceeded ==
  \A j \in Jobs : jobRow[j].doc # NoDoc => jobRow[j].status = "succeeded"

(***************************************************************************)
(* A failed job did not create a document row (docs/DATA_MODEL.md).        *)
(***************************************************************************)
FailedHasNoDocument ==
  \A d \in Docs : document[d] # NoJob => jobRow[document[d]].status # "failed"

(***************************************************************************)
(* A job marked "could not be added to the queue" is not in the queue and  *)
(* no worker has it (_mark_enqueue_failure).                               *)
(***************************************************************************)
RejectedNotQueued ==
  \A j \in Jobs : jobRow[j].error = "queue_enqueue_failed" =>
     /\ \A i \in DOMAIN queue : queue[i] # j
     /\ \A w \in Workers : worker[w].job # j

(***************************************************************************)
(* What a row names can be read: compensation after a failed call never    *)
(* deletes an object that a committed row refers to.                       *)
(***************************************************************************)
RowsBackedByObjects ==
  /\ \A j \in Jobs : jobRow[j].status # "absent" => Source(j) \in objects
  /\ \A d \in Docs : document[d] # NoJob =>
       {Source(document[d]), Markdown(d), Json(d)} \subseteq objects

(***************************************************************************)
(* A job that is waiting or being processed is in somebody's hands: its    *)
(* request handler's, the queue's or a worker's.                           *)
(***************************************************************************)
InHands(j) == \/ upload[j].pc \in {"persisted", "marking", "markCommit"}
              \/ \E i \in DOMAIN queue : queue[i] = j
              \/ \E w \in Workers : worker[w].job = j

Open(j) == jobRow[j].status \in {"queued", "processing"}

NoLostJob == \A j \in Jobs : Open(j) => InHands(j)

(***************************************************************************)
(* Under every fault, a job is left waiting or processing in nobody's      *)
(* hands only by a step in which its request stops, answers an error or    *)
(* learns that the insert raised, or in which the worker that has it, or   *)
(* is taking it, ends.  Code that goes on never drops an open job: not the *)
(* early return of start_job, not an UPDATE that leaves out a status it    *)
(* takes to be written (create_job, run_once).                             *)
(***************************************************************************)
RequestGivesUp(j) == \/ UploadAt(j, "stored") /\ upload'[j].pc = "cleanup"
                     \/ ~UploadAt(j, "errored") /\ upload'[j].pc = "errored"
                     \/ ~UploadAt(j, "crashed") /\ upload'[j].pc = "crashed"

WorkerEndsWith(j) ==
  \E w \in Workers :
    /\ ~WorkerAt(w, "down") /\ worker'[w].pc = "down"
    /\ \/ worker[w].job = j
       \/ WorkerAt(w, "idle") /\ queue # <<>> /\ Head(queue) = j

Forgotten(j) == Open(j) /\ ~InHands(j)

ForgottenOnlyByFaults ==
  [][\A j \in Jobs : Forgotten(j)' /\ ~Forgotten(j) =>
        RequestGivesUp(j) \/ WorkerEndsWith(j)]_vars

(***************************************************************************)
(* Nothing is stored for nobody: whatever fails, a source object has a     *)
(* parse_jobs row or a request still at work on it, and a result object a  *)
(* documents row or a worker still at work on it, unless its leak has a    *)
(* cause outside the program (cleanup of create_job and of                 *)
(* create_document_from_parse_result).                                     *)
(***************************************************************************)
Storing(w, d) == /\ worker[w].doc = d
                 /\ worker[w].pc \in {"markdownStored", "resultStored", "cleaning"}

NoOrphanObjects ==
  /\ \A j \in Jobs : Source(j) \in objects \ leaked =>
       jobRow[j].status # "absent" \/ upload[j].pc \in {"stored", "cleanup"}
  /\ \A d \in Docs : (objects \ leaked) \cap {Markdown(d), Json(d)} # {} =>
       document[d] # NoJob \/ \E w \in Workers : Storing(w, d)

(***************************************************************************)
(* Every job whose row is committed ends, while the worker's storage calls *)
(* and the parsers may fail as they like.                                  *)
(***************************************************************************)
EveryJobEnds ==
  \A j \in Jobs : jobRow[j].status # "absent" ~> jobRow[j].status \in Terminal

(***************************************************************************)
(* The pipeline implements the life cycle it promises for each job.        *)
(***************************************************************************)
Published(j) == \E d \in Docs : document[d] = j

LifecycleState(j) ==
  CASE jobRow[j].status = "absent" -> "none"
    [] jobRow[j].status = "processing" /\ Published(j) -> "published"
    [] OTHER -> jobRow[j].status

Lifecycle == INSTANCE JobLifecycle
               WITH state <- [j \in Jobs |-> LifecycleState(j)]

ImplementsLifecycle     == Lifecycle!Spec
ImplementsFairLifecycle == Lifecycle!FairSpec
=============================================================================
