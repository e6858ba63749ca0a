# Verification of document-agent-api

TLA+ models of the `document-agent-api` service, checked with TLC and, where a
result should hold for any number of jobs, documents, workers and requests,
proved with TLAPS. Paths below are relative to the repository; line numbers are
in `PROJECT.json` ("map").

## 1. The system

A FastAPI service stores uploaded documents, has worker processes parse them
through a Redis list, and serves the results. All lasting state is in two
stores without a common transaction: SQL rows (`parse_jobs`, `documents`,
`document_results`, `users`, `user_api_keys`) and an object storage.

| Component (source) | State | Operations | Talks to | What makes it correct |
|---|---|---|---|---|
| Parse job service (`src/parse_jobs/service.py`) | `parse_jobs` row: status, `document_id`, `error_code` | `create_job`, `start_job`, `complete_job`, `fail_job`, `_mark_enqueue_failure`, source cleanup | storage, database, queue | a job ends once, links only its own document, a rejected upload is not run |
| Queue (`src/queueing/`) | a Redis list; per-process list or nothing with the other backends | `_send_command` with RPUSH or BLPOP; memory and logging variants | Redis over a socket per call | first in, first out; a call has one effect at most and reports truly; a poll ends |
| Worker (`src/worker/runner.py`, `main.py`) | the job in hand | `run_once`: dequeue, start, fetch, parse, create document, complete or fail | queue, storage, services | no job is parsed twice or forgotten |
| Worker parsers (`src/worker/parser.py`) | none | `parse` | library, subprocess, output files | a parser that hangs is stopped, one without text raises |
| Document service (`src/documents/service.py`) | `documents` and `document_results` rows, result objects | `create_document_from_parse_result`, `create_document` and its fallback row, `delete_document` with backup and restore, reads | storage, database | rows and objects agree; a failed delete is undone or reported |
| Object storage (`src/storage/backends.py`) | stored keys | `put_bytes`, `get_bytes`, `delete_object` | disk or R2 | – |
| API keys (`src/auth/service.py`) | `user_api_keys` rows | issue, rename, revoke, list, look-up by hash | database | names are unique per user, a revoked key stays revoked |
| Accounts and tokens (`src/auth/`) | `users` rows, signed tokens | register, login, token check | database, clock | one account per address, tokens end when they say |
| Upload validation (`src/documents/router.py`) | none | checks of `create_document`, media type of the source response | settings | what is accepted is served with its type, and goes to a parser that can read it |
| Configuration (`src/config.py`) | settings, read by API and worker apart | start-up checks | – | a process that starts can do what it accepts |
| HTTP layer, migrations | none at run time | translation of exceptions | – | – |

**What is hard.** Every operation is a sequence of calls to subsystems that
fail separately, with compensation written by hand after each failure; a call
may raise although it took effect. `session.get` and `session.commit` of one
operation are apart, without row locks, and SQLAlchemy writes only the columns
that differ from what that session loaded. BLPOP removes a job before anything
is recorded; RPUSH waits for its reply without a time-out, BLPOP with one that
races Redis's own; a command may take effect when nobody waits for it any more.
API and worker read their settings apart, and three pieces of code judge a
file's name and type each by its own rules. A document can be deleted from the commit that inserts it, before
its job is linked. Synchronous endpoints run on a thread pool, so two requests
of one user interleave between any two calls. `PROJECT.json` ("hazards") has
each of these at its line.

## 2. The modules

| Module | Models | Correspondence |
|---|---|---|
| `Stores` | what components share | ids, object keys, `Fails` and `RaisesWith`: how a call can fail |
| `ParseJobs` | upload request, queue, workers, both stores | one action per call: `PutSource`, `InsertJob`, `EnqueueParseJob`, ... for `create_job`; `DequeueParseJob`, `LoadStart`, `CommitStart`, ... for `run_once` |
| `JobLifecycle` | abstract: what is promised of a job | the life cycle none, queued, processing, published, succeeded or failed; `ParseJobs!Lifecycle` is the refinement mapping; `Withdraw` is the delete of a document its job is not linked to yet |
| `QueueService` | abstract: what is promised of the queue | each call puts or takes at most once, perhaps after it raised; `RedisQueue!Service` is the refinement mapping |
| `RedisQueue` | the client's `_send_command` with Redis and the network | `Connect`, `WriteCommand`, `ReadResponse`, `ReadEndOfFile`, `ReadTimeout` are the client; `Execute`, `RefuseCommand`, `Cut`, `Discard`, `Tick` the world around it (external) |
| `Uploads` | one upload across two processes configured apart | settings and start-up, `Checks` of `create_document` in their order, queue backend, source, input file, choice of parser and its time-out, source response |
| `Documents` | `delete_document` and the reads beside it | `keys`, `backup`, `deleted`, `lost` are the code's local lists |
| `DocumentAgent` | pipeline and document requests together | extends `ParseJobs` and instantiates `Documents` on the same rows and objects; `RequestStep` adds ON DELETE SET NULL |
| `DocumentCreate` | `create_document` and its fallback row | no endpoint calls it any more; tests do |
| `ApiKeys` | issue, rename, revoke with their races | each SELECT and each COMMIT is a step; the unique index and row counts answer at the COMMIT |
| `Accounts` | register, login, token lifetime, credentials of a visit | `CheckRegister`, `CommitRegister`, `Login`, `Grant`; `CurrentUser` and `CurrentDocumentUser` are the two dependencies of the routers |
| `ParseJobs_proofs`, `Documents_proofs`, `DocumentAgent_proofs` (on the lemmas of the two before it), `DocumentCreate_proofs`, `RedisQueue_proofs`, `Uploads_proofs`, `ApiKeys_proofs`, `Accounts_proofs` | theorems | section 5 |
| `MC*` | instances for TLC | symmetry sets, the tables of names and addresses |

A call that raises did nothing when its subsystem is in `Refused` and took
effect when it is in `Unacknowledged`. A kind of process in `Crashes` may stop
between any two steps; a stopped request is not resumed, a stopped worker may
be started again. The local variables of a request or a worker are a record
whose `pc` names the next call. A definition marked "deviant" is not part of
any model: it is what the following definition would be with a particular bug.

`leaked` in `ParseJobs` is a history variable: the keys a failed delete, an
unacknowledged put or a stopped process leaves behind. No action reads it;
`NoOrphanObjects` uses it to say that nothing else is left over.

`ParseJobs` uses the queue of `QueueService` with one difference: there a call
that raises has had its effect by then or never will. In `RedisQueue` the effect
may come later. A late push only adds a job that is marked failed, or about to
be, which `start_job` skips or, before the mark, runs as in finding 2; a late
pop takes a job nobody will run, which is the unacknowledged pop of `ParseJobs`,
later.

In `RedisQueue` a write is one step with the connect or the read before it: a
connection cut in between is a connection cut just before or just after. In
`Uploads` a file name is the sequence of its parts between slashes, of which the
code sees the extension, surrounding blanks and the special parts, and a content
type is a table entry in one of four forms (as written, other case before the slash,
other case only after it, with parameters).

Elsewhere payloads, file names and error texts are left out; an object is its key,
because keys are written once by their owner. Parse results of one job are one
value, so `document[d]` is the job whose upload and result the row `d` holds.
`ParseSource` and `Parse` may reject any input. The write to the temporary
file is part of `ParseSource`: both may only raise. `CleanResult` and
`CleanupPart` stand for the three attempts of `_delete_objects_best_effort`;
attempts that fail in the model have all failed.

## 3. The runs

| Run | Fault classes | Question |
|---|---|---|
| `parse_jobs_all_faults` | everything at once | Does a job ever have two holders, two documents, or another job's document, or an object stay that no fault accounts for? Is an unfinished job forgotten in any other step than one in which its request gives up or its worker ends? No. |
| `parse_jobs_crash` | storage (both ways), queue refuses, API and worker crash | Do rows, objects and queue agree, and does each job follow `JobLifecycle`, so that its end is final? Yes. |
| `documents_rollback` | storage and database refuse, commits may go unacknowledged, API crashes | Two deletes and a read of one document: is every loss under a live row reported, are leftovers only what a failed delete put back, and does a rolled back delete break no read? Yes. |
| `document_agent_fair` | storage refuses; fair processes | Two uploads and two workers beside a delete: are links right, is no unfinished job forgotten, does every job end, and is `JobLifecycle` with fairness implemented? Yes. |
| `document_create_faults` | storage and database refuse, commits may be unacknowledged | Can a row answered with 201 be read, is every leftover known? Yes. |
| `api_keys_races` | none; four concurrent requests | Are names unique, is revocation final, does a lost race answer "conflict"? Yes. |
| `accounts_tokens` | none; two requests, a clock, a visit | Has an address one account, does a token name the account it was asked for, is it accepted no longer than `expiresIn` and up to a second before its end, is a visit without token never taken for a user while it carries another's API key? Yes. |
| `redis_queue` | connections refused, lost or silent, error replies, late effects | Is `QueueService` implemented on the list of the configured database, does a poll on a healthy connection lose nothing, does every poll end, and every push but one on a silent connection? Yes. |
| `uploads` | wrong settings, parsers that raise or hang | Do checks and source response judge a file alike, does no accepted job fail for want of a parser unless the API enables `document_ai` and the worker does not, does a job that reaches a worker end unless MarkItDown hangs? Yes. |
| `parse_jobs_db_refused` | database refuses | finding 1 |
| `parse_jobs_queue_unacknowledged` | pushes may be unacknowledged | finding 2 |
| `documents_concurrent_deletes` | database refuses | finding 3 |

Where the fault classes of a passing run are narrowed, a finding or section 6
says why, or the run asks a question that the other faults have no part in.

**Bounds.** Two jobs, two workers and two document ids: what jobs can do to one
another takes two (order in the queue, one worker holding another's job, two
draws of an id), and a job is started at most once and a started job draws at
most one id, so two ids suffice for two jobs (TLC finds no deadlock). The
document runs have one document: requests for different documents touch
different rows and keys, so two deletes and a read of the same one have all the
interference; `document_agent_fair` has two documents and one delete. `document_create_faults` has two
creates. `api_keys_races` has two users, three ids, four requests, two names, a
second way to write one and a blank one: a race for a name takes two requests
over a key each, and a revocation beside them a third and a fourth.
`accounts_tokens` has two accounts, two addresses (one spelt in two ways) and a
malformed one, two passwords and two requests: a race for an address takes two.
Its clock has two ticks to a second, so tokens are granted on and between whole
seconds, a lifetime of two seconds, and stops at `MaxNow` = 6 ticks, after the
end of every token granted in the first second; `MaxNow` is the only cap.
`redis_queue` has two pushes and a poll, all with AUTH and SELECT: the poll may
find nothing, wait, find one item or two, and a late push may come between. Its
times are small but ordered as the code's: `PollTimeout` is positive
(`validate_positive_worker_timeout`; BLPOP with 0 would wait for ever), and `Lag`,
the delay of Redis and the network, is taken to be below the grace of 5 seconds:
with a longer one a poll can raise and lose its job although nothing failed.
Waits are counted up to `PollTimeout + Grace`, when the socket gives up.
`uploads` has every extension and content type of the tables, eight odd names,
forms of four types, every backend, and the settings that differ in what they
allow: six for the API and seven for the worker.

**Deadlock** is checked in the pipeline and agent runs, where an idle worker
always has a step (BLPOP that times out). It is off in the runs of `Documents`,
`DocumentCreate`, `ApiKeys`, `Accounts`, `RedisQueue` and `Uploads`, whose
requests or calls are all answered in the end (or wait for good on a silent
connection).

**Symmetry** of jobs, documents, workers and requests is used in runs without
liveness properties.

**Fairness.** `ParseJobs!FairSpec` has weak fairness of every entered request
handler and of every worker's `run_once`: the event loop runs a handler on, and
`run_forever` loops until the process ends. Fairness of the disjunction is
enough, each process being sequential; which outcome a call has stays free, so
a storage or a parser may always fail. Users are not obliged to upload and
nobody is obliged to restart a stopped worker. `DocumentAgent!AgentFairSpec` has the
same, and fairness of an entered delete. `RedisQueue!FairSpec` has weak fairness
of each client's code between socket calls, of Redis towards connections that
are up, and of time. `Uploads!FairSpec` has it of the worker's own steps and of
parser time-outs, not of parsers: they need not return.

**Progress** needs a database and a queue that answer and workers that stay up.
An exception of `dequeue_parse_job`, `start_job` or `_fail_job` ends the worker
process and leaves its job where it is, and nothing looks for jobs again: with
these faults `EveryJobEnds` and `NoLostJob` do not hold, and no document of the
repository says they should. What does hold, under all faults, is that a job is
forgotten in no other way: `ForgottenOnlyByFaults` lets an unfinished job leave
the hands of request, queue and workers only in a step in which its own request
gives up after committing the row (an unacknowledged commit, a failing mark or
refresh, a crash) or in which the worker that holds or takes it ends. So
neither a race of the mark with a worker nor a skipped job loses one.

**Mutants.** For every property of a passing run `PROJECT.json` ("mutants")
names a definition and its deviant form; with it TLC finds the property
violated in the same run.

## 4. Findings

1. *A failed job can have a document.* After `create_document_from_parse_result`
   has committed the `documents` row, its `refresh` and `complete_job` can still
   raise; `run_once` then marks the job failed and leaves the row.
   `docs/DATA_MODEL.md:87`: "failed jobs remain here and do not create document
   rows". Likewise, when the commit of `complete_job` took effect but raised,
   `fail_job` overwrites status and error, not `document_id`, and the failed job
   names a document (`docs/API_SPEC.md:176`: "`documentId` is `null` until the
   parse job succeeds and creates a document."); `LinkedOnlyWhenSucceeded` is
   therefore checked where commits are acknowledged.
2. *A job reported as not queued can be in the queue.* RPUSH may have taken
   effect when its reply is lost. `create_job` marks the job failed with "The
   parse job could not be added to the queue."; when a worker has started it
   meanwhile, it goes on and makes a document all the same.
3. *A delete that fails can store objects of a document that is gone.* Two
   deletes of one document: the second loses its commit, and its rollback stores
   its backups although the first has removed the row.
   `docs/API_SPEC.md:162`: "Delete one owned document and associated result."

## 5. What is proved

Theorems hold for every value of the constants that satisfies the assumptions
of the modules, and every safety invariant and action property of section 3 is
one of them. The runs show the same formulas on small instances, and check the
inductive invariants' consequences there.

**Assumptions on constants.** NULL is not an id (`NullsDistinct`, `KeyNulls`,
`AccountNulls`), fault classes are sets of the subsystems (`FaultClasses`,
`CreateFaults`, `FaultsType`), stripping a name or normalising an address gives
one or nothing (`StrippedType`, `NormalizedType`), a token lives for a whole
positive number of seconds (`ClockType`), calls and replies are told apart
(`CallsDistinct`, `RepliesDistinct`), the poll time-out is positive and the delay
of Redis below the grace (`TimesType`; section 3 says why), uploads and settings
are values of their types (`InputsType`). The sets of jobs, documents, workers,
users, requests and calls are arbitrary, infinite ones included.

**Assumptions on faults** are hypotheses of single theorems, named in the proof
modules, and each is there because the property fails without it:
`PushesAcknowledged`, `CommitsAcknowledged`, `WritesAcknowledged` (both) and
`StorageAcknowledged` (`StorageAcknowledges` in `DocumentAgent_proofs`) say that a
call which raised had no effect; `DatabaseUp` adds to `WritesAcknowledged` that
the database does not refuse; `NothingStops`, in one theorem only, that no process
crashes. Everything else may fail, and processes may crash.

| Theorem (module) | Property | Faults assumed away |
|---|---|---|
| `TypeCorrect`, `OneHolder`, `OneDocument`, `OwnDocument` (`ParseJobs_proofs`) | `TypeOK`, `SingleHolder`, `OneDocumentPerJob`, `LinkedToOwnDocument` | none |
| `NothingStoredForNobody`, `ForgottenByFaults` (`ParseJobs_proofs`) | `NoOrphanObjects`, `ForgottenOnlyByFaults` | none |
| `RejectedStaysOut` | `RejectedNotQueued` | unacknowledged pushes (finding 2) |
| `CompensationIsSafe` | `RowsBackedByObjects` | unacknowledged commits |
| `NullUntilSucceeded` | `LinkedOnlyWhenSucceeded` | both (finding 1) |
| `FailedPublishesNothing`, `FollowsLifecycle` | `FailedHasNoDocument`, `ImplementsLifecycle` | both, and a database that refuses (finding 1) |
| `DocumentsTyped`, `OnlyRestoresLeaveObjects` (`Documents_proofs`) | `TypeOK`, `OnlyRollbacksLeaveObjects` | none |
| `LossesAreReported`, `RolledBackDeletesLeaveReadsAlone` | `LossIsReported`, `ReadsFailOnlyBesideDeletes` | unacknowledged storage calls (section 6) |
| `LinksFollowDeletes` (`DocumentAgent_proofs`) | `LinkedToOwnDocument`, with deletes | none |
| `OnlyDeletesLoseObjects` | `LossIsReported`, with uploads and workers | unacknowledged storage calls and commits |
| `DeletesKeepLifecycle` | `ImplementsLifecycle`, with deletes | those of `FollowsLifecycle` |
| `JobsStayInHands` | `NoLostJob` | unacknowledged pushes and pops, every error of the database, crashes |
| `CommittedIsReadable` (`DocumentCreate_proofs`) | `RowsReadable` | none |
| `LeftoversAreNamed` | `LeftoversKnown` | unacknowledged storage calls |
| `QueueTyped`, `HealthyPollLosesNothing`, `ImplementsService` (`RedisQueue_proofs`) | `TypeOK`, `NothingLostWhileHealthy`, `ImplementsQueueService` | none |
| `UploadsTyped`, `TablesAgree`, `AcceptedIsParsed` (`Uploads_proofs`) | `TypeOK`, `TypesAgree`, `AcceptedHasParser` | – |
| `KeysTyped`, `UniqueNames`, `RevocationHolds`, `OnlyOwnersChangeKeys`, `ErrorsFollowRevocation` (`ApiKeys_proofs`) | `TypeOK`, `NamesUnique`, `RevokedForever`, `ChangedByOwner`, `ErrorsOnlyForRevoked` | – |
| `AccountsTyped`, `UniqueEmails`, `TokenOwner`, `TokenLifetime`, `NoKeyOfAnother` (`Accounts_proofs`) | `TypeOK`, `EmailsUnique`, `TokenNamesAccount`, `TokenLife`, `KeysAgree` | – |

**The arguments**, each an inductive invariant that says more than the property:

- *Types of the pipeline.* `TypeOK` is not inductive: `WorkerShape` adds that a
  worker has a job except when idle or down, and a document id between the
  first put and the end of `complete_job`.
- *One holder* (`HolderInv`). `PushedOnce`: a request that has not pushed yet has
  its job in no queue position and with no worker. Only `EnqueueParseJob` and
  `DequeueParseJob` move a job; `QuietSteps` collects what the other steps leave
  alone.
- *One document, its own* (`DocumentInv`). No two workers have the same document
  id and ids in hand or in rows are drawn (`IdsDrawnOnce`), the row of an id in
  hand, while nobody has deleted it, is that of the job in hand and the job's only
  one (`DocumentInHand`), and a job in the queue or
  before its insert has no document (`CreatedOnce`). A session's UPDATE keeps or
  replaces `document_id` whatever another session has done to the other columns
  (`FlushDoc`).
- *Rejected jobs* (`RejectedInv`). `NeverPushed`: a job whose mark is under way or
  written is in nobody's hands and its request is past the push. No fact about
  the other columns is needed: only the marking request writes that error.
- *Rows and sessions* (`StatusInv`, `LifecycleInv`). With every write
  acknowledged, what a session read is still in the table when it commits,
  although nothing locks the row: `RequestRow` and `WorkerRow` give the whole row
  at every control point, since a job is in one pair of hands. From there
  `documentId` is null until success, and with a database that answers
  (`PublishedInProcess`) the worker fails only jobs without a document. The
  refinement of `JobLifecycle` maps every step to one abstract step or none.
- *Compensation* (`BackedInv`). `RowPresent`: a request that may still delete its
  source has no row and nobody else has its job; a row's source is stored.
  `ResultKept`: a worker that cleans up has no row for its document id. An
  unacknowledged commit breaks exactly this: the row is there and its objects
  are deleted.
- *Nothing stored for nobody* (`OrphanInv`). `OnTheList`: what a worker has stored
  and no fault has leaked is in `uploaded_keys`, so the cleanup ends only when
  all of it is gone or leaked.
- *Forgotten jobs* (`HandsInv`). A job could be dropped silently where the code
  returns early or an UPDATE writes less than its session decided. `RowInStep`:
  until a worker has started a job its row is not `processing`, so a job that
  `start_job` skips has ended; and a status that the mark leaves out, because its
  session loaded it so, is in the table already. `EndSeen`: the same of a
  worker's last UPDATE. So a run or a request that ends normally leaves an ended
  row.
- *Deletes* (`TypedInv`, `LossInv`, `SettledInv`). A deletion works on with keys
  it took from a row that may be gone, so the invariants speak of `f`, the job
  each document was made from, which `Init` fixes and every step keeps.
  `Accounted`: a missing object is on the `deleted_keys` of a deletion that has
  yet to put it back, or one that ended otherwise answers for it. `Settled`: an
  object that some deletion has been past, or whose row is gone, is there only
  because another put it back. `DeletionSteps` turns every action into a relation
  between the request's local variables before and after, which the
  preservation proofs take apart.
- *The service as a whole* (`AgentInv`, `ReportedInv`). The invariants and the step
  lemmas of `ParseJobs_proofs` and `Documents_proofs` are used as they are: those
  of the pipeline never say that a row stays, and `f` need not say yet what a
  document is made from. A worker that commits a documents row extends `f`
  (`Extended`), a deletion goes by it, and it outlives the row: `Handed` says that
  the job a document was ever made from is pushed, out of the queue and past
  creating, so that no second document is made after the first was deleted.
  - *Links*: a deletion takes a row and nulls the link to it in one step
    (`RequestRows`); `complete_job` checks the row in its own commit.
  - *Losses*: besides `Accounted`, what is needed is that no cleanup of the pipeline
    touches a document (`Backed`): a request about to delete its source, and a
    worker about to delete results, have made none (`f` says so, the row may be
    gone), and everything a document needs is stored when its row is committed.
    A request's unacknowledged commit is harmless here, as its job is never
    pushed; a worker's is not.
  - *Life cycle*: a delete changes the status of no job (`RequestLeavesStatus`) and
    moves at most one job of the abstract machine back, by `Withdraw`.
  - *Hands*: a step that lets go of a job either passes it on (`QueueKept`) or ends
    it (`JobKeptOrEnded`), and the second needs that the commit succeeds.
- *create_document* (`ShapeInv`, `ListedInv`): the keys uploaded so far are a
  prefix of the three, and the row, the list and the storage agree at each
  control point; with storage acknowledged nothing is stored off the list.
- *Queue* (`QueueInv`, a conjunction per call). `Unserved`: a command Redis has
  not served is the last one sent, has moved nothing and goes to the database
  of the URL. `ReplyTells`: a pending reply says what was moved. `AnsweredInTime`:
  on a connection that is up the wait never exceeds what Redis may take, which
  is below the socket's time-out: the one use of `Lag < Grace`. The refinement
  needs the first two, and holds under all faults because an effect after the
  client gave up is a step of the abstract queue too.
- *Uploads* (`UploadInv`): what was accepted passed every check (`Accepted`), and
  the rest is a comparison of tables, for any name and type. `Unparsed`: a job
  that found no parser was accepted for a backend that the API enables and the
  worker does not have, and those two lists can differ in `document_ai` only.
- *API keys* (`KeysInv`, `HoldersInv`): what a request carries past its first
  SELECT, that a row's id has been drawn, and that a request holds a key of its
  own user (`HoldsOwn`; a row never changes its owner). The look-up before the
  write is not used: the unique index alone carries `UniqueNames`, the row count
  of the UPDATE `RevocationHolds`.
- *Accounts* (`AccountsInv`): an entry past its commit or SELECT carries the
  account it asked for (`EntryShape`), and `exp` is the last whole second before
  the end of the token's life (`ExpInLife`, from a lemma on division, for every
  lifetime and precision of the clock).

**Only model-checked**: liveness (`EveryJobEnds`) and `ImplementsFairLifecycle`, which
are out of the prover's reach.

## 6. What is not modelled

- Hashing of passwords and keys and signatures of tokens, which are taken to be
  sound; a forged or malformed bearer is `Junk`.
- A storage delete that took effect but raised, in `delete_document`: the key is
  not in `deleted_keys`, so it is not restored, and the answer does not say that
  the rollback is incomplete. `LossIsReported` is therefore checked where a
  raising storage call had no effect.
- The bytes of the RESP protocol (a reply is one of four kinds), and the rest
  of the event loop, which a push on a silent connection stops with its request.
- The inside of a parser, which raises or returns text: each parser looks for an
  empty or missing output just before it returns. The JSON it wraps its text in,
  and the names
  `sanitize_document_filename` makes for object keys and headers: a key is unique
  by the id in it.
- Failures of the database in `Accounts` and `ApiKeys`, where one commit is the
  only effect of a request.
- Reads that change nothing: job and document lists, `get_job`, key look-up.
- A `session.rollback()` that raises: on a lost connection it does not, the
  session having dropped that connection already.
- HTTP responses beyond their kind, the database URL, CORS and R2 region
  settings, migrations.

## 7. Plan

Done: the modules of section 2 and the theorems of section 5. Left:

1. A run of `DocumentAgent` with a database that refuses and processes that stop,
   so that rollback and pipeline meet on an instance too. `LinksFollowDeletes` and
   `OnlyDeletesLoseObjects` cover those faults; progress does not hold there (a
   refused call ends the worker), so the run would be for links and losses only.
2. `OnlyRollbacksLeaveObjects` and the reads of `Documents` beside the pipeline: by the
   lemmas of `DocumentAgent_proofs`, since a worker never stores under the id of a
   document that was deleted.
