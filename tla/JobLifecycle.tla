---------------------------- MODULE JobLifecycle ----------------------------
(***************************************************************************)
(* What the service promises about one parse job, with no queue, object    *)
(* storage, sessions or worker processes: an uploaded file is queued; it   *)
(* is picked up at most once; it publishes at most one document; and it    *)
(* ends succeeded exactly when it published one, unless that document was  *)
(* deleted before the job was linked to it.  The statuses are those of     *)
(* parse_jobs.status; "published" is "processing" with the documents row   *)
(* committed and the job not linked to it yet.                             *)
(***************************************************************************)
CONSTANT Jobs

VARIABLE state

States == {"none", "queued", "processing", "published", "succeeded", "failed"}

TypeOK == state \in [Jobs -> States]

Init == state = [j \in Jobs |-> "none"]

Move(j, from, to) == /\ state[j] = from
                     /\ state' = [state EXCEPT ![j] = to]

Submit(j)        == Move(j, "none", "queued")
EnqueueFailed(j) == Move(j, "queued", "failed")
Start(j)         == Move(j, "queued", "processing")
Publish(j)       == Move(j, "processing", "published")
Succeed(j)       == Move(j, "published", "succeeded")
Fail(j)          == Move(j, "processing", "failed")

(* the document is deleted before its job is linked to it *)
Withdraw(j)      == Move(j, "published", "processing")

Next == \E j \in Jobs : \/ Submit(j) \/ EnqueueFailed(j)
                        \/ Start(j) \/ Publish(j) \/ Withdraw(j)
                        \/ Succeed(j) \/ Fail(j)

Spec == Init /\ [][Next]_state

(***************************************************************************)
(* The promise of progress, for the environments in which no process       *)
(* crashes and the database and the queue answer.                          *)
(***************************************************************************)
Proceed(j) == Start(j) \/ Publish(j) \/ Succeed(j) \/ Fail(j)

FairSpec == Spec /\ \A j \in Jobs : WF_state(Proceed(j))
=============================================================================
