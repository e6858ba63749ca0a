--------------------------- MODULE DocumentAgent ---------------------------
(***************************************************************************)
(* The whole service around its two stores: uploads and workers, which are *)
(* ParseJobs, beside document deletes and reads (Documents).  They share   *)
(* the documents rows and the stored objects; a document can be listed,    *)
(* and so deleted, from the commit that inserts it, before its job is      *)
(* linked to it.                                                           *)
(*                                                                         *)
(* The properties of a job are those of ParseJobs, now with deletes beside *)
(* it: a job never names a document that is gone (LinkedToOwnDocument:     *)
(* complete_job links it after deletes can find it; the foreign key        *)
(* refuses the late link and nulls the early one), an unfinished job is in *)
(* somebody's hands (NoLostJob), every job ends (EveryJobEnds), and its    *)
(* life is the promised one (ImplementsFairLifecycle): a status the client *)
(* saw as final stays, and a job fails only when it has no document, or    *)
(* has it no longer.                                                       *)
(***************************************************************************)
EXTENDS ParseJobs

CONSTANTS Deletions, Readers

VARIABLES removal, reading

Requests == INSTANCE Documents

agentVars == <<vars, removal, reading>>

AgentInit == Init /\ Requests!InitRequests

(***************************************************************************)
(* parse_jobs.document_id REFERENCES documents ON DELETE SET NULL          *)
(***************************************************************************)
LinksKept(rows, docs) == rows   \* deviant: the foreign key without its clause

LinksNulled(rows, docs) ==
  [j \in Jobs |-> IF rows[j].doc # NoDoc /\ docs[rows[j].doc] = NoJob
                  THEN [rows[j] EXCEPT !.doc = NoDoc] ELSE rows[j]]

PipelineStep == Next /\ UNCHANGED <<removal, reading>>

RequestStep == /\ Requests!Requests
               /\ jobRow' = LinksNulled(jobRow, document')
               /\ UNCHANGED <<upload, worker, queue, issued, leaked>>

AgentNext == PipelineStep \/ RequestStep

AgentSpec == AgentInit /\ [][AgentNext]_agentVars

RequestsFair ==
  \A r \in Deletions :
    WF_agentVars(/\ Requests!DeleteDocument(r) /\ ~Requests!RemovalAt(r, "idle")
                 /\ jobRow' = LinksNulled(jobRow, document')
                 /\ UNCHANGED <<upload, worker, queue, issued, leaked>>)

AgentFairSpec ==
  /\ AgentSpec
  /\ \A j \in Jobs :
       WF_agentVars(CreateJob(j) /\ ~UploadAt(j, "idle") /\ UNCHANGED <<removal, reading>>)
  /\ \A w \in Workers : WF_agentVars(RunOnce(w) /\ UNCHANGED <<removal, reading>>)
  /\ RequestsFair

-----------------------------------------------------------------------------
AgentTypeOK == TypeOK /\ Requests!TypeOK

(***************************************************************************)
(* A document that nobody is deleting has all its objects, whichever       *)
(* uploads failed and were cleaned up beside it.                           *)
(***************************************************************************)
LossIsReported == Requests!LossIsReported
=============================================================================
