-------------------------- MODULE Uploads_proofs ---------------------------
(***************************************************************************)
(* Proofs about Uploads: for every file name, content type and backend a   *)
(* request may have, and any two environments of the API and the worker.   *)
(***************************************************************************)
EXTENDS Uploads, TLAPS

-----------------------------------------------------------------------------
(***************************************************************************)
(* The checks of POST /documents                                           *)
(***************************************************************************)
LEMMA FirstOfFive ==
  ASSUME NEW set \in SUBSET (1..5), set # {}
  PROVE  \E i \in set : \A k \in set : i <= k
<1>1. CASE 1 \in set
  BY <1>1
<1>2. CASE 1 \notin set /\ 2 \in set
  BY <1>2
<1>3. CASE 1 \notin set /\ 2 \notin set /\ 3 \in set
  BY <1>3
<1>4. CASE 1 \notin set /\ 2 \notin set /\ 3 \notin set /\ 4 \in set
  BY <1>4
<1>5. CASE 1 \notin set /\ 2 \notin set /\ 3 \notin set /\ 4 \notin set
  <2>1. \A i \in set : i = 5
    BY <1>5
  <2>2. set = {5}
    BY <2>1, Zenon
  <2>3. 5 <= 5
    OBVIOUS
  <2>4. QED BY <2>2, <2>3
<1>6. QED BY <1>1, <1>2, <1>3, <1>4, <1>5

LEMMA CheckTable ==
  ASSUME NEW r, NEW s
  PROVE  /\ DOMAIN Checks(r, s) = 1..5
         /\ \A i \in 1..5 : Checks(r, s)[i][2] \in Answers \ {"none", "accepted"}
         /\ Checks(r, s)[3][1] = ~IsSupportedFile(r.name, r.type)
         /\ Checks(r, s)[4][1] = (r.backend \notin Enabled(s))
         /\ Checks(r, s)[5][1] = ~IsParserBackendSupported(r.name, r.type, r.backend)
<1>1. DOMAIN Checks(r, s) = 1..5
  BY DEF Checks
<1>2. /\ Checks(r, s)[1][2] = "missing_filename" /\ Checks(r, s)[2][2] = "empty_file"
      /\ Checks(r, s)[3][2] = "unsupported_file_type"
      /\ Checks(r, s)[4][2] = "parser_backend_disabled"
      /\ Checks(r, s)[5][2] = "unsupported_parser_backend_for_file_type"
  BY DEF Checks
<1>3. \A i \in 1..5 : i = 1 \/ i = 2 \/ i = 3 \/ i = 4 \/ i = 5
  OBVIOUS
<1>4. \A i \in 1..5 : Checks(r, s)[i][2] \in Answers \ {"none", "accepted"}
  BY <1>2, <1>3 DEF Answers
<1>5. /\ Checks(r, s)[3][1] = ~IsSupportedFile(r.name, r.type)
      /\ Checks(r, s)[4][1] = (r.backend \notin Enabled(s))
      /\ Checks(r, s)[5][1] = ~IsParserBackendSupported(r.name, r.type, r.backend)
  BY DEF Checks
<1>6. QED BY <1>1, <1>4, <1>5

(* the first check that fails answers, and an upload is accepted by all *)
LEMMA AnswersOfChecks ==
  ASSUME NEW r, NEW s
  PROVE  /\ AnswerTo(r, s) \in Answers \ {"none"}
         /\ AnswerTo(r, s) = "accepted" =>
              /\ IsSupportedFile(r.name, r.type)
              /\ r.backend \in Enabled(s)
              /\ IsParserBackendSupported(r.name, r.type, r.backend)
<1> DEFINE failed == {i \in DOMAIN Checks(r, s) : Checks(r, s)[i][1]}
           first  == CHOOSE i \in failed : \A k \in failed : i <= k
<1>1. AnswerTo(r, s) = IF failed = {} THEN "accepted" ELSE Checks(r, s)[first][2]
  BY DEF AnswerTo
<1>2. failed \in SUBSET (1..5)
  BY CheckTable
<1>3. CASE failed = {}
  <2>1. ~Checks(r, s)[3][1] /\ ~Checks(r, s)[4][1] /\ ~Checks(r, s)[5][1]
    BY <1>3, CheckTable
  <2>2. QED BY <1>1, <1>3, <2>1, CheckTable DEF Answers
<1>4. CASE failed # {}
  <2>1. \E i \in failed : \A k \in failed : i <= k
    BY <1>2, <1>4, FirstOfFive
  <2>2. first \in failed
    <3> HIDE DEF failed
    <3> QED BY <2>1
  <2>3. Checks(r, s)[first][2] \in Answers \ {"none", "accepted"}
    BY <1>2, <2>2, CheckTable
  <2>4. QED BY <1>1, <1>4, <2>3
<1>5. QED BY <1>3, <1>4

(***************************************************************************)
(* The three tables of _is_supported_file,                                 *)
(* _is_parser_backend_supported_for_upload and the source response         *)
(***************************************************************************)
LEMMA MediaTypes ==
  ASSUME NEW name, NEW type
  PROVE  /\ StrippedExtension(name) \in Extensions =>
              DetermineSourceMediaType(name, type) # "octet-stream"
         /\ type.form # "parameters" /\ type.mime \in ContentTypes =>
              DetermineSourceMediaType(name, type) # "octet-stream"
<1>1. DOMAIN MediaTypeOfExtension = Extensions /\ DOMAIN MediaTypeOfContentType = ContentTypes
  BY DEF MediaTypeOfExtension, MediaTypeOfContentType
<1>2. \A e \in Extensions : MediaTypeOfExtension[e] # "octet-stream"
  BY DEF MediaTypeOfExtension, Extensions
<1>3. \A t \in ContentTypes : MediaTypeOfContentType[t] # "octet-stream"
  BY DEF MediaTypeOfContentType, ContentTypes
<1>4. QED BY <1>1, <1>2, <1>3 DEF DetermineSourceMediaType

LEMMA SupportedIsServed ==
  ASSUME NEW name, NEW type \in ContentType, IsSupportedFile(name, type),
         SourceResponse(name, type, "attachment")[2] = "octet-stream"
  PROVE  /\ type.mime \in Images
         /\ type.mime = "gif" \/ type.form = "parameters"
<1>1. DetermineSourceMediaType(name, type) = "octet-stream"
  BY DEF SourceResponse
<1>2. /\ StrippedExtension(name) \notin Extensions
      /\ type.form = "parameters" \/ type.mime \notin ContentTypes
  BY <1>1, MediaTypes
<1>3. RawExtension(name) \notin SupportedExtensions
  BY <1>2 DEF RawExtension, StrippedExtension, SupportedExtensions, Extensions
<1>4. type.form \in {"exact", "cased", "subtype", "parameters"}
  BY DEF ContentType
<1>5. type.mime \in Images
  BY <1>2, <1>3, <1>4 DEF IsSupportedFile
<1>6. type.mime = "gif" \/ type.mime \in ContentTypes
  BY <1>5 DEF Images, ContentTypes
<1>7. QED BY <1>2, <1>5, <1>6

LEMMA PdfIsPreviewed ==
  ASSUME NEW name, NEW type, NEW backend \in PdfOnly,
         IsParserBackendSupported(name, type, backend)
  PROVE  SourceResponse(name, type, "inline") = <<"inline", "pdf">>
BY DEF IsParserBackendSupported, SourceResponse, InlineSafe

-----------------------------------------------------------------------------
(***************************************************************************)
(* The invariant: only an accepted upload reaches the list or the worker   *)
(***************************************************************************)
Accepted ==
  /\ answer = "accepted" => AnswerTo(upload, api.settings) = "accepted"
  /\ job.place = "redis" \/ run # "idle" => answer = "accepted"

(* What has no parser was enabled where it was accepted.                   *)
Unparsed ==
  job.why = "no_parser" =>
    upload.backend \in Enabled(api.settings) \ Parsers(worker.settings)

UploadInv == TypeOK /\ Accepted /\ Unparsed

JobRow == [status : {"absent", "queued", "processing", "succeeded", "failed"},
           place : Places, why : {"none", "source", "input", "no_parser", "parser"}]

LEMMA UploadInit == Init => UploadInv
<1> SUFFICES ASSUME Init PROVE UploadInv
  OBVIOUS
<1>1. TypeOK
  BY DEF Init, TypeOK, Process, Answers, Places, RunPcs
<1>2. QED BY <1>1 DEF Init, UploadInv, Accepted, Unparsed

(* the two ways in which the worker moves on *)
LEMMA WorkerMoves ==
  ASSUME UploadInv, answer = "accepted", NEW pc \in RunPcs, Moves(pc)
  PROVE  UploadInv'
BY DEF Moves, UploadInv, TypeOK, Accepted, Unparsed

LEMMA WorkerEnds ==
  ASSUME UploadInv, answer = "accepted", NEW status \in {"succeeded", "failed"},
         NEW why \in {"none", "source", "input", "no_parser", "parser"}, Ends(status, why),
         why = "no_parser" => upload.backend \notin Parsers(worker.settings)
  PROVE  UploadInv'
<1>0. job \in JobRow
  BY DEF UploadInv, TypeOK, JobRow
<1>1. PICK row : row = [job EXCEPT !.status = status, !.why = why]
  OBVIOUS
<1>2. row \in JobRow /\ row.status = status /\ row.why = why
  BY <1>0, <1>1 DEF JobRow
<1>3. job' = row /\ run' = "done" /\ UNCHANGED <<api, worker, upload, answer>>
  BY <1>1 DEF Ends
<1>4. TypeOK'
  BY <1>2, <1>3 DEF UploadInv, TypeOK, JobRow, RunPcs
<1>5. Accepted'
  BY <1>3 DEF UploadInv, Accepted
<1>6. upload.backend \in Enabled(api.settings)
  BY AnswersOfChecks DEF UploadInv, Accepted
<1>7. Unparsed'
  BY <1>2, <1>3, <1>6 DEF Unparsed
<1>8. QED BY <1>4, <1>5, <1>7 DEF UploadInv

LEMMA ProcessesStart ==
  ASSUME UploadInv, StartApi \/ StartWorker
  PROVE  UploadInv'
<1>1. CASE StartApi
  <2>1. PICK state \in {"up", "refused"} : api' = [api EXCEPT !.state = state]
    BY <1>1 DEF StartApi
  <2>2. api' \in Process(ApiSettings) /\ api'.settings = api.settings
    BY <2>1 DEF UploadInv, TypeOK, Process
  <2>3. UNCHANGED <<worker, upload, answer, job, run>>
    BY <1>1 DEF StartApi
  <2>4. QED
    BY <2>2, <2>3 DEF UploadInv, TypeOK, Accepted, Unparsed
<1>2. CASE StartWorker
  <2>1. PICK state \in {"up", "refused"} : worker' = [worker EXCEPT !.state = state]
    BY <1>2 DEF StartWorker
  <2>2. worker' \in Process(WorkerSettings) /\ worker'.settings = worker.settings
    BY <2>1 DEF UploadInv, TypeOK, Process
  <2>3. UNCHANGED <<api, upload, answer, job, run>>
    BY <1>2 DEF StartWorker
  <2>4. QED
    BY <2>2, <2>3 DEF UploadInv, TypeOK, Accepted, Unparsed
<1>3. QED BY <1>1, <1>2

LEMMA UploadCreated ==
  ASSUME UploadInv, CreateDocument
  PROVE  UploadInv'
<1>0. job \in JobRow /\ api \in Process(ApiSettings)
  BY DEF UploadInv, TypeOK, JobRow
<1>1. /\ answer = "none" /\ answer' = AnswerTo(upload, api.settings)
      /\ UNCHANGED <<api, worker, upload, run>>
  BY DEF CreateDocument
<1>2. answer' \in Answers
  BY <1>1, AnswersOfChecks
<1>3. job.place # "redis" /\ run = "idle"
  BY <1>1 DEF UploadInv, Accepted
<1>4. /\ job' \in JobRow /\ job'.why = job.why
      /\ answer' # "accepted" => job' = job
  <2>1. CASE answer' = "accepted"
    <3>1. Enqueued(api.settings) \in Places
      <4>1. api.settings.queue \in {"redis", "memory", "logging"}
        BY <1>0, InputsType DEF Process, Setting
      <4>2. QED BY <4>1 DEF Enqueued, Places
    <3>2. PICK place \in Places : place = Enqueued(api.settings)
      BY <3>1
    <3>3. job' = [job EXCEPT !.status = "queued", !.place = place]
      BY <1>1, <2>1, <3>2 DEF CreateDocument
    <3>4. QED BY <1>0, <2>1, <3>3 DEF JobRow
  <2>2. CASE answer' # "accepted"
    BY <1>0, <1>1, <2>2 DEF CreateDocument
  <2>3. QED BY <2>1, <2>2
<1>5. TypeOK'
  BY <1>1, <1>2, <1>4 DEF UploadInv, TypeOK, JobRow
<1>6. Accepted'
  BY <1>1, <1>3, <1>4 DEF Accepted
<1>7. QED BY <1>1, <1>4, <1>5, <1>6 DEF UploadInv, Unparsed

LEMMA WorkerSteps ==
  ASSUME UploadInv, RunOnce \/ Parse
  PROVE  UploadInv'
<1>1. CASE StartJob
  <2>0. job \in JobRow /\ job.place = "redis" /\ answer = "accepted"
    BY <1>1 DEF StartJob, UploadInv, TypeOK, JobRow, Accepted
  <2>1. /\ job' = [job EXCEPT !.status = "processing", !.place = "nowhere"]
        /\ run' = "fetching" /\ UNCHANGED <<api, worker, upload, answer>>
    BY <1>1 DEF StartJob
  <2>2. job' \in JobRow /\ job'.why = job.why
    BY <2>0, <2>1 DEF JobRow, Places
  <2>3. TypeOK'
    BY <2>1, <2>2 DEF UploadInv, TypeOK, JobRow, RunPcs
  <2>4. QED
    BY <2>0, <2>1, <2>2, <2>3 DEF UploadInv, Accepted, Unparsed
<1>2. CASE FetchSource
  <2>1. answer = "accepted" /\ (Moves("writing") \/ Ends("failed", "source"))
    BY <1>2 DEF FetchSource, UploadInv, Accepted
  <2>2. QED BY <2>1, WorkerMoves, WorkerEnds DEF RunPcs
<1>3. CASE WriteInput
  <2>1. answer = "accepted" /\ (Moves("choosing") \/ Ends("failed", "input"))
    BY <1>3 DEF WriteInput, UploadInv, Accepted
  <2>2. QED BY <2>1, WorkerMoves, WorkerEnds DEF RunPcs
<1>4. CASE ChooseParser
  <2>1. answer = "accepted"
    BY <1>4 DEF ChooseParser, UploadInv, Accepted
  <2>2. CASE Moves("parsing")
    BY <2>1, <2>2, WorkerMoves DEF RunPcs
  <2>3. CASE upload.backend \notin Parsers(worker.settings) /\ Ends("failed", "no_parser")
    BY <2>1, <2>3, WorkerEnds
  <2>4. QED BY <1>4, <2>2, <2>3 DEF ChooseParser
<1>5. CASE Parse
  <2>1. answer = "accepted"
    BY <1>5 DEF Parse, UploadInv, Accepted
  <2>2. QED BY <1>5, <2>1, WorkerEnds DEF Parse
<1>6. CASE ParserTimesOut
  <2>1. answer = "accepted" /\ Ends("failed", "parser")
    BY <1>6 DEF ParserTimesOut, UploadInv, Accepted
  <2>2. QED BY <2>1, WorkerEnds
<1>7. QED BY <1>1, <1>2, <1>3, <1>4, <1>5, <1>6 DEF RunOnce

LEMMA UploadNext == UploadInv /\ [Next]_vars => UploadInv'
<1> SUFFICES ASSUME UploadInv, [Next]_vars PROVE UploadInv'
  OBVIOUS
<1>1. CASE UNCHANGED vars
  BY <1>1 DEF vars, UploadInv, TypeOK, Accepted, Unparsed
<1>2. QED BY <1>1, ProcessesStart, UploadCreated, WorkerSteps DEF Next

(***************************************************************************)
(* The inductive invariant, from whichever settings the two processes and  *)
(* whichever request start.                                                *)
(***************************************************************************)
THEOREM UploadInvariant == Spec => []UploadInv
<1>1. QED BY UploadInit, UploadNext, PTL DEF Spec

-----------------------------------------------------------------------------
(***************************************************************************)
(* The processes, the request, the row and the worker's run keep the types *)
(* the code gives them.                                                    *)
(***************************************************************************)
THEOREM UploadsTyped == Spec => []TypeOK
<1>1. UploadInv => TypeOK
  BY DEF UploadInv
<1>2. QED BY <1>1, UploadInvariant, PTL

(***************************************************************************)
(* For every name and content type: what the upload's checks let through   *)
(* is served with a type of its own unless it is an image that no table    *)
(* names, and what a PDF parser is given is previewed as a PDF.            *)
(***************************************************************************)
THEOREM TablesAgree == Spec => []TypesAgree
<1>1. UploadInv => TypesAgree
  <2> SUFFICES ASSUME UploadInv PROVE TypesAgree
    OBVIOUS
  <2>1. upload.type \in ContentType
    BY InputsType DEF UploadInv, TypeOK, Request
  <2>2. answer = "accepted" =>
          /\ IsSupportedFile(upload.name, upload.type)
          /\ IsParserBackendSupported(upload.name, upload.type, upload.backend)
    BY AnswersOfChecks DEF UploadInv, Accepted
  <2>3. run = "parsing" => answer = "accepted"
    BY DEF UploadInv, Accepted
  <2>4. QED BY <2>1, <2>2, <2>3, SupportedIsServed, PdfIsPreviewed DEF TypesAgree
<1>2. QED BY <1>1, UploadInvariant, PTL

(***************************************************************************)
(* Whatever the two lists of enabled backends are: no accepted job fails   *)
(* for want of a parser unless the API enables document_ai and the worker  *)
(* does not, because the API's check stands before every push and the      *)
(* worker always has the two other parsers.                                *)
(***************************************************************************)
THEOREM AcceptedIsParsed == Spec => []AcceptedHasParser
<1>1. UploadInv => AcceptedHasParser
  <2> SUFFICES ASSUME UploadInv, job.why = "no_parser"
               PROVE  /\ "document_ai" \in Enabled(api.settings)
                      /\ "document_ai" \notin Enabled(worker.settings)
    BY DEF AcceptedHasParser
  <2>1. upload.backend \in Enabled(api.settings) \ Parsers(worker.settings)
    BY DEF UploadInv, Unparsed
  <2>2. upload.backend \in Backends
    BY InputsType DEF UploadInv, TypeOK, Request
  <2>3. upload.backend = "document_ai"
    BY <2>1, <2>2 DEF Backends, Parsers
  <2>4. QED BY <2>1, <2>3 DEF Parsers
<1>2. QED BY <1>1, UploadInvariant, PTL
=============================================================================
