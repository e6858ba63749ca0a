------------------------------ MODULE Uploads ------------------------------
(***************************************************************************)
(* One upload across two processes that are configured apart: the settings *)
(* each starts with, the checks of POST /documents on file name, content   *)
(* type and parser backend, the queue backend that does or does not reach  *)
(* the worker, the worker's parsers, and the media type with which GET     *)
(* /documents/{id}/source serves the file.                                 *)
(*                                                                         *)
(* Names and types keep what the code looks at.  A file name is the        *)
(* sequence of its parts between slashes; of a part the code sees whether  *)
(* it is empty, blank, "." or "..", its extension in any case, and whether *)
(* blanks follow.  A content type is one the tables name, or another, as   *)
(* written there, in other case before the slash or only after it          *)
(* ("subtype"), or with parameters.                                        *)
(***************************************************************************)
EXTENDS Naturals, Sequences

CONSTANTS Requests,         \* upload requests a client may send
          ApiSettings,      \* environments the API process may start in
          WorkerSettings    \* and the worker process

VARIABLES api, worker,   \* [settings, state] of the two processes
          upload,        \* the one request
          answer,        \* its answer, "none" before
          job,           \* row of parse_jobs and where its message is
          run            \* what the worker does with it

vars == <<api, worker, upload, answer, job, run>>

Backends == {"markitdown", "pdftotext", "document_ai"}

-----------------------------------------------------------------------------
(***************************************************************************)
(* Settings: enabled is the list as written, blank and unknown entries     *)
(* included; case, order and repetition do not matter.  Two processes with *)
(* one storage_backend have one root or bucket, and with Redis one list;   *)
(* "r2partial" is R2 with a bucket, an endpoint or a key missing.          *)
(***************************************************************************)
Setting == [enabled : SUBSET (Backends \cup {"blank", "unknown"}),
            queue : {"redis", "memory", "logging"}, url : BOOLEAN, script : BOOLEAN,
            storage : {"local", "r2", "r2partial"}]

Enabled(s) == s.enabled \ {"blank"}

HasBackends(s) == Enabled(s) # {}

RequirementsMet(s) == /\ s.storage # "r2partial"
                      /\ s.queue = "redis" => s.url
                      /\ Enabled(s) \subseteq Backends

Valid(s) == HasBackends(s) /\ RequirementsMet(s)

WorkerStarts(s) == Valid(s) /\ ("document_ai" \in Enabled(s) => s.script)

Parsers(s) == {"markitdown", "pdftotext"} \cup ({"document_ai"} \cap Enabled(s))

StartApi ==
  /\ api.state = "down"
  /\ api' = [api EXCEPT !.state = IF Valid(api.settings) THEN "up" ELSE "refused"]
  /\ UNCHANGED <<worker, upload, answer, job, run>>

StartWorker ==
  /\ worker.state = "down"
  /\ worker' = [worker EXCEPT !.state =
                  IF WorkerStarts(worker.settings) THEN "up" ELSE "refused"]
  /\ UNCHANGED <<api, upload, answer, job, run>>

-----------------------------------------------------------------------------
(***************************************************************************)
(* File names and content types                                            *)
(***************************************************************************)
Extensions == {"docx", "hwp", "hwpx", "jpeg", "jpg", "pdf", "pptx", "png", "xlsx"}

Part == [kind : {"file", "empty", "blank", "dot", "dotdot"},
         ext : Extensions \cup {"gif", "none"}, padded : BOOLEAN]

LastPart(name) == name[Len(name)]

BlankName(name) == Len(name) = 1 /\ name[1].kind \in {"empty", "blank"}

(* endswith on the name as sent, and on the stripped name *)
RawExtension(name)      == IF LastPart(name).padded THEN "none" ELSE LastPart(name).ext
StrippedExtension(name) == LastPart(name).ext

ContentTypes == {"pdf", "docx", "pptx", "xlsx", "png", "jpeg", "x-hwp", "haansoft-hwp",
                 "hancom-hwp", "haansoft-hwpx", "hancom-hwpx"}
Images       == {"png", "jpeg", "gif"}
ContentType  == [mime : ContentTypes \cup {"gif", "other", "absent"},
                 form : {"exact", "cased", "subtype", "parameters"}]

SupportedExtensions == {"docx", "pdf", "pptx", "hwp", "hwpx", "png", "jpg", "jpeg", "xlsx"}

IsSupportedFile(name, type) ==
  \/ RawExtension(name) \in SupportedExtensions
  \/ type.form = "exact" /\ type.mime \in ContentTypes
  \/ type.form # "cased" /\ type.mime \in Images

(* SOURCE_MEDIA_TYPES_BY_EXTENSION and SOURCE_MEDIA_TYPES_BY_CONTENT_TYPE *)
MediaTypeOfExtension == [e \in Extensions |-> IF e = "jpg" THEN "jpeg" ELSE e]

MediaTypeOfContentType ==
  [t \in ContentTypes |->
     CASE t \in {"x-hwp", "haansoft-hwp", "hancom-hwp"} -> "hwp"
       [] t \in {"haansoft-hwpx", "hancom-hwpx"} -> "hwpx"
       [] OTHER -> t]

DetermineSourceMediaType(name, type) ==
  IF StrippedExtension(name) \in DOMAIN MediaTypeOfExtension
  THEN MediaTypeOfExtension[StrippedExtension(name)]
  ELSE IF type.form # "parameters" /\ type.mime \in DOMAIN MediaTypeOfContentType
       THEN MediaTypeOfContentType[type.mime]
       ELSE "octet-stream"

PdfOnly == {"pdftotext", "document_ai"}

DeclaredPdf(name, type, backend) ==   \* deviant
  backend \notin PdfOnly \/ type.mime = "pdf"

IsParserBackendSupported(name, type, backend) ==
  backend \notin PdfOnly \/ DetermineSourceMediaType(name, type) = "pdf"

(* the source response: <<disposition, media type>> *)
InlineSafe == {"pdf", "jpeg", "png"}

SourceResponse(name, type, disposition) ==
  LET media == DetermineSourceMediaType(name, type)
  IN  IF disposition = "inline" /\ media \notin InlineSafe
      THEN <<"attachment", "octet-stream">>
      ELSE <<disposition, media>>

-----------------------------------------------------------------------------
(***************************************************************************)
(* POST /documents: the checks in their order, then create_job             *)
(***************************************************************************)
Request == [name : Seq(Part) \ {<<>>}, type : ContentType, backend : Backends,
            empty : BOOLEAN]

ASSUME InputsType == /\ Requests \subseteq Request
                     /\ ApiSettings \cup WorkerSettings \subseteq Setting

Answers == {"none", "missing_filename", "empty_file", "unsupported_file_type",
            "parser_backend_disabled", "unsupported_parser_backend_for_file_type",
            "accepted"}

NotCheckingBackend(r, s) ==   \* deviant
  << <<BlankName(r.name), "missing_filename">>,
     <<r.empty, "empty_file">>,
     <<~IsSupportedFile(r.name, r.type), "unsupported_file_type">>,
     <<~IsParserBackendSupported(r.name, r.type, r.backend),
       "unsupported_parser_backend_for_file_type">> >>

Checks(r, s) ==
  << <<BlankName(r.name), "missing_filename">>,
     <<r.empty, "empty_file">>,
     <<~IsSupportedFile(r.name, r.type), "unsupported_file_type">>,
     <<r.backend \notin Enabled(s), "parser_backend_disabled">>,
     <<~IsParserBackendSupported(r.name, r.type, r.backend),
       "unsupported_parser_backend_for_file_type">> >>

AnswerTo(r, s) ==
  LET failed == {i \in DOMAIN Checks(r, s) : Checks(r, s)[i][1]}
      first  == CHOOSE i \in failed : \A k \in failed : i <= k
  IN  IF failed = {} THEN "accepted" ELSE Checks(r, s)[first][2]

(* get_parse_job_queue and the backend's enqueue_parse_job: Redis, a list  *)
(* of the API process, or a line of its log                                *)
Places == {"redis", "api", "nowhere"}

BackendName(s) == s.queue   \* deviant

Enqueued(s) == CASE s.queue = "redis" -> "redis"
                 [] s.queue = "memory" -> "api"
                 [] s.queue = "logging" -> "nowhere"

CreateDocument ==
  LET a == AnswerTo(upload, api.settings)
  IN  /\ api.state = "up" /\ answer = "none"
      /\ answer' = a
      /\ job' = IF a = "accepted"
                THEN [job EXCEPT !.status = "queued", !.place = Enqueued(api.settings)]
                ELSE job
      /\ UNCHANGED <<api, worker, upload, run>>

-----------------------------------------------------------------------------
(***************************************************************************)
(* The worker.  A memory or logging queue of its own never holds a job.    *)
(***************************************************************************)
RunPcs == {"idle", "fetching", "writing", "choosing", "parsing", "done"}

Ends(status, why) ==
  /\ job' = [job EXCEPT !.status = status, !.why = why]
  /\ run' = "done"
  /\ UNCHANGED <<api, worker, upload, answer>>

Moves(pc) == run' = pc /\ UNCHANGED <<api, worker, upload, answer, job>>

StartJob ==
  /\ run = "idle" /\ worker.state = "up"
  /\ worker.settings.queue = "redis" /\ job.place = "redis"
  /\ job' = [job EXCEPT !.status = "processing", !.place = "nowhere"]
  /\ run' = "fetching"
  /\ UNCHANGED <<api, worker, upload, answer>>

(* storage.get_bytes: the object is where the API process put it *)
FetchSource ==
  LET found == worker.settings.storage = api.settings.storage
  IN  /\ run = "fetching"
      /\ \/ found /\ Moves("writing")
         \/ ~found /\ Ends("failed", "source")

(* working_dir / Path(job.filename).name, where Path drops "" and "."; any  *)
(* name may be too long, and the disk full                                 *)
PathParts(name) == SelectSeq(name, LAMBDA p : p.kind \notin {"empty", "dot"})

Writable(name) == /\ PathParts(name) # <<>>
                  /\ LastPart(PathParts(name)).kind # "dotdot"

WriteInput ==
  /\ run = "writing"
  /\ \/ Writable(upload.name) /\ Moves("choosing")
     \/ Ends("failed", "input")

ChooseParser ==
  /\ run = "choosing"
  /\ \/ upload.backend \in Parsers(worker.settings) /\ Moves("parsing")
     \/ /\ upload.backend \notin Parsers(worker.settings)
        /\ Ends("failed", "no_parser")

(* The parser raises (its program or library failed, its output is not     *)
(* there or has no text) or returns text; complete_job or fail_job follow  *)
(* at once.                                                                *)
Parse ==
  /\ run = "parsing"
  /\ Ends("failed", "parser") \/ Ends("succeeded", "none")

(* subprocess.run(timeout=parser_timeout_seconds); MarkItDown has none *)
OnlyPdftotextTimed(b) == b = "pdftotext"   \* deviant
HasTimeout(b)         == b \in {"pdftotext", "document_ai"}

ParserTimesOut ==
  /\ run = "parsing" /\ HasTimeout(upload.backend)
  /\ Ends("failed", "parser")

RunOnce == StartJob \/ FetchSource \/ WriteInput \/ ChooseParser \/ ParserTimesOut

-----------------------------------------------------------------------------
Init ==
  /\ api \in [settings : ApiSettings, state : {"down"}]
  /\ worker \in [settings : WorkerSettings, state : {"down"}]
  /\ upload \in Requests
  /\ answer = "none"
  /\ job = [status |-> "absent", place |-> "nowhere", why |-> "none"]
  /\ run = "idle"

Next == StartApi \/ StartWorker \/ CreateDocument \/ RunOnce \/ Parse

Spec == Init /\ [][Next]_vars

(***************************************************************************)
(* The worker's code runs and its time-outs fire; a parser need not come   *)
(* back.                                                                   *)
(***************************************************************************)
FairSpec == Spec /\ WF_vars(RunOnce)

-----------------------------------------------------------------------------
Process(settings) == [settings : settings, state : {"down", "up", "refused"}]

TypeOK ==
  /\ api \in Process(ApiSettings) /\ worker \in Process(WorkerSettings)
  /\ upload \in Requests
  /\ answer \in Answers
  /\ job \in [status : {"absent", "queued", "processing", "succeeded", "failed"},
              place : Places, why : {"none", "source", "input", "no_parser", "parser"}]
  /\ run \in RunPcs

(***************************************************************************)
(* The upload's checks and the source response judge a file alike, each by *)
(* its own table and its own trimming: what was accepted is served with a  *)
(* type of its own unless it is an image no table names, and what a PDF    *)
(* parser is given is previewed as a PDF (_is_supported_file,              *)
(* _is_parser_backend_supported_for_upload,                                *)
(* _resolve_source_response_metadata).                                     *)
(***************************************************************************)
TypesAgree ==
  LET served(d) == SourceResponse(upload.name, upload.type, d)
  IN  /\ answer = "accepted" /\ served("attachment")[2] = "octet-stream" =>
           /\ upload.type.mime \in Images
           /\ upload.type.mime = "gif" \/ upload.type.form = "parameters"
      /\ run = "parsing" /\ upload.backend \in PdfOnly =>
           served("inline") = <<"inline", "pdf">>

(***************************************************************************)
(* The API turns away what its own settings do not enable, and a worker    *)
(* has two parsers whatever its settings say: so no accepted job fails for *)
(* want of a parser, however the two lists differ, unless the API enables  *)
(* document_ai and the worker does not (parser_backend_disabled,           *)
(* _build_parsers).                                                        *)
(***************************************************************************)
AcceptedHasParser ==
  ("document_ai" \in Enabled(api.settings) => "document_ai" \in Enabled(worker.settings))
    => job.why # "no_parser"

(***************************************************************************)
(* An accepted job ends when both processes use Redis and the worker runs, *)
(* unless it is with MarkItDown, which has no time-out.                    *)
(***************************************************************************)
JobEnds ==
  /\ job.place = "redis"
  /\ worker.state = "up" /\ worker.settings.queue = "redis"
  ~> \/ job.status \in {"succeeded", "failed"}
     \/ run = "parsing" /\ upload.backend = "markitdown"
=============================================================================
