----------------------------- MODULE MCUploads -----------------------------
(***************************************************************************)
(* An instance of Uploads for TLC: every extension and content type of the *)
(* tables, the odd names and forms, every backend, and the settings that   *)
(* differ in what they allow.                                              *)
(***************************************************************************)
EXTENDS Uploads

File(e)    == [kind |-> "file", ext |-> e, padded |-> FALSE]
Padded(e)  == [File(e) EXCEPT !.padded = TRUE]
Special(k) == [kind |-> k, ext |-> "none", padded |-> FALSE]

Names == {<<File(e)>> : e \in Extensions \cup {"gif", "none"}}
    \cup {<<Padded("pdf")>>, <<Padded("png")>>, <<File("none"), File("pdf")>>,
          <<File("pdf"), Special("empty")>>, <<Special("empty"), Special("empty")>>,
          <<Special("dotdot")>>, <<File("pdf"), Special("dot")>>, <<Special("blank")>>}

Types == [mime : ContentTypes \cup {"gif", "other", "absent"}, form : {"exact"}]
    \cup [mime : {"pdf", "png", "gif", "hancom-hwp"}, form : {"cased", "subtype", "parameters"}]

MCRequests ==
  [name : Names, type : Types, backend : Backends, empty : {FALSE}]
    \cup [name : {<<File("pdf")>>, <<Special("blank")>>}, type : Types,
          backend : {"markitdown"}, empty : {TRUE}]

Settings(enabled, queue, script) ==
  [enabled |-> enabled, queue |-> queue, url |-> TRUE, script |-> script,
   storage |-> "local"]

MCApiSettings ==
  {Settings(Backends, "redis", FALSE), Settings({"markitdown", "pdftotext"}, "redis", FALSE),
   Settings({"markitdown", "pdftotext"}, "memory", FALSE),
   Settings({"markitdown", "blank"}, "logging", FALSE), Settings({"unknown"}, "redis", FALSE),
   [Settings({"pdftotext"}, "redis", FALSE) EXCEPT !.storage = "r2"]}

MCWorkerSettings ==
  {Settings(Backends, "redis", TRUE), Settings(Backends, "redis", FALSE),
   Settings({"pdftotext"}, "redis", FALSE), Settings({"blank"}, "redis", FALSE),
   Settings({"markitdown"}, "memory", FALSE),
   [Settings({"markitdown"}, "redis", FALSE) EXCEPT !.url = FALSE],
   [Settings({"pdftotext"}, "redis", FALSE) EXCEPT !.storage = "r2partial"]}
=============================================================================
