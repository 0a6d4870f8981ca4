------------------------------- MODULE Answers -------------------------------
(***************************************************************************)
(* One request to POST /v1/render from its route to its answer: what can     *)
(* raise on the way, in the order it is met (app/main.py, app/api/routes.py), *)
(* the arms of the route with the two counters they settle, and the handlers  *)
(* that make a problem document of each exception (app/core/errors.py).      *)
(* RequestValidation is the part between the token and the key count; what    *)
(* the wait for a permit and the render do inside is left to RenderService.  *)
(*                                                                         *)
(* FastAPI is external: it reads and parses the body, then runs the          *)
(* dependencies (the token), then validates.                                *)
(***************************************************************************)
EXTENDS Integers, Sequences, FiniteSets, SequencesExt

CONSTANTS StandardLists, MaxStandards, MaxPublished, MaxEntries,  \* RequestValidation
          MaxKeys,         \* MAX_INLINE_FILE_KEYS
          MaxInlineFiles   \* settings.max_inline_files

ASSUME KeysAssumption == MaxKeys \in Nat \ {0} /\ MaxInlineFiles \in Nat \ {0}

VARIABLES at, request, errors, response,   \* as in RequestValidation
          files,      \* how many files the request holds, once that matters
          permitted,  \* whether it was given a permit
          cause,      \* what was raised at last, and where
          total,      \* the labels render_total was counted up with
          failed,     \* the labels render_errors_total was counted up with
          logged,     \* the levels of what was logged about the failure
          answer      \* the problem or the document, as a sequence of at most one

countVars == <<total, failed>>
vars == <<at, request, errors, response, files, permitted, cause, countVars, logged, answer>>

V == INSTANCE RequestValidation

ASSUME RequestsAssumption == V!Assumptions

\* What render() raises: AppErrors by their code, and others.
RenderCode == {"invalid_file_data", "template_source_too_large", "template_file_too_large",
               "string_too_large", "page_selection_too_large", "template_compile_failed",
               "render_timeout", "output_too_large", "too_many_output_files", "render_failed"}
Other      == "Exception"
Cancelled  == "CancelledError"

Codes == RenderCode \cup {"invalid_request", "unsupported_format", "invalid_template_path",
                          "forbidden", "not_found", "method_not_allowed",
                          "request_too_large", "render_queue_full", "service_unavailable"}

\* What a class of errors.py declares.
Class(status, origin) == [status |-> status, origin |-> origin]

\* The classes by their code, with the origin that shedding load has.
Declared(shed) ==
  [c \in Codes |->
     CASE c \in {"invalid_request", "unsupported_format", "invalid_template_path",
                 "invalid_file_data"} -> Class(400, "request")
       [] c = "forbidden" -> Class(403, "request")
       [] c = "not_found" -> Class(404, "request")
       [] c = "method_not_allowed" -> Class(405, "request")
       [] c = "render_timeout" -> Class(408, "request")
       [] c \in {"string_too_large", "request_too_large", "output_too_large",
                 "page_selection_too_large", "too_many_output_files"} -> Class(413, "request")
       [] c \in {"template_source_too_large", "template_file_too_large"} -> Class(413, "template")
       [] c = "template_compile_failed" -> Class(422, "template")
       [] c = "render_queue_full" -> Class(429, shed)
       [] c = "render_failed" -> Class(500, "service")
       [] c = "service_unavailable" -> Class(503, "service")]

\* Seeded fault: a class that does not declare its origin has AppError's.
ProblemsByDefault == Declared("service")

Problems == Declared("capacity")

Init == /\ at = "routing"
        /\ request = <<>> /\ errors = <<>> /\ response = <<>> /\ files = 0
        /\ permitted = FALSE /\ cause = "none"
        /\ total = <<>> /\ failed = <<>> /\ logged = <<>> /\ answer = <<>>

bodyVars == <<request, errors, response, files>>

-----------------------------------------------------------------------------
(* Answers *)

\* to_response, and what the handlers set on it.
Respond(code, headers) ==
  /\ answer' = <<[code |-> code, status |-> Problems[code].status,
                  origin |-> Problems[code].origin, headers |-> headers]>>
  /\ at' = "answered"

\* app_error_handler: the origin is what is logged by.
Level(code) == IF Problems[code].origin = "service" THEN "error" ELSE "warning"

HandleAppError(code, headers) ==
  Respond(code, headers) /\ logged' = Append(logged, Level(code))

\* handle_http_exception: only what the two classes stand for keeps its headers;
\* anything else is told by its status alone.
HandleHttpException(status, headers) ==
  /\ \/ status = 404 /\ Respond("not_found", headers)
     \/ status = 405 /\ Respond("method_not_allowed", headers)
     \/ /\ status \notin {404, 405}
        /\ Respond(IF status < 500 THEN "invalid_request" ELSE "service_unavailable", {})
  /\ UNCHANGED logged

-----------------------------------------------------------------------------
(* Before the route *)

NotRouted == /\ at = "routing"
             /\ \/ cause' = "no such path"   /\ HandleHttpException(404, {})
                \/ cause' = "no such method" /\ HandleHttpException(405, {"Allow"})
             /\ UNCHANGED <<bodyVars, permitted, countVars>>

\* BodyLimitMiddleware answers in place of the application.
BodyRefused == /\ at = "routing"
               /\ cause' = "body over the limit"
               /\ HandleAppError("request_too_large", {})
               /\ UNCHANGED <<bodyVars, permitted, countVars>>

\* Whatever else goes wrong while the body is read is a bare HTTPException(400).
BodyUnreadable == /\ at = "routing"
                  /\ cause' = "body unreadable" /\ HandleHttpException(400, {})
                  /\ UNCHANGED <<bodyVars, permitted, countVars>>

\* json_invalid: a RequestValidationError that no model raised.
NotJson == /\ at = "routing"
           /\ cause' = "not JSON"
           /\ errors' = <<V!Plain("body")>> /\ at' = "handle"
           /\ UNCHANGED <<request, response, files, permitted, countVars, logged, answer>>

Parsed == /\ at = "routing"
          /\ request' \in V!Request
          /\ at' = "authorizing"
          /\ UNCHANGED <<errors, response, files, permitted, cause, countVars, logged, answer>>

\* require_api_token
Authorize == /\ at = "authorizing"
             /\ \/ /\ at' = "files_count"
                   /\ UNCHANGED <<cause, logged, answer>>
                \/ cause' = "wrong token" /\ HandleAppError("forbidden", {})
             /\ UNCHANGED <<bodyVars, permitted, countVars>>

Validate == /\ at \in {"files_count", "source", "files", "output", "extra", "keys"}
            /\ \/ V!BoundFilesCount \/ V!ValidateSource \/ V!ValidateFiles
               \/ V!ValidateOutput \/ V!RefuseExtra \/ V!ValidateFileKeys
            /\ UNCHANGED <<files, permitted, cause, countVars, logged, answer>>

Handle == V!HandleValidationError
            /\ UNCHANGED <<files, permitted, cause, countVars, logged, answer>>

\* handle_validation_error, its last line.
AnswerInvalid == /\ at = "refused"
                 /\ cause' = IF cause = "none" THEN "invalid" ELSE cause
                 /\ Respond(response[1].code, {})
                 /\ UNCHANGED <<bodyVars, permitted, countVars, logged>>

-----------------------------------------------------------------------------
(* The route *)

\* Seeded fault: the structural cap, which is the default of the argument.
StructuralKeyLimit == MaxKeys

EffectiveKeyLimit == IF MaxInlineFiles < MaxKeys THEN MaxInlineFiles ELSE MaxKeys

\* ensure_key_count_fits, ahead of the permit and of any counter.
CheckKeyCount ==
  /\ at = "accepted"
  /\ files' \in 0..MaxKeys
  /\ IF files' > EffectiveKeyLimit
     THEN cause' = "too many files" /\ HandleAppError("invalid_file_data", {})
     ELSE at' = "waiting" /\ UNCHANGED <<cause, logged, answer>>
  /\ UNCHANGED <<request, errors, response, permitted, countVars>>

Acquired == /\ at = "waiting"
            /\ at' = "rendering" /\ permitted' = TRUE
            /\ UNCHANGED <<bodyVars, cause, countVars, logged, answer>>

\* An arm of the try: what it catches, and what it counts.
Arm(catches, status, label) == [catches |-> catches, status |-> status, label |-> label]

\* Seeded fault: the arm of the base class comes first.
ArmsSwapped(exc) ==
  << Arm({Cancelled}, "cancelled", <<>>), Arm(Codes, "error", <<exc>>),
     Arm({"render_timeout"}, "timeout", <<exc>>), Arm({Other}, "error", <<"unhandled">>) >>

Arms(exc) ==
  << Arm({Cancelled}, "cancelled", <<>>), Arm({"render_timeout"}, "timeout", <<exc>>),
     Arm(Codes, "error", <<exc>>), Arm({Other}, "error", <<"unhandled">>) >>

\* The first arm that catches it, and the finally behind all of them.
Settle(exc) ==
  LET arms == Arms(exc)
      arm  == arms[Min({i \in DOMAIN arms : exc \in arms[i].catches})]
  IN  total' = Append(total, arm.status) /\ failed' = failed \o arm.label

\* Out of the route: what is not an AppError becomes one.  A task that is cancelled
\* has nobody to answer.
Raises(exc, headers) ==
  /\ cause' = exc /\ Settle(exc)
  /\ \/ exc = Cancelled /\ at' = "abandoned" /\ UNCHANGED <<logged, answer>>
     \/ /\ exc = Other /\ Respond("service_unavailable", {})
        /\ logged' = logged \o <<"error", Level("service_unavailable")>>
     \/ exc \in Codes /\ HandleAppError(exc, headers)
  /\ UNCHANGED <<bodyVars, permitted>>

\* ServiceOverloadedError; the jitter only adds.
QueueTimeout == at = "waiting" /\ Raises("render_queue_full", {"Retry-After"})

Disconnect == at \in {"waiting", "rendering"} /\ Raises(Cancelled, {})

RenderRaises == \E exc \in RenderCode \cup {Other} : at = "rendering" /\ Raises(exc, {})

Rendered == /\ at = "rendering"
            /\ total' = Append(total, "success") /\ UNCHANGED failed
            /\ answer' = <<[code |-> "document", status |-> 200, origin |-> "none",
                            headers |-> {"Content-Disposition", "Cache-Control"}]>>
            /\ at' = "answered"
            /\ UNCHANGED <<bodyVars, permitted, cause, logged>>

Finished == at \in {"answered", "abandoned"} /\ UNCHANGED vars

Next == \/ NotRouted \/ BodyRefused \/ BodyUnreadable \/ NotJson \/ Parsed \/ Authorize
        \/ Validate \/ Handle \/ AnswerInvalid
        \/ CheckKeyCount \/ Acquired \/ QueueTimeout \/ Disconnect \/ RenderRaises \/ Rendered
        \/ Finished

Spec == Init /\ [][Next]_vars

-----------------------------------------------------------------------------
(* Properties *)

\* From RequestValidation, of requests on their whole way.
MirrorAgrees     == at \in {"accepted", "refused"} /\ cause = "none" => V!MirrorAgrees
OneErrorReported == V!OneErrorReported

Answered(code) == answer # <<>> /\ answer[1].code = code

\* The two counters and the answer tell one story (routes.py: "the two counters
\* have to agree on every outcome"; metrics.py: error_type is "the same value the
\* caller reads in the problem body").  Every request that got as far as the wait
\* is counted once, none that was refused before is, and none of those had a
\* permit or more files than the instance publishes as its limit.
CountersAgree ==
  /\ at \notin {"answered", "abandoned"} => total = <<>> /\ failed = <<>>
  /\ Len(failed) <= Len(total) /\ Len(total) <= 1
  /\ permitted => files <= MaxInlineFiles /\ (at \in {"answered", "abandoned"} => total # <<>>)
  /\ total = <<"success">> <=> Answered("document")
  /\ total = <<"cancelled">> <=> at = "abandoned"
  /\ total = <<"timeout">> <=> Answered("render_timeout")
  /\ failed = <<>> <=> total \in {<<>>, <<"success">>, <<"cancelled">>}
  /\ failed # <<>> => \/ Answered(failed[1])
                      \/ failed = <<"unhandled">> /\ Answered("service_unavailable")

\* Where the fault is Prelum's own, the answer says so in its status, its origin
\* and the level of the log, which is what pages; nowhere else does any of them
\* (errors.py: "one classification drives both").  Shedding load is neither side's
\* fault, and the only answer that says when to come back.
BlameAgrees ==
  answer # <<>> =>
    LET ours == cause \in {Other, "render_failed"} IN
    /\ answer[1].status >= 500 <=> ours
    /\ answer[1].origin = "service" <=> ours
    /\ "error" \in Range(logged) <=> ours
    /\ answer[1].origin = "capacity" <=> cause = "render_queue_full"
    /\ "Retry-After" \in answer[1].headers <=> cause = "render_queue_full"

=============================================================================
