------------------------- MODULE RequestValidation -------------------------
(***************************************************************************)
(* From the body of POST /v1/render to a render job or a problem document:  *)
(* the validators of app/models.py in the order Pydantic runs them, and the *)
(* handler of app/main.py that makes one answer of what they found.         *)
(*                                                                         *)
(* Pydantic is external: it validates the fields of a model in the order    *)
(* they are declared, inherited ones first, then refuses what is left over, *)
(* and collects the errors of all of them; a validator that needs a whole   *)
(* model runs only if there were none.                                      *)
(*                                                                         *)
(* The rules between the options of an output are also published, in        *)
(* app/core/output_rules.py, for callers that check before they send.  Here *)
(* both are stated, each from its own source.                               *)
(*                                                                         *)
(* A text of pages is abstracted to the page rules it breaks (PageSelection *)
(* looks inside), the files to what is wrong with them (FileKeys does).     *)
(***************************************************************************)
EXTENDS Integers, Sequences, FiniteSets, SequencesExt

CONSTANTS StandardLists,   \* bound: the lists of standards a request names
          MaxStandards,    \* MAX_PDF_STANDARDS
          MaxPublished,    \* _MAX_PUBLISHED_ERRORS
          MaxEntries       \* bound: malformed entries of files

PdfA        == {"a-1b", "a-1a", "a-2b", "a-2u", "a-2a", "a-3b", "a-3u", "a-3a",
                "a-4", "a-4f", "a-4e"}
PdfA4       == {"a-4", "a-4f", "a-4e"}
PdfAVersion == [s \in PdfA |-> CASE s \in {"a-1b", "a-1a"} -> "1.4"
                                 [] s \in PdfA4 -> "2.0"
                                 [] OTHER -> "1.7"]
Tagged      == {"a-1a", "a-2a", "a-3a", "ua-1"}
Version     == {"1.4", "1.5", "1.6", "1.7", "2.0"}

\* What is assumed of the constants.
Assumptions == /\ StandardLists \subseteq Seq(PdfA \cup {"ua-1"})
               /\ <<>> \in StandardLists
               /\ {MaxStandards, MaxPublished, MaxEntries} \subseteq Nat

PageRule == {"page_selection_too_long", "page_selection_too_many_segments",
             "page_selection_malformed", "page_range_end_precedes_start"}

\* RULES, in the order that is published.
Rules == <<"page_selection_too_long", "page_selection_too_many_segments",
           "page_selection_malformed", "page_range_end_precedes_start",
           "duplicate_standards", "multiple_pdf_a_standards", "ua_1_with_pdf_a_4",
           "version_conflicts_with_standard", "ua_1_with_pdf_2_0",
           "pages_with_tagged_standard", "pages_requires_archive", "page_with_archive">>

\* No pages, or pages with the rules they break.
Pages == {<<>>} \cup {<<S>> : S \in SUBSET PageRule}

\* An option of another format, or of none, is "alien".
PdfOutput   == [format : {"pdf"}, version : Version \cup {"none"},
                standards : StandardLists, pages : Pages, alien : BOOLEAN]
ImageOutput == [format : {"png"}, page : {"none", "ok", "bad"},
                archive : {"none", "zip", "bad"}, pages : Pages,
                ppi : {"ok", "bad"}, alien : BOOLEAN]
NoFormat    == [format : {"unknown"}]

Request == [source : {"ok", "bad"}, entries : 0..MaxEntries,
            keys : {"ok", "too_many", "invalid", "collide"},
            output : PdfOutput \cup ImageOutput \cup NoFormat, extra : BOOLEAN]

\* An error, with the type and the rule it carries if it has one.
Error == [loc : {"body", "source", "files", "output"},
          type : {"other", "value_error", "invalid_template_path", "invalid_file_data",
                  "unsupported_format"},
          rule : Range(Rules) \cup {"none", "too_many_keys", "case_collision"}]

VARIABLES at, request, errors,
          response    \* the problem, as a sequence of at most one

vars == <<at, request, errors, response>>

TypeOK == /\ at \in {"files_count", "source", "files", "output", "extra", "keys",
                     "handle", "accepted", "refused"}
          /\ errors \in Seq(Error)
          /\ at = "refused" <=> response # <<>>
          /\ response # <<>> => /\ response[1].detail \in Error
                                /\ response[1].published \in 0..MaxPublished

Init == /\ at = "files_count" /\ request \in Request
        /\ errors = <<>> /\ response = <<>>

-----------------------------------------------------------------------------
(* The rules, as models.py applies them: the first to fail raises. *)

\* Of rules that are checked in a row, the first that is broken.
FirstBroken(rules, broken) == LET where == {i \in DOMAIN rules : rules[i] \in broken}
                              IN IF where = {} THEN "none" ELSE rules[Min(where)]

ParsePages(flaws) ==
  FirstBroken(<<"page_selection_too_long", "page_selection_too_many_segments",
                "page_selection_malformed", "page_range_end_precedes_start">>, flaws)

\* Where the PDF/A standards are in the list.
SelectedPdfA(o) == {i \in DOMAIN o.standards : o.standards[i] \in PdfA}

Duplicates(s) == Cardinality(Range(s)) # Len(s)

VersionConflict(o) == /\ o.version # "none" /\ SelectedPdfA(o) # {}
                      /\ o.version # PdfAVersion[o.standards[Min(SelectedPdfA(o))]]

Ua1WithPdfA4(o) == "ua-1" \in Range(o.standards) /\ PdfA4 \cap Range(o.standards) # {}

Flaw(r, c) == IF c THEN {r} ELSE {}

PdfFlaws(o) ==
       Flaw("duplicate_standards", Duplicates(o.standards))
  \cup Flaw("multiple_pdf_a_standards", Cardinality(SelectedPdfA(o)) > 1)
  \cup Flaw("ua_1_with_pdf_a_4", Ua1WithPdfA4(o))
  \cup Flaw("version_conflicts_with_standard", VersionConflict(o))
  \cup Flaw("ua_1_with_pdf_2_0", o.version = "2.0" /\ "ua-1" \in Range(o.standards))
  \cup Flaw("pages_with_tagged_standard",
            o.pages # <<>> /\ Tagged \cap Range(o.standards) # {})

\* Seeded fault: the version is looked at before the standards are compared.
VersionFirst(o) ==
  FirstBroken(<<"duplicate_standards", "multiple_pdf_a_standards",
                "version_conflicts_with_standard", "ua_1_with_pdf_a_4",
                "ua_1_with_pdf_2_0", "pages_with_tagged_standard">>, PdfFlaws(o))

ValidatePdfOptions(o) ==
  FirstBroken(<<"duplicate_standards", "multiple_pdf_a_standards", "ua_1_with_pdf_a_4",
                "version_conflicts_with_standard", "ua_1_with_pdf_2_0",
                "pages_with_tagged_standard">>, PdfFlaws(o))

ValidateImageOptions(o) ==
  FirstBroken(<<"pages_requires_archive", "page_with_archive">>,
              Flaw("pages_requires_archive", o.archive = "none" /\ o.pages # <<>>)
                \cup Flaw("page_with_archive", o.archive # "none" /\ o.page # "none"))

-----------------------------------------------------------------------------
(* Pydantic's collection of errors *)

When(c, e) == IF c THEN <<e>> ELSE <<>>

Plain(l) == [loc |-> l, type |-> "other", rule |-> "none"]

\* _reject: an output rule keeps the type every failing validator has.
Reject(r) == When(r # "none", [loc |-> "output", type |-> "value_error", rule |-> r])

PagesErrors(o) == IF o.pages = <<>> THEN <<>> ELSE Reject(ParsePages(o.pages[1]))

\* version, standards, pages; or page, archive, pages, ppi.
FieldErrors(o) ==
  IF o.format = "pdf"
  THEN When(Len(o.standards) > MaxStandards, Plain("output")) \o PagesErrors(o)
         \o When(o.alien, Plain("output"))
  ELSE When(o.page = "bad", Plain("output")) \o When(o.archive = "bad", Plain("output"))
         \o PagesErrors(o)
         \o When(o.ppi = "bad", Plain("output")) \o When(o.alien, Plain("output"))

OutputErrors(o) ==
  CASE o.format = "unknown" ->
         <<[loc |-> "output", type |-> "unsupported_format", rule |-> "none"]>>
    [] o.format # "unknown" /\ FieldErrors(o) # <<>> -> FieldErrors(o)
    [] OTHER -> Reject(IF o.format = "pdf" THEN ValidatePdfOptions(o)
                                           ELSE ValidateImageOptions(o))

Collect(here, es, there) == /\ at = here
                            /\ errors' = errors \o es
                            /\ at' = there
                            /\ UNCHANGED <<request, response>>

FilesError(type, r) == [loc |-> "files", type |-> type, rule |-> r]

\* Before any field: too many keys end the validation.
BoundFilesCount ==
  IF request.keys = "too_many"
  THEN Collect("files_count", <<[loc |-> "body", type |-> "invalid_file_data",
                                 rule |-> "too_many_keys"]>>, "handle")
  ELSE Collect("files_count", <<>>, "source")

ValidateSource == Collect("source", When(request.source = "bad", Plain("source")), "files")

\* Two errors for each malformed entry: RenderFile has two fields, both required.
ValidateFiles == Collect("files", [i \in 1..(2 * request.entries) |-> Plain("files")], "output")

ValidateOutput == Collect("output", OutputErrors(request.output), "extra")

RefuseExtra == LET es == When(request.extra, Plain("body")) IN
  Collect("extra", es, IF errors \o es = <<>> THEN "keys" ELSE "handle")

ValidateFileKeys ==
  CASE request.keys = "invalid" ->
         Collect("keys", <<FilesError("invalid_template_path", "none")>>, "handle")
    [] request.keys = "collide" ->
         Collect("keys", <<FilesError("invalid_file_data", "case_collision")>>, "handle")
    [] OTHER -> Collect("keys", <<>>, "accepted")

-----------------------------------------------------------------------------
(* handle_validation_error *)

\* VALIDATION_ERRORS_BY_CODE
Published == {"invalid_template_path", "invalid_file_data", "unsupported_format"}

\* Which of the errors have a code of their own.
Classified == {i \in DOMAIN errors : errors[i].type \in Published}

Reported == errors[IF Classified = {} THEN 1 ELSE Min(Classified)]

Code == IF Classified = {} THEN "invalid_request" ELSE Reported.type

\* Seeded fault: any error that has a rule lends it to the answer.
RuleOfAny == LET named == {i \in DOMAIN errors : errors[i].rule # "none"}
             IN  IF named = {} THEN "none" ELSE errors[Min(named)].rule

Rule == Reported.rule

PublishedErrors == IF Len(errors) > MaxPublished THEN MaxPublished ELSE Len(errors)

HandleValidationError ==
  /\ at = "handle"
  /\ response' = <<[code |-> Code, detail |-> Reported, rule |-> Rule,
                    published |-> PublishedErrors]>>
  /\ at' = "refused"
  /\ UNCHANGED <<request, errors>>

Finished == at \in {"accepted", "refused"} /\ UNCHANGED vars

Next == \/ BoundFilesCount \/ ValidateSource \/ ValidateFiles \/ ValidateOutput
        \/ RefuseExtra \/ ValidateFileKeys \/ HandleValidationError
        \/ Finished

Spec == Init /\ [][Next]_vars

-----------------------------------------------------------------------------
(* What is published *)

\* The rules as the document describes them, none of them assuming another.
Breaks(o, r) ==
  \/ r \in PageRule /\ o.pages # <<>> /\ r \in o.pages[1]
  \/ /\ o.format = "pdf"
     /\ LET S == Range(o.standards) IN
        \/ r = "duplicate_standards" /\ \E i, j \in DOMAIN o.standards :
                                          i # j /\ o.standards[i] = o.standards[j]
        \/ r = "multiple_pdf_a_standards" /\ Cardinality(S \cap PdfA) > 1
        \/ r = "ua_1_with_pdf_a_4" /\ "ua-1" \in S /\ S \cap PdfA4 # {}
        \/ r = "version_conflicts_with_standard"
             /\ o.version # "none" /\ \E s \in S \cap PdfA : PdfAVersion[s] # o.version
        \/ r = "ua_1_with_pdf_2_0" /\ "ua-1" \in S /\ o.version = "2.0"
        \/ r = "pages_with_tagged_standard" /\ o.pages # <<>> /\ S \cap Tagged # {}
  \/ /\ o.format = "png"
     /\ \/ r = "pages_requires_archive" /\ o.pages # <<>> /\ o.archive = "none"
        \/ r = "page_with_archive" /\ o.page # "none" /\ o.archive # "none"

\* Where the rules an output breaks are in the order that is published.
BrokenRules(o) == {i \in DOMAIN Rules : Breaks(o, Rules[i])}

\* What the OpenAPI schema says of an output by itself.
SchemaAllows(o) == /\ o.format # "unknown" /\ ~o.alien
                   /\ o.format = "pdf" => Len(o.standards) <= MaxStandards
                   /\ o.format = "png" => "bad" \notin {o.page, o.archive, o.ppi}

-----------------------------------------------------------------------------
(* Properties *)

OnlyOutputMatters == /\ request.source = "ok" /\ request.entries = 0
                     /\ request.keys = "ok" /\ ~request.extra

\* A caller that applies the published rules in the published order to an output
\* the schema allows comes to the same answer as the service: accepted, or
\* refused for the same rule (output_rules.py: "the first to fail is the one
\* reported in context.rule").
MirrorAgrees ==
  LET o == request.output IN
  OnlyOutputMatters /\ SchemaAllows(o) =>
    /\ at = "accepted" => BrokenRules(o) = {}
    /\ at = "refused" => /\ BrokenRules(o) # {}
                         /\ response[1].rule = Rules[Min(BrokenRules(o))]

\* code, rule and detail of an answer are about one and the same error of the
\* many there may be (main.py: "Reading them from different errors reported a rule
\* the `detail` beside it was not about").
OneErrorReported ==
  response # <<>> =>
    LET p == response[1] IN
    /\ p.detail \in Range(errors)
    /\ p.rule = p.detail.rule
    /\ p.code = (IF p.detail.type \in Published THEN p.detail.type ELSE "invalid_request")

\* docs/api/errors.md: "A request breaking an identified rule *and* something the
\* rules do not name reports the latter, and carries no `rule` until it is fixed".
UnnamedFailureGoesFirst ==
  response # <<>> /\ response[1].rule # "none" => \A e \in Range(errors) : e.rule # "none"

=============================================================================
