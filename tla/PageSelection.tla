--------------------------- MODULE PageSelection ---------------------------
(***************************************************************************)
(* Which pages an archive of page images holds: from the text of `pages`   *)
(* (app/models.py, parse_page_selection and bound_page_selection) over the  *)
(* --pages argument of Typst to the files that are zipped                   *)
(* (app/render/renderer.py).                                                *)
(*                                                                         *)
(* A document may be far longer than an archive may be, and Typst alone     *)
(* knows how long.  So Typst is never asked for all that was selected: it   *)
(* is asked for the pages of closed ranges and, when the selection is open, *)
(* for one page more than fits, the sentinel.  If that page exists the      *)
(* archive is refused.                                                      *)
(*                                                                         *)
(* Text is abstracted to what the pattern tells apart: the comma-separated  *)
(* selections as records, in which end = 0 is a range left open and         *)
(* start = 0 a selection that does not match the pattern.                   *)
(***************************************************************************)
EXTENDS Integers, Sequences, FiniteSets, SequencesExt

CONSTANTS MaxSelections,   \* MAX_PAGE_SELECTION_SEGMENTS
          Limit,           \* settings.max_output_files
          MaxNumber,       \* bound: the largest page number a selection names
          MaxDocument      \* bound: the longest document

ASSUME SelectionsAssumption == MaxSelections \in Nat \ {0}
ASSUME LimitAssumption == Limit \in Nat \ {0}
ASSUME BoundsAssumption == MaxNumber \in Nat \ {0} /\ MaxDocument \in Nat \ {0}

Malformed == [start |-> 0, end |-> 0]
Selection == [start : 1..MaxNumber, end : 0..MaxNumber] \cup {Malformed}

VARIABLES
  at,         \* what happens next
  pages,      \* the selections of the request, none if `pages` is absent
  todo,       \* closed ranges that are still to be merged
  merged,     \* _merge_page_ranges: those that are, less those that are listed
  listed,     \* the closed pages, one by one
  asked,      \* the --pages argument
  document,   \* the length of the document, known to Typst
  outputs,    \* the page files in the temporary directory
  archive,    \* the entries of the archive
  answer

vars == <<at, pages, todo, merged, listed, asked, document, outputs, archive, answer>>

Rule    == {"too_many_segments", "malformed", "end_precedes_start"}
Refusal == Rule \cup {"page_selection_too_large", "pages_do_not_exist",
                      "too_many_output_files"}

TypeOK == /\ at \in {"parse", "bound", "merge", "compile", "collect", "answered"}
          /\ pages \in Seq(Selection)
          /\ todo \subseteq (1..MaxNumber) \X (1..MaxNumber)
          /\ merged \in Seq((1..MaxNumber) \X (1..MaxNumber))
          /\ listed \in Seq(1..MaxNumber)
          /\ asked \in Seq(Nat \ {0})
          /\ document \in 0..MaxDocument
          /\ outputs \subseteq 1..MaxDocument
          /\ archive \in Seq(1..MaxDocument)
          /\ answer \in {"none", "archive"} \cup Refusal
          /\ answer # "none" <=> at = "answered"

Init == /\ at = "parse"
        /\ pages \in BoundedSeq(Selection, MaxSelections + 1)
        /\ todo = {} /\ merged = <<>> /\ listed = <<>> /\ asked = <<>>
        /\ document = 0 /\ outputs = {} /\ archive = <<>>
        /\ answer = "none"

Answered(a) == at' = "answered" /\ answer' = a

-----------------------------------------------------------------------------
(* Parsing *)

Selections == {pages[i] : i \in DOMAIN pages}

\* The rules a selection can break, each only looked at if those before hold.
Broken == IF Len(pages) > MaxSelections THEN "too_many_segments"
          ELSE IF Malformed \in Selections THEN "malformed"
          ELSE IF \E s \in Selections : s.end \in 1..(s.start - 1) THEN "end_precedes_start"
          ELSE "none"

\* The request is validated, before it waits for a permit.
Parse == /\ at = "parse"
         /\ IF Broken = "none" THEN at' = "bound" /\ UNCHANGED answer
                               ELSE Answered(Broken)
         /\ UNCHANGED <<pages, todo, merged, listed, asked, document, outputs, archive>>

-----------------------------------------------------------------------------
(* The bounded selection *)

\* No `pages` means an open range from the first page.
Ranges == IF pages = <<>> THEN {[start |-> 1, end |-> 0]} ELSE Selections

OpenStarts == {s.start : s \in {t \in Ranges : t.end = 0}}
OpenStart  == CHOOSE p \in OpenStarts : \A q \in OpenStarts : p <= q
IsOpen     == OpenStarts # {}

\* Seeded fault: closed ranges are not cut where the open one starts.
UncutRanges == {<<s.start, s.end>> : s \in {t \in Ranges : t.end # 0}}

\* Closed ranges, as far as they lie before the open one.
ClosedRanges ==
  IF ~IsOpen THEN {<<s.start, s.end>> : s \in Ranges}
  ELSE {<<s.start, IF s.end < OpenStart THEN s.end ELSE OpenStart - 1>> :
          s \in {t \in Ranges : t.end # 0 /\ t.start < OpenStart}}

Before(a, b) == a[1] < b[1] \/ (a[1] = b[1] /\ a[2] <= b[2])

Bound == /\ at = "bound"
         /\ todo' = ClosedRanges
         /\ at' = "merge"
         /\ UNCHANGED <<pages, merged, listed, asked, document, outputs, archive, answer>>

\* Seeded fault: ranges that overlap are kept apart.
AlwaysApart(r) == TRUE

\* The range does not touch the last one that was merged.
Apart(r) == merged = <<>> \/ r[1] > Last(merged)[2] + 1

\* for start, end in sorted(ranges)
Merge == /\ at = "merge"
         /\ \E r \in todo :
              /\ \A s \in todo : Before(r, s)
              /\ merged' = IF Apart(r) THEN Append(merged, r)
                           ELSE [merged EXCEPT ![Len(merged)] =
                                   <<@[1], IF r[2] > @[2] THEN r[2] ELSE @[2]>>]
              /\ todo' = todo \ {r}
         /\ UNCHANGED <<at, pages, listed, asked, document, outputs, archive, answer>>

Interval(a, b) == [i \in 1..(b - a + 1) |-> a + i - 1]

\* for start, end in merged: how many pages there are, and which.
ListRange == /\ at = "merge" /\ todo = {} /\ merged # <<>>
             /\ listed' = listed \o Interval(Head(merged)[1], Head(merged)[2])
             /\ merged' = Tail(merged)
             /\ UNCHANGED <<at, pages, todo, asked, document, outputs, archive, answer>>

\* Seeded fault: the last page that fits is the last one asked for.
NoSentinelEnd == OpenStart + (Limit - Len(listed)) - 1

\* One page more than fits.
SentinelEnd == OpenStart + (Limit - Len(listed))

\* A closed selection that is too large is refused before anything is rendered.
Ask == /\ at = "merge" /\ todo = {} /\ merged = <<>>
       /\ IF Len(listed) > Limit
          THEN Answered("page_selection_too_large") /\ UNCHANGED asked
          ELSE /\ asked' = listed \o (IF IsOpen THEN Interval(OpenStart, SentinelEnd)
                                                ELSE <<>>)
               /\ at' = "compile" /\ UNCHANGED answer
       /\ UNCHANGED <<pages, todo, merged, listed, document, outputs, archive>>

-----------------------------------------------------------------------------
(* Typst and the archive *)

\* Typst writes the pages it was asked for that its document has.
Compile == /\ at = "compile"
           /\ document' \in 1..MaxDocument
           /\ outputs' = {p \in 1..document' : \E i \in DOMAIN asked : asked[i] = p}
           /\ at' = "collect"
           /\ UNCHANGED <<pages, todo, merged, listed, asked, archive, answer>>

Increasing(s) == \A i, j \in DOMAIN s : i < j => s[i] < s[j]

\* sorted(outputs): there is one
Sorted(S) == {s \in [1..Cardinality(S) -> S] : Increasing(s)}

TooMany == Cardinality(outputs) > Limit

Archive == /\ at = "collect"
           /\ \/ outputs = {} /\ Answered("pages_do_not_exist") /\ UNCHANGED archive
              \/ TooMany /\ Answered("too_many_output_files") /\ UNCHANGED archive
              \/ /\ outputs # {} /\ ~TooMany
                 /\ archive' \in Sorted(outputs)
                 /\ Answered("archive")
           /\ UNCHANGED <<pages, todo, merged, listed, asked, document, outputs>>

Finished == at = "answered" /\ UNCHANGED vars

Next == Parse \/ Bound \/ Merge \/ ListRange \/ Ask \/ Compile \/ Archive \/ Finished

Spec == Init /\ [][Next]_vars

-----------------------------------------------------------------------------
(* Properties *)

\* What the caller asked for of a document of n pages, in its own words.
Chosen(n) == {p \in 1..n : pages = <<>> \/
                \E i \in DOMAIN pages : /\ pages[i].start <= p
                                        /\ p <= pages[i].end \/ pages[i].end = 0}

\* No archive is partial: it holds every page of the document the caller chose,
\* each once and in order (docs/api/output-formats.md: "Prelum rejects the
\* request rather than returning a partial archive").
NothingCutOff ==
  answer = "archive" => /\ {archive[i] : i \in DOMAIN archive} = Chosen(document)
                        /\ Increasing(archive)

\* Nobody is refused an archive that would have fitted.
RefusedForCause ==
  /\ answer = "too_many_output_files" => Cardinality(Chosen(document)) > Limit
  /\ answer = "page_selection_too_large" => Cardinality(Chosen(MaxNumber)) > Limit
  /\ answer = "pages_do_not_exist" => Chosen(document) = {}

\* Typst's work is bounded whatever the selection and the document: it is asked
\* for at most limit + 1 pages, none of them twice (errors.py,
\* TooManyOutputFilesError: "at most `limit + 1` pages, the extra one a sentinel").
WorkBounded == /\ Len(asked) <= Limit + 1
               /\ Increasing(asked)

=============================================================================
