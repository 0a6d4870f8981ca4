---------------------------- MODULE InlineProject ----------------------------
(***************************************************************************)
(* What a request becomes on disk: the keys of its files are validated       *)
(* (FileKeys), each file is decoded (FileContent) and written, and the data   *)
(* is written into the prelude of the template that is compiled (Prelude).    *)
(* One request, one step after the other: _write_inline_files and then       *)
(* _write_bound_template of app/render/renderer.py.                         *)
(***************************************************************************)
EXTENDS FileContent, Prelude

CONSTANTS Name, Unsafe, Folded, Candidates, MaxDepth, MaxKeys,   \* as in FileKeys
          MaxFileBytes,    \* settings.max_inline_file_bytes
          EntryName,       \* INLINE_TEMPLATE_FILENAME
          Requests(_)      \* bound: the contents and data that go with some keys

VARIABLES at, keys, exact, disk, next, answer,   \* as in FileKeys
          contents,    \* what each key holds
          sizes,       \* the bytes written for each of the first keys
          data,        \* the request's data
          bound,       \* the text of the entry point, once it is written
          context      \* the context of a StringTooLargeError

keyVars == <<at, keys, exact, disk, next, answer>>
vars    == <<at, keys, exact, disk, next, answer, contents, sizes, data, bound, context>>

Files == INSTANCE FileKeys

ASSUME FilesAssumption == Files!Assumptions
ASSUME EntryNameAssumption == EntryName \in Unsafe /\ Folded[EntryName] \notin Name
ASSUME RequestsAssumption ==
  \A ks \in Files!Distinct : \A r \in Requests(ks) :
    r.contents \in [DOMAIN ks -> Content] /\ r.data \in Value
ASSUME MaxFileBytesAssumption == MaxFileBytes \in Nat

EntryPoint == <<EntryName>>

Init == /\ Files!Init
        /\ \E r \in Requests(keys) : contents = r.contents /\ data = r.data
        /\ sizes = <<>> /\ bound = <<>> /\ context = <<>>

Validate == Files!Validate /\ UNCHANGED <<contents, sizes, data, bound, context>>

-----------------------------------------------------------------------------
(* _write_inline_files: where a key leads is looked at before what it holds. *)

Decoded == DecodeInlineFile(contents[next], MaxFileBytes)

RefuseFile == /\ at = "write" /\ next <= Len(keys)
              /\ ~Files!Escapes(keys[next])
              /\ Decoded.answer # "none"
              /\ at' = "done" /\ answer' = Decoded.answer
              /\ UNCHANGED <<keys, exact, disk, next, contents, sizes, data, bound, context>>

WriteFile == /\ Files!WriteFile
             /\ Files!Escapes(keys[next]) \/ Decoded.answer = "none"
             /\ sizes' = IF next' > next THEN Append(sizes, Decoded.size) ELSE sizes
             /\ UNCHANGED <<contents, data, bound, context>>

-----------------------------------------------------------------------------
(* _write_bound_template *)

LetRequest == <<"#let request =">>
Rest       == <<";", "#let data = request;", "source">>

ASSUME PreludeAssumption == LetRequest \in Text /\ Rest \in Text

\* Seeded fault: the source follows on the heels of the data.
BoundTemplateRunOn(text) == LetRequest \o text \o Tail(Rest)

BoundTemplate(text) == LetRequest \o text \o Rest

WriteBoundTemplate ==
  /\ at = "write" /\ next > Len(keys)
  /\ LET r == JsonToTypst[data] IN
     \/ r.error # <<>> /\ answer' = "string_too_large"
                       /\ context' = r.error[1] /\ UNCHANGED <<bound, disk>>
     \/ r.error = <<>> /\ answer' = "written" /\ bound' = BoundTemplate(r.text)
                       /\ disk' = Files!Written(disk, EntryPoint, Files!Directory, exact)
                       /\ UNCHANGED context
  /\ at' = "done"
  /\ UNCHANGED <<keys, exact, next, contents, sizes, data>>

Finished == at = "done" /\ UNCHANGED vars

Next == Validate \/ RefuseFile \/ WriteFile \/ WriteBoundTemplate \/ Finished

Spec == Init /\ [][Next]_vars

-----------------------------------------------------------------------------
(* Properties *)

\* What is accepted can be written on either kind of file system, so that the
\* checks of the writer never fire (renderer.py: "asserts that already-proven
\* invariant"); and in the end each key finds its own content, lost neither to
\* another key nor to the entry point.
EachFileKept == Files!AcceptedIsWritable /\ Files!EachFileKept

\* The whole-set rules refuse nothing that every file system could hold
\* (templates.py: "something no filesystem can hold ... or something that depends
\* on the host").
RefusedForCause == Files!RefusedForCause

\* A file that is written is as long as what was sent, and within the limit; one
\* that is refused is too large, or cannot be decoded.
LimitIsOnContent ==
  LET Size(c) == IF c.encoding = "base64" THEN DecodedSize(c) ELSE c.bytes
      Sound(c) == IF c.encoding = "base64" THEN WellFormed(c) ELSE c.encodable
  IN  /\ \A i \in DOMAIN sizes : /\ sizes[i] = Size(contents[i])
                                 /\ sizes[i] <= MaxFileBytes
      /\ answer = "template_file_too_large" /\ Sound(contents[next]) =>
           Size(contents[next]) > MaxFileBytes
      /\ answer = "invalid_file_data" => ~Sound(contents[next])

\* The template finds in `request` the data that was sent, less the characters
\* that are stripped, and the expression ends where the prelude goes on: whatever
\* is quoted, nested or empty.  Data that Typst has no spelling for is an error of
\* the compile, and never another value.
DataReadsBack ==
  bound # <<>> =>
    LET r == Reading[<<"value", After(bound, Len(LetRequest))>>] IN
    IF Representable[data] THEN r.value = Cleaned[data] /\ r.rest = Rest
                           ELSE r.value = Error

\* Data is refused for a string over the limit, and only then; the context of the
\* error, put together by frames that do not know where they are, names a string
\* that is over it, by its size before anything was stripped.
PathLeadsToString ==
  /\ answer = "string_too_large" => context \in Offending[data]
  /\ answer = "written" => Offending[data] = {}

=============================================================================
