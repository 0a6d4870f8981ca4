------------------------------ MODULE FileKeys ------------------------------
(***************************************************************************)
(* The keys of a request's files (app/render/templates.py): what is         *)
(* accepted by validate_inline_file_keys is later written, in request       *)
(* order, by _write_inline_files (app/render/renderer.py) to a file system   *)
(* that may or may not tell upper from lower case.                          *)
(*                                                                         *)
(* A key is what splitting its text on "/" gives: a sequence of names, in    *)
(* which "" comes of a slash too many, and the whole-key bound is counted    *)
(* in names.  Unsafe names stand for those with a character outside          *)
(* SAFE_FILENAME_CHARS, or too long.                                        *)
(***************************************************************************)
EXTENDS Integers, Sequences, FiniteSets, SequencesExt

CONSTANTS Name,            \* names made of safe characters, none of them only dots
          Unsafe,          \* names that are not
          Folded,          \* casefold() of each of both
          Candidates,      \* bound: the keys that requests are made of
          MaxDepth,        \* MAX_KEY_LENGTH
          MaxKeys          \* MAX_INLINE_FILE_KEYS

Special == {"", ".", ".."}

VARIABLES
  at,        \* what happens next
  keys,      \* the keys of the request, in order
  exact,     \* whether the file system tells "a" from "A"
  disk,      \* what is below the project root: paths and what is there
  next,      \* the key to be written next
  answer

vars == <<at, keys, exact, disk, next, answer>>

Segment == Name \cup Unsafe \cup Special

\* What a module that instantiates this one has to assume of its constants.
Assumptions == /\ Name \cap (Unsafe \cup Special) = {} /\ Unsafe \cap Special = {}
               /\ Folded \in [Name \cup Unsafe -> Name \cup Unsafe]
               /\ \A n \in Name : Folded[n] \in Name
               /\ \A n \in Name \cup Unsafe : Folded[Folded[n]] = Folded[n]
               /\ MaxDepth \in Nat \ {0} /\ MaxKeys \in Nat \ {0}
               /\ Candidates \subseteq Seq(Segment) \ {<<>>}

\* What is at a path: a directory, or the file of the i-th key.
Directory == 0
Entry     == [path : Seq(Segment) \ {<<>>}, what : 0..MaxKeys]

SetRule == {"too_many_keys", "case_collision", "ancestor_collision"}

TypeOK == /\ at \in {"validate", "write", "done"}
          /\ keys \in Seq(Candidates)
          /\ exact \in BOOLEAN
          /\ disk \subseteq Entry
          /\ next \in 1..(Len(keys) + 1)
          /\ answer \in {"none", "invalid_template_path", "escapes", "cannot_be_written",
                         "template_file_too_large", "invalid_file_data",
                         "string_too_large", "written"} \cup SetRule
          /\ \A e, f \in disk : e.path = f.path => e = f

\* The keys of a mapping are distinct.
Distinct == {ks \in BoundedSeq(Candidates, MaxKeys + 1) :
               \A i, j \in DOMAIN ks : ks[i] = ks[j] => i = j}

Init == /\ at = "validate"
        /\ keys \in Distinct
        /\ exact \in BOOLEAN
        /\ disk = {} /\ next = 1 /\ answer = "none"

-----------------------------------------------------------------------------
(* validate_inline_file_key *)

\* Where the names of PurePosixPath(key).parts are, of a key that is not absolute.
Parts(key) == {i \in DOMAIN key : key[i] \notin {"", "."}}

IsAbsolute(key) == Len(key) > 1 /\ key[1] = ""

ValidKey(key) == /\ key # <<"">>
                 /\ Len(key) <= MaxDepth
                 /\ ~IsAbsolute(key)
                 /\ Parts(key) # {}
                 /\ Parts(key) = DOMAIN key
                 /\ \A i \in DOMAIN key : key[i] # ".." /\ key[i] \in Name

-----------------------------------------------------------------------------
(* validate_inline_file_keys *)

FoldKey(key) == [i \in DOMAIN key |-> Folded[key[i]]]

\* Seeded fault: keys are compared as they are spelt.
SpellingCollision == \E i, j \in DOMAIN keys : i < j /\ keys[i] = keys[j]

\* Seeded fault: two files of one name collide wherever they are.
NameCollision == \E i, j \in DOMAIN keys :
                   i < j /\ Folded[Last(keys[i])] = Folded[Last(keys[j])]

CaseCollision == \E i, j \in DOMAIN keys : i < j /\ FoldKey(keys[i]) = FoldKey(keys[j])

\* Seeded fault: only the directory a file is in is looked up.
ParentCollision ==
  \E i, j \in DOMAIN keys : Len(keys[j]) > 1 /\ FoldKey(keys[i]) = FoldKey(Front(keys[j]))

\* A key that is also a directory of another.
AncestorCollision ==
  \E i, j \in DOMAIN keys : IsStrictPrefix(FoldKey(keys[i]), FoldKey(keys[j]))

TooMany == Len(keys) > MaxKeys

Verdict == IF TooMany THEN "too_many_keys"
           ELSE IF \E i \in DOMAIN keys : ~ValidKey(keys[i]) THEN "invalid_template_path"
           ELSE IF CaseCollision THEN "case_collision"
           ELSE IF AncestorCollision THEN "ancestor_collision"
           ELSE "none"

Validate == /\ at = "validate"
            /\ answer' = Verdict
            /\ at' = IF Verdict = "none" THEN "write" ELSE "done"
            /\ UNCHANGED <<keys, exact, disk, next>>

-----------------------------------------------------------------------------
(* _write_inline_files, and the file system *)

\* The paths a file system that is `ex` takes for one and the same.
Same(p, q, ex) == IF ex THEN p = q ELSE FoldKey(p) = FoldKey(q)

Found(d, p, ex) == {e \in d : Same(e.path, p, ex)}

Parents(key) == {SubSeq(key, 1, n) : n \in 1..(Len(key) - 1)}

\* mkdir(parents=True, exist_ok=True) meets a file, or write_bytes a directory.
Blocked(d, key, ex) ==
  \/ \E p \in Parents(key) : \E e \in Found(d, p, ex) : e.what # Directory
  \/ \E e \in Found(d, key, ex) : e.what = Directory

\* The disk after the i-th file was written: what is missing is made, and a
\* file that is there already is written over.
Written(d, key, i, ex) ==
  (d \ Found(d, key, ex))
    \cup {[path |-> p, what |-> Directory] :
            p \in {q \in Parents(key) : Found(d, q, ex) = {}}}
    \cup {[path |-> key, what |-> i]}

\* The destination, resolved, is not below the project root.  (A path that leaves
\* it and names it to come back counts as leaving.)
Escapes(key) == IsAbsolute(key) \/
  \E n \in DOMAIN key : LET Up == {i \in 1..n : key[i] = ".."} IN
                        2 * Cardinality(Up) > Cardinality(Parts(key) \cap (1..n))

WriteFile == LET key == keys[next] IN
  /\ at = "write" /\ next <= Len(keys)
  /\ CASE Escapes(key) -> at' = "done" /\ answer' = "escapes" /\ UNCHANGED <<disk, next>>
       [] ~Escapes(key) /\ Blocked(disk, key, exact) ->
            at' = "done" /\ answer' = "cannot_be_written" /\ UNCHANGED <<disk, next>>
       [] OTHER -> /\ disk' = Written(disk, key, next, exact)
                   /\ next' = next + 1
                   /\ UNCHANGED <<at, answer>>
  /\ UNCHANGED <<keys, exact>>

-----------------------------------------------------------------------------
(* Properties *)

\* What is accepted can be written, on either kind of file system: the checks of
\* the writer (renderer.py: "asserts that already-proven invariant") never fire.
AcceptedIsWritable == answer \notin {"escapes", "cannot_be_written"}

\* No accepted file is lost to another: at the end each key finds its own content,
\* however the file system spells it.
EachFileKept ==
  answer = "written" =>
    \A i \in DOMAIN keys : {e.what : e \in Found(disk, keys[i], exact)} = {i}

\* What a writer without the whole-set rules has made of the first n keys.
Outcome(ex) ==
  LET after[n \in 0..Len(keys)] ==
        IF n = 0 THEN [disk |-> {}, blocked |-> FALSE]
        ELSE LET s == after[n - 1] IN
             IF s.blocked \/ Blocked(s.disk, keys[n], ex)
             THEN [disk |-> s.disk, blocked |-> TRUE]
             ELSE [disk |-> Written(s.disk, keys[n], n, ex), blocked |-> FALSE]
  IN  after[Len(keys)]

\* The whole-set rules refuse nothing that every file system could hold
\* (templates.py: "something no filesystem can hold ... or something that depends
\* on the host").
RefusedForCause ==
  answer \in {"case_collision", "ancestor_collision"} =>
    \E ex \in BOOLEAN : \/ Outcome(ex).blocked
                        \/ \E i \in DOMAIN keys :
                             {e.what : e \in Found(Outcome(ex).disk, keys[i], ex)} # {i}

=============================================================================
