--------------------------- MODULE AnswersProofs ---------------------------
(***************************************************************************)
(* Proofs about Answers, for every list of standards, limit and instance:   *)
(* the counters, the blame, the one error reported and the mirror of the    *)
(* output rules.  The invariant has two parts.  Of what was found in the    *)
(* body, BodyInv: as long as nothing but a rule of the output can be wrong,  *)
(* the errors are those of the output.  Of the way through the route,       *)
(* RouteInv: until an answer is given nothing was counted, and only who is  *)
(* past the key count waits or holds a permit.                              *)
(***************************************************************************)
EXTENDS Answers, FiniteSetTheorems, WellFoundedInduction, TLAPS

\* Where a request is while its body is validated, and where it is done.
Validating == {"files_count", "source", "files", "output", "extra", "keys"}
Done == {"answered", "abandoned"}

\* The codes of faults that are Prelum's own.
Ours == {"render_failed", "service_unavailable"}

\* The least element of a set is its minimum.
LEMMA MinIs ==
  ASSUME NEW S, S \subseteq Int, NEW m \in S, \A x \in S : m <= x
  PROVE  Min(S) = m
<1>1. \E x \in S : \A y \in S : x <= y
  OBVIOUS
<1>2. Min(S) \in S /\ \A y \in S : Min(S) <= y
  BY <1>1 DEF Min
<1>3. Min(S) \in Int /\ Min(S) <= m /\ m <= Min(S)
  BY <1>2
<1> QED BY <1>3

\* Of the classes of errors.py, the two that are Prelum's own fault are the ones with
\* a status of 500 or more and the service as their origin; one is about capacity.
LEMMA ProblemsTable ==
  \A c \in Codes : /\ (Problems[c].status >= 500) <=> (c \in Ours)
                   /\ (Problems[c].origin = "service") <=> (c \in Ours)
                   /\ (Problems[c].origin = "capacity") <=> (c = "render_queue_full")
BY DEF Codes, Problems, Declared, Class, RenderCode, Ours

\* What the route counts an exception as.
Status(exc) == CASE exc = Cancelled -> "cancelled" [] exc = "render_timeout" -> "timeout"
                 [] OTHER -> "error"
Label(exc)  == CASE exc = Cancelled -> <<>> [] exc = Other -> <<"unhandled">>
                 [] OTHER -> <<exc>>

\* The first arm that catches an exception is the one for it, in the order of the
\* source: the timeout before the base class.
LEMMA FirstArm ==
  ASSUME NEW exc \in Codes \cup {Other, Cancelled}, Settle(exc)
  PROVE  total' = Append(total, Status(exc)) /\ failed' = failed \o Label(exc)
<1> DEFINE S == {i \in DOMAIN Arms(exc) : exc \in Arms(exc)[i].catches}
<1>1. total' = Append(total, Arms(exc)[Min(S)].status)
      /\ failed' = failed \o Arms(exc)[Min(S)].label
  BY DEF Settle
<1>2. S = {i \in 1..4 : exc \in Arms(exc)[i].catches}
  BY DEF Arms
<1> HIDE DEF S
<1>3. \A m \in S : (\A i \in S : m <= i) => Min(S) = m
  BY <1>2, MinIs
<1>4. CASE exc = Cancelled
  <2>1. 1 \in S /\ \A i \in S : 1 <= i
    BY <1>2, <1>4 DEF Arms, Arm
  <2>2. Min(S) = 1
    BY <2>1, <1>3
  <2>3. Arms(exc)[1] = Arm({Cancelled}, "cancelled", <<>>)
    BY DEF Arms
  <2>4. Status(exc) = "cancelled" /\ Label(exc) = <<>>
    BY <1>4 DEF Status, Label, Cancelled, Other
  <2>5. Arms(exc)[1].status = Status(exc) /\ Arms(exc)[1].label = Label(exc)
    BY <2>3, <2>4 DEF Arm
  <2> QED BY <2>2, <2>5, <1>1
<1>5. CASE exc = "render_timeout"
  <2>1. 2 \in S /\ \A i \in S : 2 <= i
    BY <1>2, <1>5 DEF Arms, Arm, Cancelled
  <2>2. Min(S) = 2
    BY <2>1, <1>3
  <2>3. Arms(exc)[2] = Arm({"render_timeout"}, "timeout", <<exc>>)
    BY DEF Arms
  <2>4. Status(exc) = "timeout" /\ Label(exc) = <<exc>>
    BY <1>5 DEF Status, Label, Cancelled, Other
  <2>5. Arms(exc)[2].status = Status(exc) /\ Arms(exc)[2].label = Label(exc)
    BY <2>3, <2>4 DEF Arm
  <2> QED BY <2>2, <2>5, <1>1
<1>6. CASE exc \in Codes \ {"render_timeout"}
  <2>0. exc # Cancelled /\ exc # Other
    BY <1>6 DEF Codes, RenderCode, Cancelled, Other
  <2>1. 3 \in S /\ \A i \in S : 3 <= i
    BY <1>2, <1>6, <2>0 DEF Arms, Arm
  <2>2. Min(S) = 3
    BY <2>1, <1>3
  <2>3. Arms(exc)[3] = Arm(Codes, "error", <<exc>>)
    BY DEF Arms
  <2>4. Status(exc) = "error" /\ Label(exc) = <<exc>>
    BY <2>0, <1>6 DEF Status, Label, Cancelled, Other
  <2>5. Arms(exc)[3].status = Status(exc) /\ Arms(exc)[3].label = Label(exc)
    BY <2>3, <2>4 DEF Arm
  <2> QED BY <2>2, <2>5, <1>1
<1>7. CASE exc = Other
  <2>0. exc \notin Codes /\ exc # Cancelled /\ exc # "render_timeout"
    BY <1>7 DEF Codes, RenderCode, Cancelled, Other
  <2>1. 4 \in S /\ \A i \in S : 4 <= i
    BY <1>2, <1>7, <2>0 DEF Arms, Arm
  <2>2. Min(S) = 4
    BY <2>1, <1>3
  <2>3. Arms(exc)[4] = Arm({Other}, "error", <<"unhandled">>)
    BY DEF Arms
  <2>4. Status(exc) = "error" /\ Label(exc) = <<"unhandled">>
    BY <2>0, <1>7 DEF Status, Label, Cancelled, Other
  <2>5. Arms(exc)[4].status = Status(exc) /\ Arms(exc)[4].label = Label(exc)
    BY <2>3, <2>4 DEF Arm
  <2> QED BY <2>2, <2>5, <1>1
<1> QED BY <1>4, <1>5, <1>6, <1>7

-----------------------------------------------------------------------------
(* The way through the route *)

\* Until it is answered or abandoned nothing is counted, and nobody waits with more
\* files than the instance allows.
Progress ==
  /\ at \in Validating \cup {"routing", "authorizing", "handle", "accepted", "refused",
                             "waiting", "rendering"} \cup Done
  /\ at \notin Done => /\ total = <<>> /\ failed = <<>> /\ logged = <<>> /\ answer = <<>>
                       /\ cause \in {"none", "not JSON"}
  /\ permitted => at \in {"rendering"} \cup Done
  /\ at \in {"waiting", "rendering"} \/ permitted => files <= MaxInlineFiles

RouteInv == Progress /\ CountersAgree /\ BlameAgrees

\* Nothing was counted or answered at first.
LEMMA InitOK == Init => RouteInv
BY DEF Init, RouteInv, Progress, CountersAgree, BlameAgrees, Answered, Done

\* The problem of this code is the answer.
Told(code, headers) == /\ at' = "answered"
                       /\ answer' = <<[code |-> code, status |-> Problems[code].status,
                                 origin |-> Problems[code].origin, headers |-> headers]>>

\* An answer from before the wait.
LEMMA RefusedOK ==
  ASSUME RouteInv, at \notin Done, ~permitted,
         NEW code \in Codes \ {"render_timeout", "render_queue_full", "render_failed",
                               "service_unavailable"},
         NEW headers, "Retry-After" \notin headers,
         Told(code, headers), logged' \in {<<>>, <<"warning">>},
         cause' \notin {Other, "render_failed", "render_queue_full"},
         UNCHANGED <<permitted, countVars>>
  PROVE  RouteInv'
<1>1. /\ total' = <<>> /\ failed' = <<>> /\ ~permitted'
      /\ at' = "answered"
      /\ answer'[1].code = code
      /\ answer'[1].status = Problems[code].status
      /\ answer'[1].origin = Problems[code].origin
      /\ answer'[1].headers = headers
      /\ answer' # <<>>
  BY DEF RouteInv, Progress, countVars, Told
<1>2. Progress'
  BY <1>1 DEF Progress, Done
<1>3. code # "document" /\ code # "render_timeout"
  BY DEF Codes, RenderCode
<1>4. CountersAgree'
  BY <1>1, <1>3 DEF CountersAgree, Answered
<1>5. "error" \notin Range(logged')
  BY DEF Range
<1>6. BlameAgrees'
  BY <1>1, <1>5, ProblemsTable DEF BlameAgrees, Ours
<1> QED BY <1>2, <1>4, <1>6 DEF RouteInv

\* An answer to what render raised, or to a wait that was too long.
LEMMA RaisedOK ==
  ASSUME RouteInv, at \in {"waiting", "rendering"},
         NEW exc \in RenderCode \cup {"render_queue_full"},
         NEW headers, ("Retry-After" \in headers) <=> (exc = "render_queue_full"),
         Raises(exc, headers)
  PROVE  RouteInv' /\ at' = "answered"
<1>1. exc \in Codes /\ exc \notin {Cancelled, Other, "document", "service_unavailable"}
  BY DEF Codes, RenderCode, Cancelled, Other
<1>2. /\ at' = "answered" /\ cause' = exc /\ UNCHANGED <<bodyVars, permitted>>
      /\ answer'[1].code = exc /\ answer' # <<>>
      /\ answer'[1].status = Problems[exc].status
      /\ answer'[1].origin = Problems[exc].origin
      /\ answer'[1].headers = headers
      /\ logged' = <<Level(exc)>>
  <2>1. HandleAppError(exc, headers) /\ cause' = exc /\ UNCHANGED <<bodyVars, permitted>>
    BY <1>1 DEF Raises
  <2>2. logged = <<>>
    BY DEF RouteInv, Progress, Done
  <2>3. Told(exc, headers) /\ logged' = Append(logged, Level(exc))
    BY <2>1 DEF HandleAppError, Respond, Told
  <2> QED BY <2>1, <2>2, <2>3 DEF Told
<1>3. total' = Append(total, Status(exc)) /\ failed' = failed \o Label(exc)
  BY <1>1, FirstArm DEF Raises
<1>4. /\ total' = <<IF exc = "render_timeout" THEN "timeout" ELSE "error">>
      /\ failed' = <<exc>>
  <2>1. total = <<>> /\ failed = <<>>
    BY DEF RouteInv, Progress, Done
  <2>2. Label(exc) = <<exc>>
    BY <1>1 DEF Label
  <2>3. Status(exc) = IF exc = "render_timeout" THEN "timeout" ELSE "error"
    BY <1>1 DEF Status, Cancelled
  <2> QED BY <1>3, <2>1, <2>2, <2>3
<1>5. Progress'
  BY <1>2 DEF RouteInv, Progress, Done, bodyVars
<1>6. CountersAgree'
  BY <1>1, <1>2, <1>4, <1>5 DEF CountersAgree, Answered, Progress, Done
<1>7. ("error" \in Range(logged')) <=> (Problems[exc].origin = "service")
  BY <1>2 DEF Range, Level
<1>8. BlameAgrees'
  BY <1>1, <1>2, <1>7, ProblemsTable DEF BlameAgrees, Ours
<1> QED BY <1>2, <1>5, <1>6, <1>8 DEF RouteInv

\* An answer to anything else that came out of render.
LEMMA UnhandledOK ==
  ASSUME RouteInv, at = "rendering", Raises(Other, {})
  PROVE  RouteInv' /\ at' = "answered"
<1>2. /\ at' = "answered" /\ cause' = Other /\ UNCHANGED <<bodyVars, permitted>>
      /\ answer'[1].code = "service_unavailable" /\ answer' # <<>>
      /\ answer'[1].status = Problems["service_unavailable"].status
      /\ answer'[1].origin = Problems["service_unavailable"].origin
      /\ answer'[1].headers = {}
      /\ logged' = logged \o <<"error", Level("service_unavailable")>>
  <2>1. Other \notin Codes /\ Other # Cancelled
    BY DEF Other, Cancelled, Codes, RenderCode
  <2>2. /\ Respond("service_unavailable", {})
        /\ logged' = logged \o <<"error", Level("service_unavailable")>>
        /\ cause' = Other /\ UNCHANGED <<bodyVars, permitted>>
    BY <2>1 DEF Raises
  <2> QED BY <2>2 DEF Respond
<1>3. total' = Append(total, Status(Other)) /\ failed' = failed \o Label(Other)
  BY FirstArm DEF Raises
<1>4. total = <<>> /\ failed = <<>> /\ logged = <<>>
  BY DEF RouteInv, Progress, Done
<1>5. total' = <<"error">> /\ failed' = <<"unhandled">>
  <2>1. Label(Other) = <<"unhandled">> /\ Status(Other) = "error"
    BY DEF Label, Status, Other, Cancelled
  <2> QED BY <1>3, <1>4, <2>1
<1>6. Progress'
  BY <1>2 DEF RouteInv, Progress, Done, bodyVars
<1>7. CountersAgree'
  BY <1>2, <1>5, <1>6 DEF CountersAgree, Answered, Progress, Done
<1>8. "error" \in Range(logged')
  <2>1. logged' = <<"error", Level("service_unavailable")>>
    BY <1>2, <1>4
  <2> QED BY <2>1 DEF Range
<1>9. BlameAgrees'
  <2>1. "service_unavailable" \in Codes
    BY DEF Codes
  <2> QED BY <1>2, <1>8, <2>1, ProblemsTable DEF BlameAgrees, Ours, Other
<1> QED BY <1>2, <1>6, <1>7, <1>9 DEF RouteInv

\* A task that is cancelled is counted, and answers nobody.
LEMMA AbandonedOK ==
  ASSUME RouteInv, Disconnect
  PROVE  RouteInv' /\ at' = "abandoned"
<1>1. /\ at' = "abandoned" /\ cause' = Cancelled
      /\ UNCHANGED <<bodyVars, permitted, logged, answer>>
  <2>1. Cancelled \notin Codes /\ Other # Cancelled
    BY DEF Other, Cancelled, Codes, RenderCode
  <2> QED BY <2>1 DEF Disconnect, Raises
<1>2. total' = Append(total, Status(Cancelled)) /\ failed' = failed \o Label(Cancelled)
  BY FirstArm DEF Disconnect, Raises
<1>3. total = <<>> /\ failed = <<>> /\ logged = <<>> /\ answer = <<>>
  BY DEF RouteInv, Progress, Done, Disconnect
<1>4. total' = <<"cancelled">> /\ failed' = <<>>
  <2>1. Label(Cancelled) = <<>> /\ Status(Cancelled) = "cancelled"
    BY DEF Label, Status, Other, Cancelled
  <2> QED BY <1>2, <1>3, <2>1
<1>5. Progress'
  BY <1>1 DEF RouteInv, Progress, Done, bodyVars, Disconnect
<1>6. CountersAgree'
  BY <1>1, <1>3, <1>4, <1>5 DEF CountersAgree, Answered, Progress, Done
<1>7. BlameAgrees'
  BY <1>1, <1>3 DEF BlameAgrees
<1> QED BY <1>1, <1>5, <1>6, <1>7 DEF RouteInv

\* The document is the answer that is counted as a success.
LEMMA RenderedOK ==
  ASSUME RouteInv, Rendered
  PROVE  RouteInv'
<1>1. /\ at = "rendering" /\ at' = "answered"
      /\ files' = files /\ permitted' = permitted /\ cause' = cause /\ logged' = logged
  BY DEF Rendered, bodyVars
<1>2. /\ answer' # <<>> /\ answer'[1].code = "document" /\ answer'[1].status = 200
      /\ answer'[1].origin = "none"
      /\ "Retry-After" \notin answer'[1].headers
  BY DEF Rendered
<1>3. total = <<>> /\ failed = <<>> /\ logged = <<>>
  BY <1>1 DEF RouteInv, Progress, Done
<1>4. total' = <<"success">> /\ failed' = <<>>
  <2>1. total' = Append(total, "success") /\ failed' = failed
    BY DEF Rendered
  <2> QED BY <1>3, <2>1
<1>5. Progress'
  BY <1>1 DEF RouteInv, Progress, Done
<1>6. CountersAgree'
  BY <1>1, <1>2, <1>4, <1>5 DEF CountersAgree, Answered, Progress, Done
<1>7. BlameAgrees'
  <2>1. "error" \notin Range(logged')
    <3>1. logged' = <<>>
      BY <1>1, <1>3
    <3> QED BY <3>1 DEF Range
  <2>2. cause' \notin {Other, "render_failed", "render_queue_full"}
    BY <1>1 DEF RouteInv, Progress, Done, Other
  <2> QED BY <1>2, <2>1, <2>2 DEF BlameAgrees
<1> QED BY <1>5, <1>6, <1>7 DEF RouteInv

-----------------------------------------------------------------------------
(* The rules of an output, as models.py applies them and as they are published *)

\* RequestValidation counts as this module does.
LEMMA SameCardinality == \A S : V!Cardinality(S) = Cardinality(S)
BY DEF Cardinality, V!Cardinality

\* A list names something twice exactly when it names fewer things than it is long.
LEMMA DuplicatesAgree ==
  ASSUME NEW T, NEW s \in Seq(T)
  PROVE  V!Duplicates(s) <=> \E i, j \in DOMAIN s : i # j /\ s[i] = s[j]
<1>1. DOMAIN s = 1..Len(s) /\ Len(s) \in Nat
  OBVIOUS
<1>2. IsFiniteSet(DOMAIN s) /\ Cardinality(DOMAIN s) = Len(s)
  BY <1>1, FS_Interval
<1>3. s \in Surjection(DOMAIN s, V!Range(s))
  BY <1>1 DEF Surjection, V!Range
<1>4. Cardinality(V!Range(s)) = Cardinality(DOMAIN s) <=> s \in Injection(DOMAIN s, V!Range(s))
  BY <1>2, <1>3, FS_Surjection
<1>5. s \in Injection(DOMAIN s, V!Range(s)) <=> \A i, j \in DOMAIN s : s[i] = s[j] => i = j
  BY <1>3 DEF Injection, Surjection, IsInjective
<1> QED BY <1>2, <1>4, <1>5, SameCardinality DEF V!Duplicates

\* Without duplicates there are as many PDF/A standards as places that name one.
LEMMA PdfAPlaces ==
  ASSUME NEW T, NEW o, o.standards \in Seq(T), ~V!Duplicates(o.standards)
  PROVE  LET A == V!Range(o.standards) \cap V!PdfA IN
         /\ Cardinality(V!SelectedPdfA(o)) = Cardinality(A)
         /\ IsFiniteSet(V!SelectedPdfA(o)) /\ Cardinality(V!SelectedPdfA(o)) \in Nat
<1> DEFINE s == o.standards
           D == V!SelectedPdfA(o)
           A == V!Range(s) \cap V!PdfA
           f == [i \in D |-> s[i]]
<1>1. \A i, j \in DOMAIN s : s[i] = s[j] => i = j
  BY DuplicatesAgree
<1>2. D \subseteq 1..Len(s) /\ Len(s) \in Nat
  BY DEF V!SelectedPdfA
<1>3. IsFiniteSet(D)
  <2>1. IsFiniteSet(1..Len(s))
    BY <1>2, FS_Interval
  <2> HIDE DEF D, s
  <2> QED BY <1>2, <2>1, FS_Subset
<1>4. f \in Surjection(D, A)
  BY DEF Surjection, V!SelectedPdfA, V!Range
<1>5. f \in Injection(D, A)
  BY <1>1, <1>4 DEF Injection, Surjection, IsInjective, V!SelectedPdfA
<1> HIDE DEF D, f, A
<1>6. Cardinality(A) = Cardinality(D)
  BY <1>3, <1>4, <1>5, FS_Surjection
<1> QED BY <1>3, <1>6, FS_CardinalityType DEF D, A

\* Of naturals there is a least one.
LEMMA LeastExists ==
  ASSUME NEW S, S \subseteq Nat, S # {}
  PROVE  \E x \in S : \A y \in S : x <= y
<1> DEFINE R == {ss \in Nat \X Nat : ss[1] < ss[2]}
<1>1. IsWellFoundedOn(R, Nat)
  BY NatLessThanWellFounded DEF OpToRel
<1>2. \A x, y \in Nat : y < x => <<y, x>> \in R
  OBVIOUS
<1> HIDE DEF R
<1>3. PICK x \in S : \A y \in S : ~ (<<y, x>> \in R)
  BY <1>1, WFMin
<1>4. ASSUME NEW y \in S PROVE x <= y
  <2>1. x \in Nat /\ y \in Nat
    OBVIOUS
  <2>2. ~ (y < x)
    BY <2>1, <1>2, <1>3
  <2> QED BY <2>1, <2>2
<1> QED BY <1>4

\* The same of the minimum RequestValidation takes.
LEMMA VMinIs ==
  ASSUME NEW S, S \subseteq Int, NEW m \in S, \A x \in S : m <= x
  PROVE  V!Min(S) = m
<1>1. \E x \in S : \A y \in S : x <= y
  OBVIOUS
<1>2. V!Min(S) \in S /\ \A y \in S : V!Min(S) <= y
  BY <1>1 DEF V!Min
<1>3. V!Min(S) \in Int /\ V!Min(S) <= m /\ m <= V!Min(S)
  BY <1>2
<1> QED BY <1>3

\* Of rules in a row the first that is broken is the one told.
LEMMA FirstBrokenIs ==
  ASSUME NEW rules, DOMAIN rules \subseteq Int, NEW broken
  PROVE  /\ (\A i \in DOMAIN rules : rules[i] \notin broken)
              => V!FirstBroken(rules, broken) = "none"
         /\ \A k \in DOMAIN rules :
              rules[k] \in broken /\ (\A i \in DOMAIN rules : i < k => rules[i] \notin broken)
                => V!FirstBroken(rules, broken) = rules[k]
<1> DEFINE B == {i \in DOMAIN rules : rules[i] \in broken}
<1>1. V!FirstBroken(rules, broken) = IF B = {} THEN "none" ELSE rules[V!Min(B)]
  BY DEF V!FirstBroken
<1>2. ASSUME NEW k \in DOMAIN rules, rules[k] \in broken,
             \A i \in DOMAIN rules : i < k => rules[i] \notin broken
      PROVE  V!FirstBroken(rules, broken) = rules[k]
  <2>1. k \in B /\ B \subseteq Int /\ \A i \in B : k <= i
    BY <1>2
  <2> HIDE DEF B
  <2>2. V!Min(B) = k
    BY <2>1, VMinIs
  <2> QED BY <1>1, <2>1, <2>2
<1>3. (\A i \in DOMAIN rules : rules[i] \notin broken) => B = {}
  OBVIOUS
<1> HIDE DEF B
<1> QED BY <1>1, <1>2, <1>3

\* r is the first of the rules from number m to number n that o breaks, or "none".
FirstOf(o, m, n, r) ==
  \/ r = "none" /\ \A i \in m..n : ~V!Breaks(o, V!Rules[i])
  \/ \E k \in m..n : /\ r = V!Rules[k] /\ V!Breaks(o, r)
                     /\ \A i \in m..n : i < k => ~V!Breaks(o, V!Rules[i])

\* Counting from the first rule of a row, and from the first of all.
LEMMA Places ==
  \A m, n, k \in Int : \A i \in m..n :
    /\ i - m + 1 \in 1..(n - m + 1)
    /\ (i - m + 1) + m - 1 = i
    /\ i < k + m - 1 => i - m + 1 < k
OBVIOUS

\* The checks of a row tell the first rule that is broken if, up to the first check
\* that fails, they agree with the rules.
LEMMA RowAgrees ==
  ASSUME NEW o, NEW m \in 1..12, NEW n \in m..12, NEW rules, NEW broken,
         DOMAIN rules = 1..(n - m + 1),
         \A i \in DOMAIN rules : rules[i] = V!Rules[i + m - 1],
         \A i \in DOMAIN rules :
           (\A j \in DOMAIN rules : j < i => rules[j] \notin broken)
             => (rules[i] \in broken <=> V!Breaks(o, rules[i]))
  PROVE  FirstOf(o, m, n, V!FirstBroken(rules, broken))
<1>1. CASE \A i \in DOMAIN rules : rules[i] \notin broken
  <2>1. V!FirstBroken(rules, broken) = "none"
    BY <1>1, FirstBrokenIs
  <2>2. ASSUME NEW i \in m..n PROVE ~V!Breaks(o, V!Rules[i])
    <3>1. i - m + 1 \in DOMAIN rules /\ (i - m + 1) + m - 1 = i
      <4>1. m \in Int /\ n \in Int
        OBVIOUS
      <4>2. i - m + 1 \in 1..(n - m + 1) /\ (i - m + 1) + m - 1 = i
        BY <4>1, Places
      <4> QED BY <4>2
    <3> QED BY <1>1, <3>1
  <2> QED BY <2>1, <2>2 DEF FirstOf
<1>2. CASE \E i \in DOMAIN rules : rules[i] \in broken
  <2>1. PICK k \in DOMAIN rules : /\ rules[k] \in broken
                                  /\ \A i \in DOMAIN rules : i < k => rules[i] \notin broken
    <3> DEFINE B == {i \in DOMAIN rules : rules[i] \in broken}
    <3>1. B \subseteq Nat /\ B # {}
      BY <1>2
    <3> HIDE DEF B
    <3>2. PICK k \in B : \A i \in B : k <= i
      BY <3>1, LeastExists
    <3> QED BY <3>1, <3>2 DEF B
  <2>2. V!FirstBroken(rules, broken) = rules[k]
    BY <2>1, FirstBrokenIs
  <2>3. k + m - 1 \in m..n /\ rules[k] = V!Rules[k + m - 1] /\ V!Breaks(o, rules[k])
    BY <2>1
  <2>4. ASSUME NEW i \in m..n, i < k + m - 1 PROVE ~V!Breaks(o, V!Rules[i])
    <3>1. i - m + 1 \in DOMAIN rules /\ (i - m + 1) + m - 1 = i /\ i - m + 1 < k
      <4>1. m \in Int /\ n \in Int /\ k \in Int
        OBVIOUS
      <4>2. i - m + 1 \in 1..(n - m + 1) /\ (i - m + 1) + m - 1 = i /\ i - m + 1 < k
        BY <4>1, <2>4, Places
      <4> QED BY <4>2
    <3>2. \A j \in DOMAIN rules : j < i - m + 1 => rules[j] \notin broken
      BY <3>1, <2>1
    <3> QED BY <2>1, <3>1, <3>2
  <2> QED BY <2>2, <2>3, <2>4 DEF FirstOf
<1> QED BY <1>1, <1>2

\* A text of pages is refused for the first page rule it breaks.
LEMMA PagesAgree ==
  ASSUME NEW o, o.pages \in V!Pages
  PROVE  \E r : V!PagesErrors(o) = V!Reject(r) /\ FirstOf(o, 1, 4, r)
<1>1. CASE o.pages = <<>>
  <2>1. V!PagesErrors(o) = V!Reject("none")
    BY <1>1 DEF V!PagesErrors, V!Reject, V!When
  <2>2. \A i \in 1..4 : ~V!Breaks(o, V!Rules[i])
    BY <1>1 DEF V!Breaks, V!Rules
  <2> QED BY <2>1, <2>2 DEF FirstOf
<1>2. CASE o.pages # <<>>
  <2> DEFINE flaws == o.pages[1]
             rules == <<"page_selection_too_long", "page_selection_too_many_segments",
                        "page_selection_malformed", "page_range_end_precedes_start">>
  <2>1. V!PagesErrors(o) = V!Reject(V!FirstBroken(rules, flaws))
    BY <1>2 DEF V!PagesErrors, V!ParsePages
  <2>2. /\ DOMAIN rules = 1..(4 - 1 + 1)
        /\ \A i \in DOMAIN rules : rules[i] = V!Rules[i + 1 - 1]
    BY DEF V!Rules
  <2>3. \A i \in DOMAIN rules : rules[i] \in flaws <=> V!Breaks(o, rules[i])
    BY <1>2 DEF V!Breaks, V!PageRule
  <2> HIDE DEF rules, flaws
  <2>4. FirstOf(o, 1, 4, V!FirstBroken(rules, flaws))
    <3>1. 1 \in 1..12 /\ 4 \in 1..12
      OBVIOUS
    <3> QED BY <2>2, <2>3, <3>1, RowAgrees
  <2> QED BY <2>1, <2>4
<1> QED BY <1>1, <1>2

\* validate_pdf_options tells the first of the published rules that are not about
\* pages: what it looks at differs from what they say, where an earlier check failed.
LEMMA PdfAgrees ==
  ASSUME NEW o, o \in V!PdfOutput
  PROVE  FirstOf(o, 5, 12, V!ValidatePdfOptions(o))
<1> DEFINE rules == <<"duplicate_standards", "multiple_pdf_a_standards",
                      "ua_1_with_pdf_a_4", "version_conflicts_with_standard",
                      "ua_1_with_pdf_2_0", "pages_with_tagged_standard">>
           S == V!Range(o.standards)
           A == V!SelectedPdfA(o)
<1>1. o.standards \in Seq(V!PdfA \cup {"ua-1"}) /\ o.format = "pdf"
  BY RequestsAssumption DEF V!PdfOutput, V!Assumptions
<1>2. /\ "duplicate_standards" \in V!PdfFlaws(o) <=> V!Duplicates(o.standards)
      /\ "multiple_pdf_a_standards" \in V!PdfFlaws(o) <=> V!Cardinality(A) > 1
      /\ "ua_1_with_pdf_a_4" \in V!PdfFlaws(o) <=> V!Ua1WithPdfA4(o)
      /\ "version_conflicts_with_standard" \in V!PdfFlaws(o) <=> V!VersionConflict(o)
      /\ "ua_1_with_pdf_2_0" \in V!PdfFlaws(o) <=> o.version = "2.0" /\ "ua-1" \in S
      /\ "pages_with_tagged_standard" \in V!PdfFlaws(o)
           <=> o.pages # <<>> /\ V!Tagged \cap S # {}
  BY DEF V!PdfFlaws, V!Flaw
<1>3. /\ V!Breaks(o, "duplicate_standards")
           <=> \E i, j \in DOMAIN o.standards : i # j /\ o.standards[i] = o.standards[j]
      /\ V!Breaks(o, "multiple_pdf_a_standards") <=> V!Cardinality(S \cap V!PdfA) > 1
      /\ V!Breaks(o, "ua_1_with_pdf_a_4") <=> "ua-1" \in S /\ S \cap V!PdfA4 # {}
      /\ V!Breaks(o, "version_conflicts_with_standard")
           <=> o.version # "none" /\ \E s \in S \cap V!PdfA : V!PdfAVersion[s] # o.version
      /\ V!Breaks(o, "ua_1_with_pdf_2_0") <=> "ua-1" \in S /\ o.version = "2.0"
      /\ V!Breaks(o, "pages_with_tagged_standard") <=> o.pages # <<>> /\ S \cap V!Tagged # {}
  BY <1>1 DEF V!Breaks, V!PageRule
<1>4. \A i \in 11..12 : ~V!Breaks(o, V!Rules[i])
  BY <1>1 DEF V!Breaks, V!Rules, V!PageRule
<1>5. "duplicate_standards" \in V!PdfFlaws(o) <=> V!Breaks(o, "duplicate_standards")
  BY <1>1, <1>2, <1>3, DuplicatesAgree
<1>6. ASSUME "duplicate_standards" \notin V!PdfFlaws(o)
      PROVE  "multiple_pdf_a_standards" \in V!PdfFlaws(o)
               <=> V!Breaks(o, "multiple_pdf_a_standards")
  <2>1. Cardinality(A) = Cardinality(S \cap V!PdfA)
    BY <1>1, <1>2, <1>6, PdfAPlaces
  <2> QED BY <2>1, <1>2, <1>3, SameCardinality
<1>7. "ua_1_with_pdf_a_4" \in V!PdfFlaws(o) <=> V!Breaks(o, "ua_1_with_pdf_a_4")
  BY <1>2, <1>3 DEF V!Ua1WithPdfA4
<1>8. ASSUME "duplicate_standards" \notin V!PdfFlaws(o),
             "multiple_pdf_a_standards" \notin V!PdfFlaws(o)
      PROVE  "version_conflicts_with_standard" \in V!PdfFlaws(o)
               <=> V!Breaks(o, "version_conflicts_with_standard")
  <2>1. IsFiniteSet(A) /\ Cardinality(A) \in Nat /\ ~(Cardinality(A) > 1)
    BY <1>1, <1>2, <1>8, PdfAPlaces, SameCardinality
  <2>2. A = {} \/ \E i \in A : A = {i}
    <3> HIDE DEF A
    <3>1. Cardinality(A) = 0 \/ Cardinality(A) = 1
      BY <2>1
    <3> QED BY <2>1, <3>1, FS_EmptySet, FS_Singleton
  <2>3. CASE A = {}
    <3>1. S \cap V!PdfA = {}
      BY <2>3, <1>1 DEF V!SelectedPdfA, V!Range
    <3> QED BY <2>3, <3>1, <1>2, <1>3 DEF V!VersionConflict
  <2>4. ASSUME NEW i \in A, A = {i}
        PROVE  "version_conflicts_with_standard" \in V!PdfFlaws(o)
                 <=> V!Breaks(o, "version_conflicts_with_standard")
    <3>1. S \cap V!PdfA = {o.standards[i]}
      BY <2>4, <1>1 DEF V!SelectedPdfA, V!Range
    <3>2. V!Min(A) = i
      <4>1. i \in Int
        BY <1>1, <2>4 DEF V!SelectedPdfA
      <4> HIDE DEF A
      <4> QED BY <4>1, <2>4, VMinIs
    <3>3. V!VersionConflict(o) <=> /\ o.version # "none"
                                   /\ o.version # V!PdfAVersion[o.standards[i]]
      BY <2>4, <3>2 DEF V!VersionConflict
    <3> QED BY <3>1, <3>3, <1>2, <1>3
  <2> QED BY <2>2, <2>3, <2>4
<1>9. "ua_1_with_pdf_2_0" \in V!PdfFlaws(o) <=> V!Breaks(o, "ua_1_with_pdf_2_0")
  BY <1>2, <1>3
<1>10. "pages_with_tagged_standard" \in V!PdfFlaws(o)
         <=> V!Breaks(o, "pages_with_tagged_standard")
  BY <1>2, <1>3
<1>11. /\ DOMAIN rules = 1..(10 - 5 + 1)
       /\ \A i \in DOMAIN rules : rules[i] = V!Rules[i + 5 - 1]
  BY DEF V!Rules
<1>12. \A i \in DOMAIN rules :
         (\A j \in DOMAIN rules : j < i => rules[j] \notin V!PdfFlaws(o))
           => (rules[i] \in V!PdfFlaws(o) <=> V!Breaks(o, rules[i]))
  <2>1. \A i \in DOMAIN rules : i \in 1..6
    BY <1>11
  <2>2. rules[1] = "duplicate_standards" /\ rules[2] = "multiple_pdf_a_standards"
    OBVIOUS
  <2>3. ASSUME NEW i \in DOMAIN rules,
               \A j \in DOMAIN rules : j < i => rules[j] \notin V!PdfFlaws(o)
        PROVE  rules[i] \in V!PdfFlaws(o) <=> V!Breaks(o, rules[i])
    <3>1. i > 1 => "duplicate_standards" \notin V!PdfFlaws(o)
      BY <2>1, <2>2, <2>3
    <3>2. i > 2 => "multiple_pdf_a_standards" \notin V!PdfFlaws(o)
      BY <2>1, <2>2, <2>3
    <3>3. i = 1 \/ i = 2 \/ i = 3 \/ i = 4 \/ i = 5 \/ i = 6
      BY <2>1
    <3> QED BY <3>1, <3>2, <3>3, <1>5, <1>6, <1>7, <1>8, <1>9, <1>10
  <2> QED BY <2>3
<1> HIDE DEF rules
<1>13. FirstOf(o, 5, 10, V!FirstBroken(rules, V!PdfFlaws(o)))
  <2>1. 5 \in 1..12 /\ 10 \in 5..12
    OBVIOUS
  <2> QED BY <2>1, <1>11, <1>12, RowAgrees
<1>14. V!ValidatePdfOptions(o) = V!FirstBroken(rules, V!PdfFlaws(o))
  BY DEF V!ValidatePdfOptions, rules
<1>15. \A i \in 5..12 : i \in 5..10 \/ i \in 11..12
  OBVIOUS
<1>16. \A i \in 5..10 : i \in 5..12
  OBVIOUS
<1> QED BY <1>4, <1>13, <1>14, <1>15, <1>16 DEF FirstOf

\* validate_image_options does so too.
LEMMA ImageAgrees ==
  ASSUME NEW o, o \in V!ImageOutput
  PROVE  FirstOf(o, 5, 12, V!ValidateImageOptions(o))
<1> DEFINE rules == <<"pages_requires_archive", "page_with_archive">>
           flaws == V!Flaw("pages_requires_archive", o.archive = "none" /\ o.pages # <<>>)
                      \cup V!Flaw("page_with_archive", o.archive # "none" /\ o.page # "none")
<1>1. o.format = "png"
  BY DEF V!ImageOutput
<1>2. \A i \in 5..10 : ~V!Breaks(o, V!Rules[i])
  BY <1>1 DEF V!Breaks, V!Rules, V!PageRule
<1>3. /\ DOMAIN rules = 1..(12 - 11 + 1)
      /\ \A i \in DOMAIN rules : rules[i] = V!Rules[i + 11 - 1]
  BY DEF V!Rules
<1>4. \A i \in DOMAIN rules : rules[i] \in flaws <=> V!Breaks(o, rules[i])
  BY <1>1 DEF V!Breaks, V!Flaw, V!PageRule
<1>5. V!ValidateImageOptions(o) = V!FirstBroken(rules, flaws)
  BY DEF V!ValidateImageOptions
<1> HIDE DEF rules, flaws
<1>6. FirstOf(o, 11, 12, V!FirstBroken(rules, flaws))
  <2>1. 11 \in 1..12 /\ 12 \in 11..12
    OBVIOUS
  <2> QED BY <2>1, <1>3, <1>4, RowAgrees
<1>7. \A i \in 5..12 : i \in 5..10 \/ i \in 11..12
  OBVIOUS
<1>8. \A i \in 11..12 : i \in 5..12 /\ \A j \in 5..10 : j < i
  OBVIOUS
<1> QED BY <1>2, <1>5, <1>6, <1>7, <1>8 DEF FirstOf

\* An output the schema allows meets no error but a broken rule, and that is the
\* first of those it breaks.
LEMMA OutputAgrees ==
  ASSUME NEW o \in V!PdfOutput \cup V!ImageOutput \cup V!NoFormat, V!SchemaAllows(o)
  PROVE  \E r : V!OutputErrors(o) = V!Reject(r) /\ FirstOf(o, 1, 12, r)
<1>1. o \in V!PdfOutput \cup V!ImageOutput /\ o.format # "unknown"
  BY DEF V!SchemaAllows, V!NoFormat
<1>2. o.pages \in V!Pages
  BY <1>1 DEF V!PdfOutput, V!ImageOutput
<1>3. PICK r : V!PagesErrors(o) = V!Reject(r) /\ FirstOf(o, 1, 4, r)
  BY <1>2, PagesAgree
<1>4. V!FieldErrors(o) = V!Reject(r)
  <2>1. \E T : V!Reject(r) \in Seq(T)
    <3> DEFINE e == [loc |-> "output", type |-> "value_error", rule |-> r]
    <3>1. V!Reject(r) = <<>> \/ V!Reject(r) = <<e>>
      BY DEF V!Reject, V!When
    <3> HIDE DEF e
    <3>2. <<>> \in Seq({e}) /\ <<e>> \in Seq({e})
      OBVIOUS
    <3> QED BY <3>1, <3>2
  <2>2. CASE o \in V!PdfOutput
    <3>1. ~(Len(o.standards) > MaxStandards) /\ ~o.alien /\ o.format = "pdf"
      BY <2>2, RequestsAssumption DEF V!SchemaAllows, V!PdfOutput, V!Assumptions
    <3>2. V!FieldErrors(o) = <<>> \o V!Reject(r) \o <<>>
      BY <3>1, <1>3 DEF V!FieldErrors, V!When
    <3> QED BY <2>1, <3>2
  <2>3. CASE o \in V!ImageOutput
    <3>1. /\ o.page # "bad" /\ o.archive # "bad" /\ o.ppi # "bad" /\ ~o.alien
          /\ o.format = "png"
      BY <2>3 DEF V!SchemaAllows, V!ImageOutput
    <3>2. V!FieldErrors(o) = <<>> \o <<>> \o V!Reject(r) \o <<>> \o <<>>
      BY <3>1, <1>3 DEF V!FieldErrors, V!When
    <3> QED BY <2>1, <3>2
  <2> QED BY <1>1, <2>2, <2>3
<1>5. CASE r # "none"
  <2>1. V!OutputErrors(o) = V!Reject(r)
    <3>1. V!Reject(r) # <<>>
      BY <1>5 DEF V!Reject, V!When
    <3> QED BY <3>1, <1>1, <1>4 DEF V!OutputErrors
  <2>2. FirstOf(o, 1, 12, r)
    <3>1. \A i \in 1..4 : i \in 1..12 /\ \A j \in 1..12 : j < i => j \in 1..4
      OBVIOUS
    <3> QED BY <3>1, <1>3, <1>5 DEF FirstOf
  <2> QED BY <2>1, <2>2
<1>6. CASE r = "none"
  <2> DEFINE v == IF o.format = "pdf" THEN V!ValidatePdfOptions(o)
                                      ELSE V!ValidateImageOptions(o)
  <2>1. V!OutputErrors(o) = V!Reject(v)
    <3>1. V!FieldErrors(o) = <<>>
      BY <1>4, <1>6 DEF V!Reject, V!When
    <3> QED BY <3>1, <1>1 DEF V!OutputErrors
  <2>2. FirstOf(o, 5, 12, v)
    BY <1>1, PdfAgrees, ImageAgrees DEF V!PdfOutput, V!ImageOutput
  <2>3. \A i \in 1..4 : ~V!Breaks(o, V!Rules[i])
    <3>1. \A k \in 1..4 : V!Rules[k] # "none"
      BY DEF V!Rules
    <3> QED BY <1>3, <1>6, <3>1 DEF FirstOf
  <2>4. \A i \in 1..12 : i \in 1..4 \/ i \in 5..12
    OBVIOUS
  <2>5. \A i \in 5..12 : i \in 1..12
    OBVIOUS
  <2> HIDE DEF v
  <2>6. FirstOf(o, 1, 12, v)
    BY <2>2, <2>3, <2>4, <2>5 DEF FirstOf
  <2> QED BY <2>1, <2>6
<1> QED BY <1>5, <1>6

-----------------------------------------------------------------------------
(* What is found in the body *)

\* Sequences of none and of one.
LEMMA ShortSeq == \A T, x : <<>> \in Seq(T) /\ (x \in T => <<x>> \in Seq(T))
OBVIOUS

\* What is raised for a rule is an error.
LEMMA RejectType ==
  ASSUME NEW o, NEW m \in 1..12, NEW n \in 1..12, NEW r, FirstOf(o, m, n, r)
  PROVE  V!Reject(r) \in Seq(V!Error)
<1>1. r = "none" \/ r \in V!Range(V!Rules)
  <2>1. \A k \in m..n : k \in 1..12
    OBVIOUS
  <2>2. \A k \in 1..12 : V!Rules[k] \in V!Range(V!Rules)
    <3>1. DOMAIN V!Rules = 1..12
      BY DEF V!Rules
    <3> QED BY <3>1 DEF V!Range
  <2> QED BY <2>1, <2>2 DEF FirstOf
<1> DEFINE e == [loc |-> "output", type |-> "value_error", rule |-> r]
<1>2. e \in V!Error
  BY <1>1 DEF V!Error
<1>3. V!Reject(r) = <<>> \/ V!Reject(r) = <<e>>
  BY DEF V!Reject, V!When
<1> HIDE DEF e
<1> QED BY <1>2, <1>3, ShortSeq

\* So is what Pydantic itself finds.
LEMMA PlainType == \A l \in {"body", "source", "files", "output"} : V!Plain(l) \in V!Error
BY DEF V!Plain, V!Error

\* So is all that is found in an output.
LEMMA OutputErrorsType ==
  ASSUME NEW o \in V!PdfOutput \cup V!ImageOutput \cup V!NoFormat
  PROVE  V!OutputErrors(o) \in Seq(V!Error)
<1>1. CASE o.format = "unknown"
  <2> DEFINE e == [loc |-> "output", type |-> "unsupported_format", rule |-> "none"]
  <2>1. V!OutputErrors(o) = <<e>>
    BY <1>1 DEF V!OutputErrors
  <2>2. e \in V!Error
    BY DEF V!Error
  <2> HIDE DEF e
  <2> QED BY <2>1, <2>2
<1>2. CASE o.format # "unknown"
  <2>1. o \in V!PdfOutput \cup V!ImageOutput
    BY <1>2 DEF V!NoFormat
  <2>2. o.pages \in V!Pages
    BY <2>1 DEF V!PdfOutput, V!ImageOutput
  <2>3. V!PagesErrors(o) \in Seq(V!Error)
    <3>1. 1 \in 1..12 /\ 4 \in 1..12
      OBVIOUS
    <3> QED BY <2>2, <3>1, PagesAgree, RejectType
  <2>4. V!FieldErrors(o) \in Seq(V!Error)
    <3>1. V!Plain("output") \in V!Error
      BY PlainType
    <3>2. /\ V!When(Len(o.standards) > MaxStandards, V!Plain("output")) \in Seq(V!Error)
          /\ V!When(o.alien, V!Plain("output")) \in Seq(V!Error)
          /\ V!When(o.page = "bad", V!Plain("output")) \in Seq(V!Error)
          /\ V!When(o.archive = "bad", V!Plain("output")) \in Seq(V!Error)
          /\ V!When(o.ppi = "bad", V!Plain("output")) \in Seq(V!Error)
      BY <3>1, ShortSeq DEF V!When
    <3>3. CASE o.format = "pdf"
      <4>1. V!FieldErrors(o) = V!When(Len(o.standards) > MaxStandards, V!Plain("output"))
                                 \o V!PagesErrors(o) \o V!When(o.alien, V!Plain("output"))
        BY <3>3 DEF V!FieldErrors
      <4> QED BY <2>3, <3>2, <4>1
    <3>4. CASE o.format # "pdf"
      <4>1. V!FieldErrors(o) = V!When(o.page = "bad", V!Plain("output"))
                \o V!When(o.archive = "bad", V!Plain("output")) \o V!PagesErrors(o)
                \o V!When(o.ppi = "bad", V!Plain("output"))
                \o V!When(o.alien, V!Plain("output"))
        BY <3>4 DEF V!FieldErrors
      <4> QED BY <2>3, <3>2, <4>1
    <3> QED BY <3>3, <3>4
  <2> DEFINE v == IF o.format = "pdf" THEN V!ValidatePdfOptions(o)
                                      ELSE V!ValidateImageOptions(o)
  <2>5. FirstOf(o, 5, 12, v)
    BY <2>1, PdfAgrees, ImageAgrees DEF V!PdfOutput, V!ImageOutput
  <2>6. V!OutputErrors(o) = V!FieldErrors(o) \/ V!OutputErrors(o) = V!Reject(v)
    BY <1>2 DEF V!OutputErrors
  <2> HIDE DEF v
  <2>7. V!Reject(v) \in Seq(V!Error)
    <3>1. 5 \in 1..12 /\ 12 \in 1..12
      OBVIOUS
    <3> QED BY <2>5, <3>1, RejectType
  <2> QED BY <2>4, <2>6, <2>7
<1> QED BY <1>1, <1>2

-----------------------------------------------------------------------------
\* A request that could only be refused for its output, and for a rule of it.
ByRulesOnly == /\ cause = "none"
               /\ request \in V!Request /\ V!OnlyOutputMatters
               /\ V!SchemaAllows(request.output)

\* What the checks between the token and the key count know of each other.
BodyInv ==
  /\ errors \in Seq(V!Error)
  /\ at = "routing" => errors = <<>>
  /\ at \in {"handle", "refused"} => errors # <<>>
  /\ at = "refused" => response # <<>>
  /\ at \notin {"refused", "answered"} => response = <<>>
  /\ OneErrorReported
  /\ at \in Validating \cup {"authorizing"} => request \in V!Request
  /\ at \in {"accepted", "handle", "refused"} /\ cause = "none" => request \in V!Request
  /\ ByRulesOnly =>
       /\ at \in {"authorizing", "files_count", "source", "files", "output", "keys",
                  "accepted"} => errors = <<>>
       /\ at \in {"extra", "keys", "handle", "accepted", "refused"}
            => errors = V!OutputErrors(request.output)

\* The minimum of naturals is one of them.
LEMMA VMinIn ==
  ASSUME NEW S, S \subseteq Nat, S # {}
  PROVE  V!Min(S) \in S
BY LeastExists DEF V!Min

\* The handler makes an answer of one of the errors: rule and code are of the first
\* that has a code of its own, or of the first.
LEMMA HandleOK ==
  ASSUME BodyInv, Handle
  PROVE  BodyInv'
<1>1. /\ at = "handle" /\ at' = "refused" /\ errors # <<>> /\ errors \in Seq(V!Error)
      /\ UNCHANGED <<request, errors, cause>>
      /\ response' = <<[code |-> V!Code, detail |-> V!Reported, rule |-> V!Rule,
                        published |-> V!PublishedErrors]>>
  BY DEF Handle, V!HandleValidationError, BodyInv
<1>2. V!Classified \subseteq DOMAIN errors /\ DOMAIN errors \subseteq Nat /\ 1 \in DOMAIN errors
  BY <1>1 DEF V!Classified
<1>3. V!Classified # {} => V!Min(V!Classified) \in V!Classified
  BY <1>2, VMinIn
<1>4. V!Reported \in V!Range(errors)
  BY <1>2, <1>3 DEF V!Reported, V!Range
<1>5. V!Code = (IF V!Reported.type \in V!Published THEN V!Reported.type ELSE "invalid_request")
  BY <1>2, <1>3 DEF V!Code, V!Reported, V!Classified
<1>6. OneErrorReported'
  <2>1. /\ response'[1].detail = V!Reported /\ response'[1].code = V!Code
        /\ response'[1].rule = V!Reported.rule
    BY <1>1 DEF V!Rule
  <2> HIDE DEF OneErrorReported
  <2>2. V!Range(errors)' = V!Range(errors)
    BY <1>1 DEF V!Range
  <2> QED BY <1>4, <1>5, <2>1, <2>2 DEF OneErrorReported, V!OneErrorReported
<1>7. response' # <<>>
  BY <1>1
<1>8. ByRulesOnly' <=> ByRulesOnly
  BY <1>1 DEF ByRulesOnly, V!OnlyOutputMatters
<1>9. (ByRulesOnly => errors = V!OutputErrors(request.output))'
  BY <1>1, <1>8 DEF BodyInv
<1>10. (cause = "none" => request \in V!Request)'
  BY <1>1 DEF BodyInv
<1> QED BY <1>1, <1>6, <1>7, <1>9, <1>10 DEF BodyInv, Validating

\* A validator that ran: its errors join those there are.
LEMMA CollectOK ==
  ASSUME BodyInv, NEW here \in Validating, 
         NEW there \in {"source", "files", "output", "extra", "keys", "handle", "accepted"},
         NEW es \in Seq(V!Error), V!Collect(here, es, there), UNCHANGED cause,
         there = "handle" => errors \o es # <<>>,
         ByRulesOnly /\ there \in {"source", "files", "output", "keys", "accepted"}
           => errors \o es = <<>>,
         ByRulesOnly /\ there \in {"extra", "keys", "handle", "accepted"}
           => errors \o es = V!OutputErrors(request.output)
  PROVE  BodyInv'
<1>1. /\ at = here /\ at' = there /\ UNCHANGED <<request, response, cause>>
      /\ errors' = errors \o es /\ request \in V!Request
      /\ response = <<>> /\ errors \in Seq(V!Error)
  BY DEF V!Collect, BodyInv, Validating
<1>2. errors' \in Seq(V!Error)
  BY <1>1
<1>3. OneErrorReported'
  BY <1>1 DEF OneErrorReported, V!OneErrorReported
<1>4. ByRulesOnly' <=> ByRulesOnly
  BY <1>1 DEF ByRulesOnly, V!OnlyOutputMatters
<1>5. (ByRulesOnly =>
         /\ at \in {"authorizing", "files_count", "source", "files", "output", "keys",
                    "accepted"} => errors = <<>>
         /\ at \in {"extra", "keys", "handle", "accepted", "refused"}
              => errors = V!OutputErrors(request.output))'
  BY <1>1, <1>4
<1> QED BY <1>1, <1>2, <1>3, <1>5 DEF BodyInv, Validating

\* Every validator keeps the invariant.
LEMMA ValidateOK ==
  ASSUME BodyInv, Validate
  PROVE  BodyInv'
<1>1. /\ UNCHANGED cause /\ request \in V!Request /\ errors \in Seq(V!Error)
      /\ at \in Validating
  BY DEF Validate, Validating, BodyInv
<1>2. ByRulesOnly /\ at \in Validating =>
       /\ at # "extra" => errors = <<>>
       /\ at \in {"extra", "keys"} => errors = V!OutputErrors(request.output)
  BY DEF BodyInv, Validating
<1>3. ByRulesOnly => /\ request.source = "ok" /\ request.entries = 0
                     /\ request.keys = "ok" /\ ~request.extra
  BY DEF ByRulesOnly, V!OnlyOutputMatters
<1>4. \A s \in Seq(V!Error) : <<>> \o s = s /\ s \o <<>> = s
  OBVIOUS
<1>5. CASE V!BoundFilesCount
  <2> DEFINE e == [loc |-> "body", type |-> "invalid_file_data", rule |-> "too_many_keys"]
  <2>1. e \in V!Error
    BY DEF V!Error
  <2>2. CASE request.keys = "too_many"
    <3>1. V!Collect("files_count", <<e>>, "handle")
      BY <1>5, <2>2 DEF V!BoundFilesCount
    <3>2. ~ByRulesOnly
      BY <1>3, <2>2
    <3> HIDE DEF e
    <3>3. <<e>> \in Seq(V!Error) /\ errors \o <<e>> # <<>>
      BY <1>1, <2>1
    <3> QED BY <3>1, <3>2, <3>3, <1>1, CollectOK DEF Validating
  <2>3. CASE request.keys # "too_many"
    <3>1. V!Collect("files_count", <<>>, "source") /\ at = "files_count"
      BY <1>5, <2>3 DEF V!BoundFilesCount, V!Collect
    <3>2. <<>> \in Seq(V!Error) /\ errors \o <<>> = errors
      BY <1>1
    <3> QED BY <3>1, <3>2, <1>1, <1>2, CollectOK DEF Validating
  <2> QED BY <2>2, <2>3
<1>6. CASE V!ValidateSource
  <2> DEFINE es == V!When(request.source = "bad", V!Plain("source"))
  <2>1. V!Collect("source", es, "files") /\ at = "source"
    BY <1>6 DEF V!ValidateSource, V!Collect
  <2>2. es \in Seq(V!Error)
    BY PlainType, ShortSeq DEF V!When
  <2>3. ByRulesOnly => es = <<>>
    BY <1>3 DEF V!When
  <2> HIDE DEF es
  <2> QED BY <2>1, <2>2, <2>3, <1>1, <1>2, <1>4, CollectOK DEF Validating
<1>7. CASE V!ValidateFiles
  <2> DEFINE es == [i \in 1..(2 * request.entries) |-> V!Plain("files")]
  <2>1. V!Collect("files", es, "output") /\ at = "files"
    BY <1>7 DEF V!ValidateFiles, V!Collect
  <2>2. request.entries \in Nat
    BY <1>1, RequestsAssumption DEF V!Request, V!Assumptions
  <2>3. es \in Seq(V!Error)
    <3>1. V!Plain("files") \in V!Error /\ 2 * request.entries \in Nat
      BY <2>2, PlainType
    <3> QED BY <3>1
  <2>4. ByRulesOnly => es = <<>>
    BY <1>3
  <2> HIDE DEF es
  <2> QED BY <2>1, <2>3, <2>4, <1>1, <1>2, <1>4, CollectOK DEF Validating
<1>8. CASE V!ValidateOutput
  <2> DEFINE es == V!OutputErrors(request.output)
  <2>1. V!Collect("output", es, "extra") /\ at = "output"
    BY <1>8 DEF V!ValidateOutput, V!Collect
  <2>2. es \in Seq(V!Error)
    BY <1>1, OutputErrorsType DEF V!Request
  <2>3. ByRulesOnly => errors \o es = V!OutputErrors(request.output)
    BY <2>1, <2>2, <1>1, <1>2, <1>4
  <2> HIDE DEF es
  <2> QED BY <2>1, <2>2, <2>3, <1>1, CollectOK DEF Validating
<1>9. CASE V!RefuseExtra
  <2> DEFINE es == V!When(request.extra, V!Plain("body"))
  <2>1. /\ V!Collect("extra", es, IF errors \o es = <<>> THEN "keys" ELSE "handle")
        /\ at = "extra"
    BY <1>9 DEF V!RefuseExtra, V!Collect
  <2>2. es \in Seq(V!Error)
    BY PlainType, ShortSeq DEF V!When
  <2>3. ByRulesOnly => es = <<>>
    BY <1>3 DEF V!When
  <2>4. ByRulesOnly => errors \o es = V!OutputErrors(request.output)
    BY <2>1, <2>3, <1>1, <1>2, <1>4
  <2> HIDE DEF es
  <2> QED BY <2>1, <2>2, <2>4, <1>1, CollectOK DEF Validating
<1>10. CASE V!ValidateFileKeys
  <2>1. at = "keys"
    BY <1>10 DEF V!ValidateFileKeys, V!Collect
  <2>2. ASSUME NEW e \in V!Error, ~ByRulesOnly, V!Collect("keys", <<e>>, "handle") PROVE BodyInv'
    <3>1. <<e>> \in Seq(V!Error) /\ errors \o <<e>> # <<>>
      BY <1>1
    <3> QED BY <2>2, <3>1, <1>1, CollectOK DEF Validating
  <2>3. CASE request.keys = "invalid"
    <3>1. V!Collect("keys", <<V!FilesError("invalid_template_path", "none")>>, "handle")
      BY <1>10, <2>3 DEF V!ValidateFileKeys
    <3>2. V!FilesError("invalid_template_path", "none") \in V!Error
      BY DEF V!FilesError, V!Error
    <3> QED BY <3>1, <3>2, <2>2, <2>3, <1>3
  <2>4. CASE request.keys = "collide"
    <3>1. V!Collect("keys", <<V!FilesError("invalid_file_data", "case_collision")>>, "handle")
      BY <1>10, <2>4 DEF V!ValidateFileKeys
    <3>2. V!FilesError("invalid_file_data", "case_collision") \in V!Error
      BY DEF V!FilesError, V!Error
    <3> QED BY <3>1, <3>2, <2>2, <2>4, <1>3
  <2>5. CASE request.keys \notin {"invalid", "collide"}
    <3>1. V!Collect("keys", <<>>, "accepted")
      BY <1>10, <2>5 DEF V!ValidateFileKeys
    <3>2. <<>> \in Seq(V!Error) /\ errors \o <<>> = errors
      BY <1>1
    <3> QED BY <2>1, <3>1, <3>2, <1>1, <1>2, CollectOK DEF Validating
  <2> QED BY <2>3, <2>4, <2>5
<1> QED BY <1>5, <1>6, <1>7, <1>8, <1>9, <1>10 DEF Validate

\* A step that leaves the body and what was found in it alone.
LEMMA AnsweredAside ==
  ASSUME BodyInv, UNCHANGED bodyVars, at' = "answered"
  PROVE  BodyInv'
<1>1. UNCHANGED <<request, errors, response>>
  BY DEF bodyVars
<1>2. OneErrorReported'
  <2>1. OneErrorReported
    BY DEF BodyInv
  <2> QED BY <1>1, <2>1 DEF OneErrorReported, V!OneErrorReported, V!Range
<1> QED BY <1>1, <1>2 DEF BodyInv, Validating

\* The same of a step that answers nothing.
LEMMA BodyAside ==
  ASSUME BodyInv, UNCHANGED bodyVars,
         \/ at' \in {"abandoned", "rendering"} /\ at \notin {"refused", "answered"}
         \/ at = "authorizing" /\ at' = "files_count" /\ UNCHANGED cause
  PROVE  BodyInv'
<1>1. UNCHANGED <<request, errors, response>>
  BY DEF bodyVars
<1>2. OneErrorReported'
  <2>1. OneErrorReported
    BY DEF BodyInv
  <2> QED BY <1>1, <2>1 DEF OneErrorReported, V!OneErrorReported, V!Range
<1>3. at = "authorizing" /\ UNCHANGED cause => (ByRulesOnly' <=> ByRulesOnly)
  BY <1>1 DEF ByRulesOnly, V!OnlyOutputMatters
<1> QED BY <1>1, <1>2, <1>3 DEF BodyInv, Validating

\* So does counting the files.
LEMMA FilesAside ==
  ASSUME BodyInv, UNCHANGED <<request, errors, response>>, at = "accepted",
         at' \in {"answered", "waiting"}
  PROVE  BodyInv'
<1>1. OneErrorReported'
  <2>1. OneErrorReported
    BY DEF BodyInv
  <2> QED BY <2>1 DEF OneErrorReported, V!OneErrorReported, V!Range
<1> QED BY <1>1 DEF BodyInv, Validating

\* A body that is no JSON has its one error.
LEMMA NotJsonOK ==
  ASSUME BodyInv, NotJson
  PROVE  BodyInv'
<1>1. /\ at = "routing" /\ at' = "handle" /\ cause' = "not JSON"
      /\ UNCHANGED <<request, response>> /\ errors' = <<V!Plain("body")>> /\ response = <<>>
  BY DEF NotJson, BodyInv
<1>2. errors' \in Seq(V!Error) /\ errors' # <<>>
  BY <1>1, PlainType, ShortSeq
<1>3. OneErrorReported'
  BY <1>1 DEF OneErrorReported, V!OneErrorReported
<1>4. ~ByRulesOnly'
  BY <1>1 DEF ByRulesOnly
<1> QED BY <1>1, <1>2, <1>3, <1>4 DEF BodyInv, Validating

\* What every step can rely on, and must leave behind.
IInv == BodyInv /\ RouteInv

\* The invariant holds at first.
LEMMA InitIInv == Init => IInv
<1> SUFFICES ASSUME Init PROVE BodyInv
  BY InitOK DEF IInv
<1>1. OneErrorReported
  BY DEF Init, OneErrorReported, V!OneErrorReported
<1>2. ~ByRulesOnly \/ at = "routing"
  BY DEF Init
<1> QED BY <1>1, <1>2 DEF Init, BodyInv, Validating

\* Where nothing was counted or answered, counters and blame agree.
LEMMA Uncounted ==
  ASSUME total' = <<>>, failed' = <<>>, answer' = <<>>, at' \notin Done,
         permitted' => files' <= MaxInlineFiles
  PROVE  CountersAgree' /\ BlameAgrees'
<1>1. CountersAgree'
  BY DEF CountersAgree, Answered, Done
<1>2. BlameAgrees'
  BY DEF BlameAgrees
<1> QED BY <1>1, <1>2

\* A step before the wait, that counts and answers nothing.
LEMMA QuietOK ==
  ASSUME RouteInv, at \notin Done, at' \notin Done, ~permitted, cause' \in {"none", "not JSON"},
         at' \in Validating \cup {"authorizing", "handle", "accepted", "refused", "waiting"},
         at' = "waiting" => files' <= MaxInlineFiles,
         UNCHANGED permitted, UNCHANGED countVars, UNCHANGED logged, UNCHANGED answer
  PROVE  RouteInv'
<1>1. /\ total' = <<>> /\ failed' = <<>> /\ logged' = <<>> /\ answer' = <<>>
      /\ ~permitted'
  BY DEF RouteInv, Progress, countVars
<1>2. Progress'
  BY <1>1 DEF Progress, Validating, Done
<1> QED BY <1>1, <1>2, Uncounted DEF RouteInv

\* Before the wait nobody has a permit and nothing was logged.
LEMMA BeforeWait ==
  ASSUME RouteInv, at \notin Done \cup {"rendering"}
  PROVE  ~permitted /\ logged = <<>> /\ cause \in {"none", "not JSON"}
BY DEF RouteInv, Progress, Done

\* The permit is given to a request whose files were counted.
LEMMA AcquiredOK ==
  ASSUME RouteInv, at = "waiting", at' = "rendering", permitted' = TRUE, UNCHANGED files,
         UNCHANGED cause, UNCHANGED countVars, UNCHANGED logged, UNCHANGED answer
  PROVE  RouteInv'
<1>1. /\ total' = <<>> /\ failed' = <<>> /\ logged' = <<>> /\ answer' = <<>>
      /\ cause' \in {"none", "not JSON"} /\ files' <= MaxInlineFiles
  BY DEF RouteInv, Progress, countVars, Done
<1>2. Progress'
  BY <1>1 DEF Progress, Validating, Done
<1>3. CountersAgree' /\ BlameAgrees'
  BY <1>1, Uncounted DEF Done
<1> QED BY <1>2, <1>3 DEF RouteInv

\* The codes that are answered before the wait.
Refusal == Codes \ {"render_timeout", "render_queue_full", "render_failed",
                    "service_unavailable"}

\* An AppError from before the wait is answered and logged.
LEMMA ToldByError ==
  ASSUME RouteInv, at \notin Done \cup {"rendering"}, NEW code \in Refusal,
         NEW headers, "Retry-After" \notin headers, HandleAppError(code, headers),
         cause' \notin {Other, "render_failed", "render_queue_full"},
         UNCHANGED <<permitted, countVars>>
  PROVE  RouteInv'
<1>1. Told(code, headers)
  BY DEF HandleAppError, Respond, Told
<1>2. logged' = <<"warning">>
  <2>1. Problems[code].origin # "service"
    BY ProblemsTable DEF Refusal, Ours
  <2>2. logged' = Append(logged, Level(code))
    BY DEF HandleAppError
  <2>3. logged = <<>>
    BY BeforeWait
  <2>4. Level(code) = "warning"
    BY <2>1 DEF Level
  <2> QED BY <2>2, <2>3, <2>4
<1> QED BY <1>1, <1>2, BeforeWait, RefusedOK DEF Refusal

\* A failure of FastAPI's own is told by its status, and not logged.
LEMMA ToldByStatus ==
  ASSUME RouteInv, at \notin Done \cup {"rendering"}, NEW status \in {400, 404, 405},
         NEW headers, "Retry-After" \notin headers, HandleHttpException(status, headers),
         cause' \notin {Other, "render_failed", "render_queue_full"},
         UNCHANGED <<permitted, countVars>>
  PROVE  RouteInv'
<1>1. \E code \in {"not_found", "method_not_allowed", "invalid_request"},
         hs \in {headers, {}} : Told(code, hs)
  BY DEF HandleHttpException, Respond, Told
<1>2. PICK code \in {"not_found", "method_not_allowed", "invalid_request"},
           hs \in {headers, {}} : Told(code, hs)
  BY <1>1
<1>3. code \in Refusal /\ "Retry-After" \notin hs
  BY DEF Refusal, Codes
<1>4. logged' = <<>>
  BY BeforeWait DEF HandleHttpException
<1> QED BY <1>2, <1>3, <1>4, BeforeWait, RefusedOK DEF Refusal

\* Every step keeps the invariant.
LEMMA StepOK == IInv /\ [Next]_vars => IInv'
<1> SUFFICES ASSUME IInv, [Next]_vars PROVE BodyInv' /\ RouteInv'
  BY DEF IInv
<1>0. BodyInv /\ RouteInv /\ Other # "invalid"
  BY DEF IInv, Other
<1> USE <1>0
<1>1. CASE NotRouted
  <2>1. PICK status \in {404, 405}, headers \in {{}, {"Allow"}} :
          HandleHttpException(status, headers)
    BY <1>1 DEF NotRouted
  <2>2. /\ at = "routing" /\ at' = "answered" /\ UNCHANGED bodyVars
        /\ UNCHANGED <<permitted, countVars>>
        /\ cause' \notin {Other, "render_failed", "render_queue_full"}
    BY <1>1 DEF NotRouted, HandleHttpException, Respond, Other
  <2> QED BY <2>1, <2>2, ToldByStatus, AnsweredAside DEF Done
<1>2. CASE BodyRefused
  <2>1. /\ at = "routing" /\ at' = "answered" /\ UNCHANGED bodyVars
        /\ UNCHANGED <<permitted, countVars>> /\ HandleAppError("request_too_large", {})
        /\ cause' \notin {Other, "render_failed", "render_queue_full"}
    BY <1>2 DEF BodyRefused, HandleAppError, Respond, Other
  <2>2. "request_too_large" \in Refusal
    BY DEF Refusal, Codes
  <2> QED BY <2>1, <2>2, ToldByError, AnsweredAside DEF Done
<1>3. CASE BodyUnreadable
  <2>1. /\ at = "routing" /\ at' = "answered" /\ UNCHANGED bodyVars
        /\ UNCHANGED <<permitted, countVars>> /\ HandleHttpException(400, {})
        /\ cause' \notin {Other, "render_failed", "render_queue_full"}
    BY <1>3 DEF BodyUnreadable, HandleHttpException, Respond, Other
  <2> QED BY <2>1, ToldByStatus, AnsweredAside DEF Done
<1>4. CASE NotJson
  <2>1. /\ at = "routing" /\ at' = "handle" /\ cause' = "not JSON"
        /\ UNCHANGED permitted /\ UNCHANGED countVars /\ UNCHANGED logged
        /\ UNCHANGED answer
    BY <1>4 DEF NotJson
  <2>2. RouteInv'
    BY <2>1, BeforeWait, QuietOK DEF Done
  <2> QED BY <1>4, <2>2, NotJsonOK
<1>5. CASE Parsed
  <2>1. /\ at = "routing" /\ at' = "authorizing" /\ UNCHANGED <<errors, response, cause>>
        /\ request' \in V!Request /\ UNCHANGED permitted /\ UNCHANGED countVars
        /\ UNCHANGED logged /\ UNCHANGED answer
    BY <1>5 DEF Parsed
  <2>2. RouteInv'
    BY <2>1, BeforeWait, QuietOK DEF Done
  <2>3. errors = <<>> /\ response = <<>>
    BY <2>1 DEF BodyInv
  <2>4. OneErrorReported'
    BY <2>1, <2>3 DEF OneErrorReported, V!OneErrorReported
  <2>5. BodyInv'
    BY <2>1, <2>3, <2>4 DEF BodyInv, Validating
  <2> QED BY <2>2, <2>5
<1>6. CASE Authorize
  <2>1. at = "authorizing" /\ UNCHANGED bodyVars /\ UNCHANGED permitted /\ UNCHANGED countVars
    BY <1>6 DEF Authorize
  <2>2. CASE at' = "files_count" /\ UNCHANGED <<cause, logged, answer>>
    BY <2>1, <2>2, BeforeWait, QuietOK, BodyAside DEF Done, Validating
  <2>3. CASE cause' = "wrong token" /\ HandleAppError("forbidden", {})
    <3>1. "forbidden" \in Refusal
      BY DEF Refusal, Codes
    <3>2. at' = "answered" /\ cause' \notin {Other, "render_failed", "render_queue_full"}
      BY <2>3 DEF HandleAppError, Respond, Other
    <3> QED BY <2>1, <2>3, <3>1, <3>2, ToldByError, AnsweredAside DEF Done
  <2> QED BY <1>6, <2>2, <2>3 DEF Authorize
<1>7. CASE Validate
  <2>1. /\ at \in Validating /\ at' \in Validating \cup {"handle", "accepted"}
        /\ UNCHANGED permitted /\ UNCHANGED countVars /\ UNCHANGED logged
        /\ UNCHANGED answer /\ UNCHANGED cause
    BY <1>7 DEF Validate, Validating, V!Collect, V!BoundFilesCount, V!ValidateSource,
       V!ValidateFiles, V!ValidateOutput, V!RefuseExtra, V!ValidateFileKeys
  <2>2. RouteInv'
    BY <2>1, BeforeWait, QuietOK DEF Done, Validating
  <2> QED BY <1>7, <2>2, ValidateOK
<1>8. CASE Handle
  <2>1. /\ at = "handle" /\ at' = "refused"
        /\ UNCHANGED permitted /\ UNCHANGED countVars /\ UNCHANGED logged
        /\ UNCHANGED answer /\ UNCHANGED cause
    BY <1>8 DEF Handle, V!HandleValidationError
  <2>2. RouteInv'
    BY <2>1, BeforeWait, QuietOK DEF Done, Validating
  <2> QED BY <1>8, <2>2, HandleOK
<1>9. CASE AnswerInvalid
  <2>1. /\ at = "refused" /\ at' = "answered" /\ UNCHANGED bodyVars
        /\ UNCHANGED <<permitted, countVars>> /\ UNCHANGED logged
        /\ cause' = IF cause = "none" THEN "invalid" ELSE cause
        /\ Told(response[1].code, {})
    BY <1>9 DEF AnswerInvalid, Respond, Told
  <2>2. cause' \notin {Other, "render_failed", "render_queue_full"} /\ logged' = <<>>
    BY <2>1, BeforeWait DEF Other, Done
  <2>3. response[1].code \in V!Published \cup {"invalid_request"}
    BY <2>1 DEF BodyInv, OneErrorReported, V!OneErrorReported
  <2>4. response[1].code \in Refusal
    BY <2>3 DEF V!Published, Refusal, Codes, RenderCode
  <2>5. RouteInv'
    BY <2>1, <2>2, <2>4, BeforeWait, RefusedOK DEF Refusal, Done
  <2>6. BodyInv'
    <3>1. at' = "answered" /\ UNCHANGED bodyVars
      BY <2>1
    <3> QED BY <3>1, AnsweredAside
  <2> QED BY <2>5, <2>6
<1>10. CASE CheckKeyCount
  <2>1. /\ at = "accepted" /\ UNCHANGED <<request, errors, response>>
        /\ files' \in 0..MaxKeys /\ UNCHANGED permitted /\ UNCHANGED countVars
    BY <1>10 DEF CheckKeyCount
  <2>2. CASE files' > EffectiveKeyLimit
    <3>1. cause' = "too many files" /\ HandleAppError("invalid_file_data", {})
      BY <1>10, <2>2 DEF CheckKeyCount
    <3>2. "invalid_file_data" \in Refusal
      BY DEF Refusal, Codes, RenderCode
    <3>3. at' = "answered" /\ cause' \notin {Other, "render_failed", "render_queue_full"}
      BY <3>1 DEF HandleAppError, Respond, Other
    <3> QED BY <2>1, <3>1, <3>2, <3>3, ToldByError, FilesAside DEF Done
  <2>3. CASE ~(files' > EffectiveKeyLimit)
    <3>1. at' = "waiting" /\ UNCHANGED cause /\ UNCHANGED logged /\ UNCHANGED answer
      BY <1>10, <2>3 DEF CheckKeyCount
    <3>2. files' <= MaxInlineFiles
      BY <2>1, <2>3, KeysAssumption DEF EffectiveKeyLimit
    <3> QED BY <2>1, <3>1, <3>2, BeforeWait, QuietOK, FilesAside DEF Done
  <2> QED BY <2>2, <2>3
<1>11. CASE Acquired
  <2>1. /\ at = "waiting" /\ at' = "rendering" /\ UNCHANGED bodyVars
        /\ UNCHANGED files /\ UNCHANGED cause /\ UNCHANGED countVars /\ UNCHANGED logged
        /\ UNCHANGED answer /\ permitted' = TRUE
    BY <1>11 DEF Acquired, bodyVars
  <2>2. RouteInv'
    BY <2>1, AcquiredOK
  <2> QED BY <2>1, <2>2, BodyAside
<1>12. CASE QueueTimeout
  <2>1. UNCHANGED bodyVars /\ at = "waiting" /\ Raises("render_queue_full", {"Retry-After"})
    BY <1>12 DEF QueueTimeout, Raises
  <2>2. RouteInv' /\ at' = "answered"
    BY <2>1, RaisedOK
  <2>3. BodyInv'
    BY <2>1, <2>2, AnsweredAside
  <2> QED BY <2>2, <2>3
<1>13. CASE Disconnect
  <2>1. UNCHANGED bodyVars /\ at \in {"waiting", "rendering"}
    BY <1>13 DEF Disconnect, Raises
  <2>2. RouteInv' /\ at' = "abandoned"
    BY <1>13, AbandonedOK
  <2>3. BodyInv'
    BY <2>1, <2>2, BodyAside
  <2> QED BY <2>2, <2>3
<1>14. CASE RenderRaises
  <2>1. PICK exc \in RenderCode \cup {Other} : at = "rendering" /\ Raises(exc, {})
    BY <1>14 DEF RenderRaises
  <2>2. UNCHANGED bodyVars
    BY <2>1 DEF Raises
  <2>3. RouteInv' /\ at' = "answered"
    <3>1. CASE exc = Other
      BY <2>1, <3>1, UnhandledOK
    <3>2. CASE exc \in RenderCode
      <4>1. exc # "render_queue_full"
        BY <3>2 DEF RenderCode
      <4> QED BY <2>1, <3>2, <4>1, RaisedOK
    <3> QED BY <2>1, <3>1, <3>2
  <2>4. BodyInv'
    BY <2>2, <2>3, AnsweredAside
  <2> QED BY <2>3, <2>4
<1>15. CASE Rendered
  <2>1. UNCHANGED bodyVars /\ at' = "answered"
    BY <1>15 DEF Rendered
  <2>2. RouteInv'
    BY <1>15, RenderedOK
  <2>3. BodyInv'
    BY <2>1, AnsweredAside
  <2> QED BY <2>2, <2>3
<1>16. CASE UNCHANGED vars
  <2>1. UNCHANGED <<at, request, errors, response, files, permitted, cause, total, failed,
                    logged, answer>>
    BY <1>16 DEF vars, countVars
  <2>2. Progress' /\ CountersAgree'
    BY <2>1 DEF RouteInv, Progress, CountersAgree, Answered
  <2>3. BlameAgrees'
    BY <2>1 DEF RouteInv, BlameAgrees, Range
  <2>4. OneErrorReported'
    BY <2>1 DEF BodyInv, OneErrorReported, V!OneErrorReported, V!Range
  <2>5. ByRulesOnly' <=> ByRulesOnly
    BY <2>1 DEF ByRulesOnly, V!OnlyOutputMatters
  <2>6. BodyInv'
    BY <2>1, <2>4, <2>5 DEF BodyInv
  <2> QED BY <2>2, <2>3, <2>6 DEF RouteInv
<1> QED
  BY <1>1, <1>2, <1>3, <1>4, <1>5, <1>6, <1>7, <1>8, <1>9, <1>10, <1>11, <1>12, <1>13,
     <1>14, <1>15, <1>16 DEF Next, Finished

\* Every reachable state of a request satisfies the invariant.
THEOREM AnswersInvariance == Spec => []IInv
BY InitIInv, StepOK, PTL DEF Spec

\* Whatever a request meets, the two counters and the answer tell one story, and
\* nobody with more files than the instance publishes waits or holds a permit.
THEOREM CountersAlwaysAgree == Spec => []CountersAgree
<1>1. IInv => CountersAgree
  BY DEF IInv, RouteInv
<1> QED BY <1>1, AnswersInvariance, PTL

\* The status, the origin and the level of the log blame Prelum exactly where the
\* fault is its own, and only shed load is told when to come back.
THEOREM BlameIsOurs == Spec => []BlameAgrees
<1>1. IInv => BlameAgrees
  BY DEF IInv, RouteInv
<1> QED BY <1>1, AnswersInvariance, PTL

\* Code, rule and detail of every problem are about one of the errors found.
THEOREM OneErrorIsReported == Spec => []OneErrorReported
<1>1. IInv => OneErrorReported
  BY DEF IInv, BodyInv
<1> QED BY <1>1, AnswersInvariance, PTL

\* For every list of standards, version, pages and archive: a caller that applies
\* the published rules in their order comes to the answer of the service.
THEOREM MirrorIsTrue == Spec => []MirrorAgrees
<1>1. IInv => MirrorAgrees
  <2> SUFFICES ASSUME IInv, at \in {"accepted", "refused"}, cause = "none",
                      V!OnlyOutputMatters, V!SchemaAllows(request.output)
               PROVE  LET o == request.output IN
                      /\ at = "accepted" => V!BrokenRules(o) = {}
                      /\ at = "refused" =>
                           /\ V!BrokenRules(o) # {}
                           /\ response[1].rule = V!Rules[V!Min(V!BrokenRules(o))]
    BY DEF MirrorAgrees, V!MirrorAgrees
  <2> DEFINE o == request.output
  <2>1. ByRulesOnly
    BY DEF IInv, BodyInv, ByRulesOnly
  <2>2. o \in V!PdfOutput \cup V!ImageOutput \cup V!NoFormat
    BY <2>1 DEF ByRulesOnly, V!Request
  <2>3. errors = V!OutputErrors(o)
    BY <2>1 DEF IInv, BodyInv
  <2>4. PICK r : V!OutputErrors(o) = V!Reject(r) /\ FirstOf(o, 1, 12, r)
    BY <2>2, OutputAgrees
  <2>5. V!BrokenRules(o) = {i \in 1..12 : V!Breaks(o, V!Rules[i])}
    BY DEF V!BrokenRules, V!Rules
  <2>6. CASE r = "none"
    <3>1. errors = <<>>
      BY <2>3, <2>4, <2>6 DEF V!Reject, V!When
    <3>2. at = "accepted"
      BY <3>1 DEF IInv, BodyInv
    <3>3. \A i \in 1..12 : V!Rules[i] # "none"
      BY DEF V!Rules
    <3>4. V!BrokenRules(o) = {}
      BY <2>4, <2>5, <2>6, <3>3 DEF FirstOf
    <3> QED BY <3>2, <3>4
  <2>7. CASE r # "none"
    <3> DEFINE e == [loc |-> "output", type |-> "value_error", rule |-> r]
    <3>1. errors = <<e>>
      BY <2>3, <2>4, <2>7 DEF V!Reject, V!When
    <3>2. at = "refused" /\ response # <<>>
      BY <2>1, <3>1 DEF IInv, BodyInv
    <3>3. response[1].detail \in V!Range(errors) /\ response[1].rule = response[1].detail.rule
      BY <3>2 DEF IInv, BodyInv, OneErrorReported, V!OneErrorReported
    <3>4. V!Range(errors) = {e}
      <4> HIDE DEF e
      <4> QED BY <3>1 DEF V!Range
    <3>5. response[1].rule = r
      BY <3>3, <3>4
    <3>6. PICK k \in 1..12 : /\ r = V!Rules[k] /\ V!Breaks(o, r)
                             /\ \A i \in 1..12 : i < k => ~V!Breaks(o, V!Rules[i])
      BY <2>4, <2>7 DEF FirstOf
    <3>7. k \in V!BrokenRules(o) /\ V!BrokenRules(o) \subseteq Int
          /\ \A i \in V!BrokenRules(o) : k <= i
      BY <2>5, <3>6
    <3>8. V!Min(V!BrokenRules(o)) = k
      BY <3>7, VMinIs
    <3> QED BY <3>2, <3>5, <3>6, <3>7, <3>8
  <2> QED BY <2>6, <2>7
<1> QED BY <1>1, AnswersInvariance, PTL

=============================================================================
