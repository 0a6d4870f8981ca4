---------------------------- MODULE MCDeployment ----------------------------
(* The code's own lengths: the longest root that fits has 230 bytes; two    *)
(* are one byte too long in one spelling, and four cannot be used.  Keys are as  *)
(* long as they may be, or short.                                            *)
EXTENDS Deployment

MCRoots == {[state |-> "writable", spelt |-> n[1], resolved |-> n[2]] :
              n \in {<<4, 4>>, <<230, 230>>, <<231, 4>>, <<4, 231>>}}
           \cup {[state |-> s, spelt |-> 230, resolved |-> 230] :
                   s \in {"full", "readonly", "missing", "file"}}

MCKeyLengths == {1, MaxKey}

\* What one service is told of its memory, its token and its reports: the variables
\* of one concern are varied in full, beside the others' defaults.
Plain == [limit |-> "unset", token |-> "own", environment |-> "other",
          sentry_environment |-> "", sentry |-> "unset"]

MCDeployments == {[Plain EXCEPT !.limit = l] : l \in {"unset", "blank", "low", "enough"}}
                 \cup {[Plain EXCEPT !.sentry = s] : s \in {"unset", "sdk", "no_sdk"}}
                 \cup {d \in Given : d.limit = Plain.limit /\ d.sentry = Plain.sentry}

=============================================================================
