------------------------------ MODULE MCAnswers ------------------------------
(* The requests of MCRequestValidation on their whole way, with an instance    *)
(* that allows fewer files than the structural cap.                           *)
EXTENDS Answers

Some  == {"a-1a", "a-2b", "a-4", "ua-1"}
Lists == BoundedSeq(Some, 2) \cup {<<"a-1a", "a-2b", "ua-1">>}
=============================================================================
