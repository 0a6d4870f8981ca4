------------------------ MODULE MCRequestValidation ------------------------
(* Two PDF/A profiles of each kind that matters (tagged or not, PDF/A-4 or     *)
(* not), ua-1, every list of up to two of them and one of three; every way in  *)
(* which pages can be wrong; and one failure of every other kind.             *)
EXTENDS RequestValidation

Some  == {"a-1a", "a-2b", "a-4", "ua-1"}
Lists == BoundedSeq(Some, 2) \cup {<<"a-1a", "a-2b", "ua-1">>}
=============================================================================
