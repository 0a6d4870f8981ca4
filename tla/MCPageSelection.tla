-------------------------- MODULE MCPageSelection --------------------------
(* Up to three selections over pages 1 to 4, one more to break the count, an   *)
(* archive of at most two pages, and documents longer than what is asked for. *)
EXTENDS PageSelection
=============================================================================
