---------------------------- MODULE MCBodyLimit ----------------------------
(* Bodies of up to seven bytes in up to four messages, a limit of three: a body *)
(* may end at the limit, pass it in its first message or its last, and hold     *)
(* empty messages anywhere.                                                   *)
EXTENDS BodyLimit

=============================================================================
