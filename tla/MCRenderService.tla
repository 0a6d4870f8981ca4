-------------------------- MODULE MCRenderService --------------------------
(* Two requests and one permit: the second waits, is shed, hangs up or is      *)
(* granted at every point of the first one's render, and of what its threads   *)
(* still do after it was abandoned.                                           *)
EXTENDS RenderService

OnePlan == {[archive |-> FALSE, selected |-> FALSE, bounded |-> TRUE]}
=============================================================================
