--------------------------- MODULE MCRenderSlots ---------------------------
(* Four requests compete for two permits: two render, two wait, and a wait can *)
(* meet a release, a timeout and a disconnect in every order.                 *)
EXTENDS RenderSlots
=============================================================================
