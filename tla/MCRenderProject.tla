-------------------------- MODULE MCRenderProject --------------------------
(* One render with up to two files: every kind of output, every exit of Typst, *)
(* a timeout and one hang-up at any point.                                    *)
EXTENDS RenderProject

AllPlans == Plan
=============================================================================
