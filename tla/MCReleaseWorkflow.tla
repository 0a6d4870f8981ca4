-------------------------- MODULE MCReleaseWorkflow --------------------------
(* Two runs of two commits that say they are one version, of which another was *)
(* asked for too; two failures anywhere.                                      *)
EXTENDS ReleaseWorkflow

CONSTANTS v1, v2

Versions == {v1, v2}
Same1    == [c \in Commit |-> v1]
=============================================================================
