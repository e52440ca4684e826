--------------------------- MODULE MCViewerSource ---------------------------
(* Instances of ViewerSource for TLC.                                      *)
EXTENDS ViewerSource

AllPolicies == [viewport : BOOLEAN, raw : BOOLEAN]
=============================================================================
