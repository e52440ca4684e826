--------------------------- MODULE MCRuntimeEvents ---------------------------
(* Instances of RuntimeEvents for TLC.                                     *)
EXTENDS RuntimeEvents, TLC

CONSTANTS chdir, selection, key, left, right, lua, native

MCPriority == {0, 10}
MCOnePriority == {0}

(* Panels are interchangeable, and so are contexts.                        *)
Symm == Permutations(Panel) \cup Permutations(Context)
=============================================================================
