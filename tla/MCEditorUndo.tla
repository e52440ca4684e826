---------------------------- MODULE MCEditorUndo ----------------------------
(* Instances of EditorUndo for TLC.                                        *)
EXTENDS EditorUndo, TLC

MCTexts == {<<"a", "b">>}
(* Of two kinds in turn, so that one call fills the smaller ring.          *)
MCScripts == {<<"b", "a", "b", "a", "b">>}
(* A key to the right, and the home key.                                   *)
MCMoves == {1, -3}
MCOptions == {<<8, TRUE>>, <<16, FALSE>>}
=============================================================================
