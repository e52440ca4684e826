----------------------------- MODULE MCEditorSave -----------------------------
(* Instances of EditorSave for TLC.                                        *)
EXTENDS EditorSave, TLC

CONSTANT Other   \* sessions that do no more than open, save and close files: no sudo and no
                 \* backups, temporary files are whole, and what has changed is not overwritten

ASSUME OtherAssumption == Other \subseteq Session

Simple(s) ==
  /\ ~win[s].modified /\ (win[s].open => win[s].file # NoFile)
  /\ ~call[s].as /\ ~call[s].agreed /\ ~call[s].short /\ call[s].mode \in {"quick", "safe"}

(* Nothing more is claimed of a file once two sessions have changed it in  *)
(* each other's loading or saving, its versions have the same time or no   *)
(* time, or a write that failed unnoticed has left no whole copy of it:    *)
(* TLC goes no further from there.                                         *)
Apart ==
  /\ \A m \in marks : m[2] = "removed"
  /\ \A s \in Other : Simple(s)
===============================================================================
