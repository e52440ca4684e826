---------------------------- MODULE MCVfsStamps ----------------------------
(* Instances of VfsStamps for TLC.                                         *)
EXTENDS VfsStamps, TLC

(* m lies in n, and n and the compressed file s lie in p.                  *)
MCParent == [a \in Archive |-> CASE a = "m" -> "n" [] a \in {"n", "s"} -> "p" [] OTHER -> Local]
MCPanel == <<"left", "right">>
=============================================================================
