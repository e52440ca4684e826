------------------------------ MODULE MCFileLock ------------------------------
(* Instances of FileLock for TLC.                                          *)
EXTENDS FileLock, TLC

CONSTANTS p1, p2

MCHost == [p \in Proc |-> "here"]
MCPid == [p \in Proc |-> IF p = p1 THEN 1 ELSE 2]

(* Other programs have left something beside one of the files, or none.    *)
MCLinks == {l \in [File -> {NoLink, NotALink, NoPid}] :
              Cardinality({x \in File : l[x] # NoLink}) <= 1}

(* Processes have different numbers on one host, so they, windows and      *)
(* files are interchangeable.                                              *)
Symm == Permutations(Proc) \cup Permutations(Window) \cup Permutations(File)
=============================================================================
