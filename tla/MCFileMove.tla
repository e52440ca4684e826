---------------------------- MODULE MCFileMove ----------------------------
EXTENDS FileMove

(* A file under two names; a file with another name elsewhere and a link.  *)
MCSource ==
  {[inode |-> [a |-> "x", b |-> "x"], outside |-> FALSE, links |-> {}],
   [inode |-> [a |-> "x", b |-> "y"], outside |-> TRUE, links |-> {"b"}]}
=============================================================================
