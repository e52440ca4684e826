\* No error at all; targets that are not there, or the beginning of a download.
CONSTANTS
  Name = {"a", "b"}
  Inode = {"x", "y"}
  Foreign = "other"
  Source <- MCSource
  Target = {"none", "beginning"}
  Fault = {}
  Pieces = 2
SPECIFICATION Spec
CHECK_DEADLOCK FALSE
INVARIANT
  FullyCopied
