\* Two names, two pieces, every error but failing to link.
CONSTANTS
  Name = {"a", "b"}
  Inode = {"x", "y"}
  Foreign = "other"
  Source <- MCSource
  Target = {"none", "link", "beginning"}
  Fault = {"open", "read", "write", "close", "unlink", "attributes", "appears"}
  Pieces = 2
SPECIFICATION Spec
CHECK_DEADLOCK FALSE
INVARIANTS
  TypeOK
  NothingLost
PROPERTIES
  AsksFirst
