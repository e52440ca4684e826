\* Two processes, two windows, which one process or two may open, and two files.
CONSTANTS
  p1 = p1
  p2 = p2
  Proc = {p1, p2}
  Window = {w1, w2}
  Host <- MCHost
  Pid <- MCPid
  File = {f, g}
  None = None
  NoLink = NoLink
  NotALink = NotALink
  NoPid = NoPid
  Links <- MCLinks
SPECIFICATION Spec
SYMMETRY Symm
INVARIANTS
  TypeOK
  Exclusive
  NothingLeftBehind
  ModifyLockKept
