\* Save As of a new file with other line breaks.
CONSTANTS
  Session = {s1}
  Other = {}
  File = {f}
  Mode = {"quick", "safe", "backup"}
  NoFile = NoFile
  MaxTime = 2
SPECIFICATION Spec
INVARIANT SavedStays
