\* Two sessions save one file in every mode.
CONSTANTS
  Session = {s1, s2}
  Other = {s2}
  File = {f}
  Mode = {"quick", "safe", "backup"}
  NoFile = NoFile
  MaxTime = 3
SPECIFICATION Spec
CONSTRAINT Apart
INVARIANTS
  TypeOK
  NoSilentOverwrite
  KeepsACopy
