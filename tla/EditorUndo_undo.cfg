\* A letter and a blank; rings that grow once, and rings that never grow.
CONSTANTS
  Chars = {"a", "b"}
  Blank = {"b"}
  Texts <- MCTexts
  Scripts <- MCScripts
  Moves <- MCMoves
  Offsets = {1}
  StartSize = 8
  Options <- MCOptions
  Reserve = 5
  MaxText = 5
  MaxKeys = 3
SPECIFICATION Spec
CHECK_DEADLOCK FALSE
INVARIANTS
  TypeOK
  RingSound
  RedoReturns
  ClearMeansSaved
PROPERTIES
  UndoRestores
