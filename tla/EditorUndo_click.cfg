\* The same, without the condition that no click came in between.
CONSTANTS
  Chars = {"a", "b"}
  Blank = {"b"}
  Texts <- MCTexts
  Scripts <- MCScripts
  Moves <- MCMoves
  Offsets = {1}
  StartSize = 8
  Options <- MCOptions
  Reserve = 5
  MaxText = 5
  MaxKeys = 3
SPECIFICATION Spec
CHECK_DEADLOCK FALSE
INVARIANT
  ModifiedTells
