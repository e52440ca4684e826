\* Subscribing, unsubscribing and failing callbacks under nested dispatch.
CONSTANTS
  chdir = chdir
  selection = selection
  key = key
  left = left
  right = right
  lua = lua
  native = native
  NoPanel = NoPanel
  NoContext = NoContext
  Event = {selection, key}
  Selection = selection
  Key = key
  Panel = {left}
  Context = {lua, native}
  Priority <- MCPriority
  MAX_ERRORS = 2
  MaxTokens = 3
  MaxPublish = 2
SPECIFICATION Spec
SYMMETRY Symm
CHECK_DEADLOCK FALSE
INVARIANTS
  TypeOK
  Ownership
  CalledInOrder
PROPERTIES
  EveryoneServed
  GoneForGood
