\* Publications from callbacks: queueing, coalescing, draining, and delivery in the end.
CONSTANTS
  chdir = chdir
  selection = selection
  key = key
  left = left
  right = right
  lua = lua
  native = native
  NoPanel = NoPanel
  NoContext = NoContext
  Event = {chdir, selection, key}
  Selection = selection
  Key = key
  Panel = {left, right}
  Context = {lua}
  Priority <- MCOnePriority
  MAX_ERRORS = 1
  MaxTokens = 2
  MaxPublish = 5
SPECIFICATION FairSpec
CHECK_DEADLOCK FALSE
INVARIANTS
  NeverReentered
  NothingStuck
  QueueDiscipline
PROPERTIES
  ImplementsEventBus
  DeliversEverything
