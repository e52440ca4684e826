\* Sources attached, replaced, rebuilt, failed and dropped in every order.
CONSTANTS
  Mode = {"dialog", "quick"}
  Policy <- AllPolicies
  Kind = {"process", "bytes", "file"}
  Size = {1, 2}
  MaxSpecs = 3
  MaxGenerations = 3
  MaxControllers = 2
  MaxModals = 2
SPECIFICATION Spec
CHECK_DEADLOCK FALSE
INVARIANTS
  TypeOK
  EventOrder
  TempsOwned
  Settled
  ReopenableUnlessViewport
  NothingLeftBehind
