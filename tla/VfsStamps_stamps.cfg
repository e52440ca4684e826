\* An archive in an archive in an archive, with a compressed file in the outermost.
CONSTANTS
  Extfs = {"p", "n", "m"}
  Sfs = {"s"}
  Parent <- MCParent
  Local = "local"
  Gone = "gone"
  Panel <- MCPanel
  Old = 2
  MaxKept = 2
SPECIFICATION Spec
CHECK_DEADLOCK FALSE
INVARIANTS
  TypeOK
  StampsRefer
  Backed
  UsageCounts
PROPERTIES
  StampKept
