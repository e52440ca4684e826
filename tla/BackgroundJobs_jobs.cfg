\* Two jobs that ask, die, are stopped and killed, and mc that quits.
CONSTANTS
  Job = {j1, j2}
  NoJob = none
  MaxCalls = 1
SPECIFICATION Spec
CHECK_DEADLOCK FALSE
INVARIANTS
  TypeOK
  AnswersMatch
  NotForgotten
PROPERTIES
  EveryJobEnds
