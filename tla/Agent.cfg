CONSTANTS
  Runs = {r1, r2}
  MaxSteps = 3
  None = None
  Tools = {t1}
  Checks = {c1}
  Builtin = Builtin
SPECIFICATION ToolsSpec
INVARIANT PhasesInOrder
INVARIANT StreamHasSubscriber
INVARIANT ContextSet
INVARIANT ToolsAsTold
PROPERTY StopStops
PROPERTY IsAnswerSource
CHECK_DEADLOCK FALSE
