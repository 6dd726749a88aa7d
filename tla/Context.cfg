CONSTANTS
  Available = 40
  BasePriority = 3
  TopK = 2
  MemoryLimit = 2
  Count = 4
  Short = 2
  Long = 7
  Questions <- MCQuestions
SPECIFICATION PlanSpec
INVARIANT MustKeepIsKept
INVARIANT WithinBudget
INVARIANT NothingFitsAnymore
INVARIANT BestChunksFirst
INVARIANT OlderOnlyIfShorter
CHECK_DEADLOCK FALSE
