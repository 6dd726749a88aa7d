CONSTANTS
  Docs = {d1}
  Requests = {r1}
  Attempts = 2
  Pieces <- MCPieces
  MaxJobs = 2
  MaxIds = 3
  MaxFaults = 1
  Texts <- MCTexts
  Asked <- MCOptions
  File <- MCFile
  Default <- MCDefault
  MinSize = 2
  MaxLength = 5
SPECIFICATION Spec
INVARIANT ReadyIsIndexed
INVARIANT ReadyHoldsText
INVARIANT OrphansOnlyByOverlap
INVARIANT SettledHasOutcome
CHECK_DEADLOCK FALSE
