SPECIFICATION IwishSpec
CONSTANTS
  MaxJobs = 3
  HeapLimit = 2
  MayFail = TRUE
  MaxLen = 6
  type_size = 2
  DBA_INITSIZE = 1
  HeapBytes = 8
  Bytes = {0, 1}
  Junk = Junk
INVARIANTS
  ForegroundWaits
  LineFreed
  AcceptsLanguage
  Faithful
  FullyFreed
  BlockMatches
  ContentsKept
PROPERTY PromptReturns
