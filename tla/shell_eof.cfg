SPECIFICATION FairSpec
CONSTANTS
  MaxJobs = 1
  HeapLimit = 2
  MayFail = FALSE
PROPERTY ReadInputReturns
