SPECIFICATION FairSpec
CONSTANTS
  Jobs <- EndlessJobs
  MaxCmds = 3
  MaxFd = 6
  MayFail = FALSE
INVARIANT AllInitiated
PROPERTIES
  JobEnds
  WriterStops
  ImplementsJob
