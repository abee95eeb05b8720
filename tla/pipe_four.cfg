SPECIFICATION Spec
CONSTANTS
  Jobs <- LongJobs
  MaxCmds = 4
  MaxFd = 6
  MayFail = FALSE
INVARIANT AllInitiated
