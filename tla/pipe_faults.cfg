SPECIFICATION Spec
CONSTANTS
  Jobs <- ShortJobs
  MaxCmds = 3
  MaxFd = 6
  MayFail = TRUE
INVARIANTS
  Wiring
  NoForeignEnds
  NoOrphan
