SPECIFICATION Spec
CONSTANTS
  system_hz = 3
  leapsecond_reference <- Table
  Word = 2000001
  Half = 20
  Times <- SomeTimes
  MaxTicks = 13
INVARIANTS
  StimeTakes
  UtcCountsLeaps
PROPERTY NeverBackwards
CHECK_DEADLOCK FALSE
