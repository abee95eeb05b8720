SPECIFICATION FairSpec
CONSTANTS
  Rounds = 20
  MayFail = TRUE
INVARIANTS
  Alternates
  Settled
PROPERTY Ends
CHECK_DEADLOCK FALSE
