SPECIFICATION Spec
CONSTANTS
  DYNARR_INITSIZE = 1
  sizeof_ptr = 2
  HeapLimit = 8
  MaxElems = 4
  Junk = 0
INVARIANTS
  BlockMatches
  NoDoubleFree
PROPERTY FailureKeeps
CHECK_DEADLOCK FALSE
