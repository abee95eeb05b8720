SPECIFICATION Spec
CONSTANTS
  Files <- Seventeen
  Dirs <- Nested
  Entries <- OneEach
  Root <- TopDir
  Absent <- NoneAbsent
  Bytes = {0}
  Contents <- NoContent
  Limits = {20}
  DYNARR_INITSIZE = 16
  sizeof_ptr = 8
  MaxTouched = 0
INVARIANT AllNamesStored
CHECK_DEADLOCK FALSE
