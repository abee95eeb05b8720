SPECIFICATION FairSpec
CONSTANTS
  Files = {"f1", "f2", "f3", "f4"}
  Dirs = {"cwd", "a", "b"}
  Entries <- Tree
  Root = "cwd"
  Absent <- SomeAbsent
  Bytes = {0, 1}
  Contents <- SomeContents
  Limits = {2, 4, 15}
  DYNARR_INITSIZE = 3
  sizeof_ptr = 8
  MaxTouched = 1
INVARIANTS
  WalkComplete
  InsideArray
  OnlyDuplicates
  AllDuplicates
  LosesOnlyDifferent
PROPERTY Ends
CHECK_DEADLOCK FALSE
