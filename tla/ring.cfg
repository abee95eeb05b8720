SPECIFICATION BufferedFairSpec
CONSTANTS
  N = 4
  STOPNUMBER = 5
  PipeCap = 1
  Garbage <- GarbageValues
  MayFail = TRUE
INVARIANTS
  NoBrokenPipe
  NoEndOfFile
  OneToken
  RecursiveCleanup
  GroupedInFile
PROPERTIES
  PrintsInOrder
  Terminates
  CountsUp
