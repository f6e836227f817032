SPECIFICATION Spec
CONSTANTS
  root = root  d1 = d1  d2 = d2
  f1 = f1  f2 = f2  f3 = f3
  Dirs <- MCDirs
  Files <- MCFiles
  Root = root
  Contents <- MCContents
  Commands = 2
  Settings <- MCSettings
INVARIANTS
  TypeOK
  RecordsAccounted
  CopiesBounded
  FinishedIsComplete
  NoFailureWithoutCause
PROPERTIES
  ReportBounded
  AllEnd
CHECK_DEADLOCK FALSE
