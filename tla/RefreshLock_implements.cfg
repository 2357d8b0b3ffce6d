SPECIFICATION Spec
CONSTANTS
  Procs = {p1, p2, p3, p4}
  NoFile = NoFile
  Empty = Empty
  MaxCrashes = 1
PROPERTY ImplementsMutex
CHECK_DEADLOCK FALSE
