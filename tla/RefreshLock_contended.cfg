SPECIFICATION Spec
CONSTANTS
  Procs = {p1, p2, p3}
  NoFile = NoFile
  Empty = Empty
  MaxCrashes = 1
INVARIANT MutualExclusion
CHECK_DEADLOCK FALSE
