SPECIFICATION FairSpec
CONSTANTS
  Procs = {p1, p2, p3}
  NoFile = NoFile
  Empty = Empty
  MaxCrashes = 1
PROPERTY EveryoneGetsThrough
CHECK_DEADLOCK FALSE
