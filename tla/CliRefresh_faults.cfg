SPECIFICATION FairSpec
CONSTANTS
  Procs = {p1, p2}
  MaxLogins = 2
  Faults = {"crash", "writeFails", "torn", "readFails", "keyFails", "lostAnswer", "login", "logout"}

PROPERTY EveryRefreshEnds
CHECK_DEADLOCK FALSE
