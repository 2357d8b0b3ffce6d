SPECIFICATION Spec
CONSTANTS
  Procs = {p1, p2, p3}
  MaxLogins = 2
  Faults = {"crash", "writeFails", "keyFails", "login"}
INVARIANT NoReuse UnmarkedIsCurrent
PROPERTY NeverBack
CHECK_DEADLOCK FALSE
