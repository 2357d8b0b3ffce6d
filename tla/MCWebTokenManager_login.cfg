SPECIFICATION Spec
CONSTANTS
  Tabs = {t1, t2}
  Slots = {r1}
  NoSlot = NoSlot
  Shared = TRUE
  Async = FALSE
  MaxLogins = 2
  MaxGen = 1
  OtherUser = {2}
  Events = {"signIn"}
INVARIANT LockIsHeldInside NoReuse StoredIsCurrent
PROPERTY UsersNeverMix
CHECK_DEADLOCK FALSE
SYMMETRY TabSymmetry
