SPECIFICATION FairSpec
CONSTANTS
  Tabs = {t1}
  Slots = {r1, r2}
  NoSlot = NoSlot
  Shared = FALSE
  Async = TRUE
  MaxLogins = 1
  MaxGen = 1
  OtherUser = {}
  Events = {"signOut", "switch", "reload"}
PROPERTY RestoreLoads
CHECK_DEADLOCK FALSE
