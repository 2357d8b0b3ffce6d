SPECIFICATION Spec
CONSTANTS
  Tabs = {t1}
  Slots = {r1, r2}
  NoSlot = NoSlot
  Shared = FALSE
  Async = FALSE
  MaxLogins = 1
  MaxGen = 1
  OtherUser = {}
  Events = {"signOut"}
PROPERTY OnlySignInStores
CHECK_DEADLOCK FALSE
