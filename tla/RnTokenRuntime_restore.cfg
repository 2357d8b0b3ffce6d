SPECIFICATION Spec
CONSTANTS
  Slots = {s1, s2}
  NoSlot = NoSlot
  NoToken = NoToken
  NoUser = NoUser
  Users = {u1, u2}
  MaxLogins = 2
  MaxGen = 1
  MaxAttempts = 3
  Scenarios = {{"getToken", "foreground", "connectivity", "earlyGetToken"}}
INVARIANT RestoredHasUser

CHECK_DEADLOCK FALSE
