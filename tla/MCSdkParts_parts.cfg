SPECIFICATION SdkSpec
CONSTANTS
  Slots = {s1, s2}
  NoSlot = NoSlot
  NoToken = NoToken
  NoUser = NoUser
  Users = {u1, u2}
  MaxLogins = 2
  MaxGen = 1
  MaxAttempts = 3
  Scenarios = {{},
               {"getToken", "foreground", "connectivity", "submit", "unmount"},
               {"getToken", "foreground", "connectivity", "submit", "earlyGetToken", "badNonce"},
               {"getToken", "foreground", "connectivity", "submit", "earlyGetToken", "unmount", "readFails", "dpop", "badNonce"},
               {"getToken", "foreground", "submit", "biometric"},
               {"getToken", "foreground", "submit", "signOut"},
               {"getToken", "foreground", "submit", "switch"},
               {"foreground", "submit", "writeFails"},
               {"getToken", "foreground", "submit", "undecodable"}}
  Hooks = {h1, h2}
  MaxCalls = 2
  Platforms <- MCPlatforms
  MaxFlows = 2
  MaxNonces = 2
  MaxTime = 2
  NonceTtl = 1
  MaxPending = 1
  Apps <- MCApps
INVARIANT SdkTypeOK NoReuse UsuallyHasUser StoredIsCurrent SheetIsOwn ExchangeIsOwn AcceptedOnce
PROPERTY NoSheetForNobody SignInIsLive RefreshingEnds CallsEnd
CHECK_DEADLOCK FALSE
