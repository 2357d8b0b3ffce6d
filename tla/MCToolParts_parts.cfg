SPECIFICATION ToolsSpec
CONSTANTS
  MaxRequests = 3
  NotShown = NotShown
  Scenarios <- MCScenarios
  Documents <- MCDocuments
  Cooldown = 1
  MaxNow = 2
  Polls <- MCPolls
  MaxInterval = 4
  MaxTransient = 2
  MaxIterations = 4
  MaxClock = 14
  Commands = {c1, c2}
  Kinds = {"login", "tenant-admin", "device", "custom", "ci", "call", "logout"}
  MaxRuns = 3
  NoKey = NoKey
  NoSession = NoSession
  Calls = {n1, n2}
  MaxSpent = 3
  MaxKeys = 3
INVARIANT ToolsTypeOK UnknownKeysAreThrottled ProofsAreAcceptedOnce FailedCiLeavesNothing ConfirmedIsTrusted SpentOnce RotationIsWhole
PROPERTY RevocationIsFollowed NeverFasterThanAsked PollingEnds WaitingLoginEnds
CHECK_DEADLOCK FALSE
