SPECIFICATION WebSpec
CONSTANTS
  Deadline = 2
  Window = 3
  Trip = 1
  Statuses = {200, 401, 403, 429, 500, 503, 522, 524}
  OAuthErrors = {"none", "invalid_grant", "server_error"}
  MaxTime = 6
  MaxRotations = 2
  MaxTries = 2
  MaxCodes = 2
  MaxPages = 4
  Browsers <- MCBrowsers
  MaxWrong = 3
INVARIANT WebTypeOK NoReuse KeptTokenIsCurrent CodesAreExchangedOnce CompleteHasSession
PROPERTY RefreshSettles ScreensSettle
CHECK_DEADLOCK FALSE
