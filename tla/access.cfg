SPECIFICATION Spec
CONSTANTS
  c1 = c1
  c2 = c2
  c3 = c3
  Clients = {c1, c2}
  People = {admin, other, third}
  None = None
  Env = None
  TwoStep = {admin, other}
  MaxStrays = 3
  MaxFaults = 1
  MaxDeaths = 1
  MaxEnds = 1
  MaxLinks = 2
  MaxCookies = 3
  MaxRevokes = 2
  MaxCrashes = 1
  Calls = {c1, c2, c3}
  MaxSessions = 2
  MaxCalls = 5
  MaxLost = 1
  Keys = {k1, k2, k3}
  Clouds = {cloud1}
  MaxKeys = 2
  Limits = {1, 2, Unlimited}
  Unlimited = Unlimited
  MaxShares = 1
  MaxDownloads = 5
INVARIANTS OnlyTheAdmin LinksAndCookiesEnd SignOutHolds LimitsBounded
PROPERTIES FlowLogsInItsOwn LoginSucceeds EndedStaysEnded DeadKeysForgotten
CHECK_DEADLOCK FALSE
