\* Two calls of start(), with failures, and requests at any time.
SPECIFICATION FairSpec
CONSTANTS
  proxy = proxy
  friend = friend
  visitor = visitor
  Throws = Throws
  Nothing = Nothing
  Addresses = {proxy, friend, visitor}
  Trusted = {proxy}
  Allowed = {friend}
  Located = {visitor}
  MaxMindPaths = {"city"}
  ScenarioList <- MCScenarioList
  AlertOnNotTrustedIps = TRUE
  Requests <- MCRequests
  MaxStarts = 2
  MaxCalls = 3
INVARIANTS StartedIsReady AddressIsVisitor AlertsSpareFriends ReportedOnce
PROPERTIES ThrowsOnlyUnready StartSettles
CHECK_DEADLOCK FALSE
