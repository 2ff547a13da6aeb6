\* Two requests from different sockets with the same header.
SPECIFICATION Spec
CONSTANTS
  proxy = proxy
  friend = friend
  visitor = visitor
  Throws = Throws
  Nothing = Nothing
  Addresses = {proxy, friend, visitor}
  Trusted = {proxy}
  Allowed = {friend}
  Located = {visitor}
  MaxMindPaths = {"ASN"}
  ScenarioList <- MCScenarioList
  AlertOnNotTrustedIps = TRUE
  Requests <- MCRequests
  MaxStarts = 1
  MaxCalls = 3
INVARIANT ReqIpIsVisitor
CHECK_DEADLOCK FALSE
