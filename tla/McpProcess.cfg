\* The three configurations; signals, failing logins and clients that leave.
SPECIFICATION FairSpec
CONSTANTS
  Req = {r1, r2}
  Shared = Shared
  Modes = {"stdio", "shared", "passthrough"}
  ServiceToken = TRUE
INVARIANTS GracefulExit ContextsFollowResponses
PROPERTIES RequestsEnd ShutdownEnds
CHECK_DEADLOCK FALSE
