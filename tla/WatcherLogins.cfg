\* Logins that overlap with each other and with renewals, with failures.
SPECIFICATION FairSpec
CONSTANTS
  t1 = t1
  t2 = t2
  t3 = t3
  Timer = {t1, t2, t3}
  NoTimer = NoTimer
  AutoRenew = TRUE
  Heartbeat = TRUE
  Life = 3
  RenewBefore = 1
  MaxLogins = 3
  MaxStops = 1
  MaxFailures = 2
INVARIANTS TokenFresh OneRenewal
PROPERTY HeartbeatsKeepComing
