\* Live mode: answers that are late cross the stream, and bring back bans whose
\* value is banned anew.
SPECIFICATION BouncerLiveSpec
CONSTANTS
  i1 = i1
  i2 = i2
  address = address
  range = range
  country = country
  Ips <- MCIps
  Values = {range}
  Types = {"ban"}
  BlockingTypes = {"ban"}
  MaskOf <- MCMaskOf
  Covered <- MCCovered
  MinMask = 24
  LiveEnabled = TRUE
  FailOpen = TRUE
  Watchdog = TRUE
  MaxConcurrentChecks = 2
  CheckId = {1, 2}
  MaxStarts = 1
  MaxStops = 0
  MaxTime = 2
  Rebans = "withdrawn"
  DrainedBeforePoll = TRUE
  MaxBans = 2
INVARIANT HiddenByLateAnswersOnly
PROPERTIES BannedVisitorStopped StaleBanGoes
