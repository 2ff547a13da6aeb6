\* Stream mode: bans, unbans, expiries and new bans on the same value.
SPECIFICATION BouncerStreamSpec
CONSTANTS
  i1 = i1
  i2 = i2
  address = address
  range = range
  country = country
  Ips <- MCIps
  Values = {address, range, country}
  Types = {"ban"}
  BlockingTypes = {"ban"}
  MaskOf <- MCMaskOf
  Covered <- MCCovered
  MinMask = 24
  LiveEnabled = FALSE
  FailOpen = TRUE
  Watchdog = TRUE
  MaxConcurrentChecks = 1
  CheckId = {1}
  MaxStarts = 1
  MaxStops = 0
  MaxTime = 2
  Rebans = "withdrawn"
  DrainedBeforePoll = TRUE
  MaxBans = 3
INVARIANTS BansEnforced NoStaleBan
PROPERTY BanReachesIndex
