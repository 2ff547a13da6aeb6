\* A ban is renewed while it is in force.
SPECIFICATION BouncerSpec
CONSTANTS
  i1 = i1
  i2 = i2
  address = address
  range = range
  country = country
  Ips <- MCIps
  Values = {address, range, country}
  Types = {"ban"}
  BlockingTypes = {"ban"}
  MaskOf <- MCMaskOf
  Covered <- MCCovered
  MinMask = 24
  LiveEnabled = FALSE
  FailOpen = TRUE
  Watchdog = TRUE
  MaxConcurrentChecks = 1
  CheckId = {1}
  MaxStarts = 1
  MaxStops = 0
  MaxTime = 2
  Rebans = "renewal"
  DrainedBeforePoll = TRUE
  MaxBans = 2
INVARIANT BansEnforced
