\* Stream, watchdog and live checks, with start() and stop() at any time.
SPECIFICATION Spec
CONSTANTS
  i1 = i1
  i2 = i2
  range = range
  country = country
  Ips <- MCIps
  Values <- MCValues
  Types = {"ban", "bypass"}
  BlockingTypes = {"ban"}
  MaskOf <- MCMaskOf
  Covered <- MCCovered
  MinMask = 24
  LiveEnabled = TRUE
  FailOpen = TRUE
  Watchdog = TRUE
  MaxConcurrentChecks = 2
  CheckId = {1, 2}
  MaxStarts = 2
  MaxStops = 1
  MaxTime = 1
INVARIANTS IndexSound SlotsMatchChecks OneCheckPerIp NothingRunsAfterStop
