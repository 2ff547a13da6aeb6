SPECIFICATION FairSpec
CONSTANTS
  None = None
  Junk = Junk
  Refused = Refused
  Invalid = Invalid
  MaxGo = 2000000000
  I1 = I1
  I2 = I2
  R1 = R1
  FR = FR
  ENV = ENV
  Ips = {I1, I2}
  Ranges = {R1}
  Countries = {FR}
  Inside <- MCInside
  Calls = {1, 2}
  Inputs <- MCInputs
  Options <- MCOptions
  FirstAlerts <- MCAlerts
  FirstAllowed = {R1}
  MaxBan = 54005
  MaxAlerts = 4
  MaxChanges = 1
INVARIANTS ReportedIsDone RemovesOnlyNamed BansSpareAllowlist BansLastAsAsked ListIsHonest
PROPERTIES ServesAsAsked ServesAsTold CallsEnd
CHECK_DEADLOCK FALSE
