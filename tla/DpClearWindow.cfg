SPECIFICATION Spec
CONSTANTS
  None = None
  r1 = r1  r2 = r2  r3 = r3  a = a  i1 = i1  i2 = i2
  Tenants = {a}
  Instances = {i1, i2}
  Runs <- MCRuns0
  TenantOf <- MCNoRun
  InstOf <- MCNoRun
  TotalEps = 2
  OpeningSpend = 1
  OpeningAnchor = 1
  Ttl = 2
  GlobalWindow = 2
  Windows = {0}
  Endpoints = {"set", "clear"}
  ReserveLimit = 1
  HoldLimit = 1
  MaxTime = 4
PROPERTIES
  RollNeedsFullWindow
CHECK_DEADLOCK FALSE
