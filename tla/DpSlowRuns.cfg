SPECIFICATION LiveSpec
CONSTANTS
  None = None
  r1 = r1  r2 = r2  r3 = r3  a = a  i1 = i1  i2 = i2
  Tenants = {a}
  Instances = {i1, i2}
  Runs <- MCRuns3
  TenantOf <- MCTenantOf3
  InstOf <- MCInstOf3
  TotalEps = 2
  OpeningSpend = 0
  OpeningAnchor = 0
  Ttl = 2
  GlobalWindow = 0
  Windows = {}
  Endpoints = {}
  ReserveLimit = 1
  HoldLimit = 4
  MaxTime = 6
INVARIANTS
  LedgerBalances
PROPERTIES
  HolderKeepsReservation
  RefusedIsServed
CHECK_DEADLOCK FALSE
