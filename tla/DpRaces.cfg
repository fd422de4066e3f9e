SPECIFICATION Spec
CONSTANTS
  None = None
  r1 = r1  r2 = r2  r3 = r3  a = a  i1 = i1  i2 = i2
  Tenants = {a}
  Instances = {i1, i2}
  Runs <- MCRuns2
  TenantOf <- MCTenantOf2
  InstOf <- MCInstOf2
  TotalEps = 2
  OpeningSpend = 1
  OpeningAnchor = 0
  Ttl = 2
  GlobalWindow = 1
  Windows = {0, 2}
  Endpoints = {"view", "set", "clear", "reset"}
  ReserveLimit = 1
  HoldLimit = 1
  MaxTime = 4
INVARIANTS
  EnvelopeRespected
PROPERTIES
  ImplementsEnvelope
CHECK_DEADLOCK FALSE
