SPECIFICATION Spec
CONSTANTS
  None = None  Other = Other
  r1 = r1  r2 = r2  r3 = r3  a = a  b = b
  Requests <- MCRequests
  Tenants <- MCOneTenantSet
  TenantOf <- MCOneTenant
  MaxRuns = 2
  MaxFailed = 2
  Hazards = {"disconnect", "settle", "audit", "record", "other"}
SYMMETRY MCSymmetry
INVARIANTS
  AllAccounted
  WaitersHaveAnOwner
  OneRunPerTenant
PROPERTIES
  RefusedByOthersOnly
CHECK_DEADLOCK FALSE
