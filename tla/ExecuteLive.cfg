SPECIFICATION LiveSpec
CONSTANTS
  None = None  Other = Other
  r1 = r1  r2 = r2  r3 = r3  a = a  b = b
  Requests <- MCRequests
  Tenants <- MCTenants
  TenantOf <- MCTwoTenants
  MaxRuns = 1
  MaxFailed = 0
  Hazards = {"disconnect", "setup", "store"}
INVARIANTS
  PermitsBalance
PROPERTIES
  ClientsAnswered
  RunsRecorded
CHECK_DEADLOCK FALSE
