SPECIFICATION LiveSpec
CONSTANTS
  None = None  a = a  b = b
  Tenants <- MCTenants
  Packs = {p}
  Ttls = {0}
  Windows = {5}
  GlobalTtl = 1
  HistoryMax <- MCHistoryMax
  MaxChanges <- MCMaxChanges
  Changed <- MCChanged
  Listed <- MCListed
  PageSize = 1
  StampLag = 1
  MaxTime = 2
INVARIANTS
  OverrideTrails
PROPERTIES
  CursorWalkComplete
  ShownRowsStay
  ImplementsTrails
  ExpiredAreSwept
