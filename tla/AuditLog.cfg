SPECIFICATION Spec
CONSTANTS
  None = None  Genesis = Genesis
  w1 = w1  w2 = w2  w3 = w3  p1 = p1  p2 = p2  q1 = q1
  Threads <- MCThreads
  Processes <- MCProcesses
  ProcessOf <- MCProcessOf
  Digest <- MCDigest
  Readers = {q1}
  MaxAppends <- MCMaxAppends
  Faults = {"crash", "power", "write", "sync"}
INVARIANTS
  ChainIntact
  AckedSurvive
PROPERTIES
  ImplementsTrail
CHECK_DEADLOCK FALSE
