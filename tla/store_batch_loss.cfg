SPECIFICATION Spec
CONSTANTS
  None = None
  a = a
  b = b
  c = c
  Thread = {t1, t2}
  Address <- MCAddress
  InitialRows <- MCRows
  InitialEdges <- MCEdges
  Call <- UpdateAndBatch
  MaxCalls = 2
  MaxCrashes = 0
INVARIANTS AcknowledgedStored
CHECK_DEADLOCK FALSE
