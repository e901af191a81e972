SPECIFICATION FairSpec
CONSTANTS
  None = None
  a = a
  b = b
  c = c
  Thread = {t1, t2}
  Address <- MCAddress
  InitialRows <- MCRows
  InitialEdges <- MCEdges
  Call <- AllCalls
  MaxCalls = 3
  MaxCrashes = 1
INVARIANTS TypeOK OwnTransaction
PROPERTIES BatchAllOrNothing EdgesReplacedWhole TransactionEnds EveryCallAnswered
CHECK_DEADLOCK FALSE
