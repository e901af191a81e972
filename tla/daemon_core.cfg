SPECIFICATION FairSpec
CONSTANTS
  None = None
  a = a
  b = b
  c = c
  d = d
  ann = ann
  Address <- MCAddress
  Predicate <- MCPredicate
  Typed <- MCTyped
  User <- MCUser
  ChainDepth = 2
  MaxTime = 1
  MaxEdges = 5
  MaxRequests = 2
  MaxFaults = 1
  Request <- MixedRequests
  NewEdge <- NewEdges
  Instance <- Instances
  InitialStore <- MixedStores
  TemplateText <- MCTemplateText
  SpecVerdict <- MCSpecVerdict
  ToSpecUnit <- MCToSpecUnit
  Dataset <- MCDataset
INVARIANTS TypeOK NoDanglingWrite FaultLosesOneSnapshot
PROPERTIES ReachBounded NeverUnset HistoryAppendOnly RequestCompletes
CHECK_DEADLOCK FALSE
