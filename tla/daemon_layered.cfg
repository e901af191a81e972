SPECIFICATION Spec
CONSTANTS
  None = None
  a = a
  b = b
  c = c
  d = d
  ann = ann
  Address <- MCAddress
  Predicate <- MCPredicate
  Typed <- MCTyped
  User <- MCUser
  ChainDepth = 2
  MaxTime = 1
  MaxEdges = 5
  MaxRequests = 3
  MaxFaults = 0
  Request <- LayeredRequests
  NewEdge <- NoEdges
  Instance <- NoInstances
  InitialStore <- LayeredStores
  TemplateText <- MCTemplateText
  SpecVerdict <- MCSpecVerdict
  ToSpecUnit <- MCToSpecUnit
  Dataset <- MCDataset
INVARIANT SettledAtRest
CHECK_DEADLOCK FALSE
