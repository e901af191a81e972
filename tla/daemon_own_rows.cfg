SPECIFICATION Spec
CONSTANTS
  None = None
  a = a
  b = b
  c = c
  d = d
  ann = ann
  Address <- MCAddress
  Predicate <- MCPredicate
  Typed <- MCTyped
  User <- MCUser
  ChainDepth = 1
  MaxTime = 1
  MaxEdges = 5
  MaxRequests = 2
  MaxFaults = 0
  Request <- MixedRequests
  NewEdge <- NoEdges
  Instance <- NoInstances
  InitialStore <- MixedStores
  TemplateText <- MCTemplateText
  SpecVerdict <- MCSpecVerdict
  ToSpecUnit <- MCToSpecUnit
  Dataset <- MCDataset
PROPERTY DaemonSkipsOwnRows
CHECK_DEADLOCK FALSE
