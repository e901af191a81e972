SPECIFICATION Spec
CONSTANTS
  None = None
  A = A
  sOld = sOld
  sNew = sNew
  T = T
  I = I
  P = P
  Q = Q
  w1 = w1
  w2 = w2
  Slugs = {A, sOld, sNew}
  Instances = {T, I}
  Template = T
  SectionOf <- OneSection
  RankOf <- Ranks
  Stride = 4
  OrderGap = 2
  Owners <- Sources
  Workers <- Everyone
  Links <- Edit
  Creates <- CreatedHere
  Imports <- AllImports
  MaxCalls = 3
INVARIANTS
  TypeOK
  MaterialisedWhole
PROPERTIES
  SuccessMeansStored
  ImportHeals
  LineageKept
  SectionOrderKept
SYMMETRY Threads
CHECK_DEADLOCK FALSE
