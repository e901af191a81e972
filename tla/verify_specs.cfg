\* Specs of every shape, readings in several units of one quantity.
SPECIFICATION Spec
CONSTANTS
  None = None
  NoUnit = "none"
  Digits = 3
  Significant = 3
  Scale <- MCScale
  Specs <- MCSpecs
  Results <- MCResults
INVARIANTS
  VerdictSurvivesStorage
  VerdictIsUnitFree
  UnitMayBeGivenOnce
