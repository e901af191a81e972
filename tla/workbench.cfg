\* Every selection of rows, stored relationships, lineage and up to two
\* declarations of any section.
SPECIFICATION Spec
CONSTANTS
  None = None
  Rows <- MCRows
  Links <- MCLinks
  Files <- MCFiles
  TerminalEntries <- MCTerminals
  MutationEntries <- MCSources
  EvidenceEntries <- MCSources
  Datasets <- MCDatasets
  MaxEntries = 2
INVARIANTS
  NothingIsDropped
  WarningsMatchEdges
  AliasFollowsImport
CHECK_DEADLOCK FALSE
