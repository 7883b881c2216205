SPECIFICATION FairStoresSpec
CONSTANTS
  CellIds = {c1}
  Keys = {k1}
  Entries = {e1, e2}
  Values = {v1, v2}
  None = None
  Paths <- MCPaths
  Epochs = {1, 2}
INVARIANTS ReopenNeverRefused EpochsAgree
PROPERTIES CommitsAreAtomic CommitsFinish
