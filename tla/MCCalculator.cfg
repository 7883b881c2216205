SPECIFICATION Spec
CONSTANTS
  Cells <- MCCells
  CellOrder <- MCCellOrder
  Texts <- MCTexts
  Ceiling <- MCCeiling
  Budgets <- MCBudgets
  Trees <- MCTrees
  RootSets <- MCRootSets
  Limits <- MCLimits
  Stored <- MCStored
  Sources <- MCSources
  Bindings <- MCBindings
  CalcPatches <- MCCalcPatches
  AuthorityPatches <- MCAuthorityPatches
  Mounts <- MCMounts
  MaxSource = 1
  MaxControl = 1
  MaxStamp = 2
  MaxCalls = 20
INVARIANTS FreshIsSound BlockedNeverReused
PROPERTY MatchesFullRecomputation
