SPECIFICATION RestartSpec
CONSTANTS
  Cells <- MCCells
  CellOrder <- MCCellOrder
  Texts <- MCTexts
  Ceiling = {}
  Budgets <- MCBudgets
  Trees <- MCTrees
  RootSets <- MCRootSets
  Limits <- MCLimits
  Stored <- MCStored
  Sources <- MCSources
  Bindings <- MCBindings
  CalcPatches <- MCCalcPatches
  AuthorityPatches = {}
  Mounts <- MCMounts
  MaxSource = 0
  MaxControl = 2
  MaxStamp = 2
  MaxCalls = 20
  MaxReopens = 1
INVARIANT FreshIsCurrent
