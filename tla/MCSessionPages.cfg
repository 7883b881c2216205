SPECIFICATION Spec
CONSTANTS
  Layouts <- MCLayouts
  OpenCells <- MCOpenCells
  MaxPage = 2
  MaxDepth = 2
  MaxRevision = 4
  MaxToken = 9
  RenderBudgets <- MCRenderBudgets
  SubtreeCaps <- MCSubtreeCaps
  LongNames <- MCLongNames
  CellDetails <- MCCellDetails
INVARIANTS SnapshotBounded TokensResume OmissionsMarked OfferedControlsRun
PROPERTIES RenderedIsReachable
CHECK_DEADLOCK FALSE
