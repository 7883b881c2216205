SPECIFICATION Spec
CONSTANTS
  w1 = w1
  w2 = w2
  total = total
  Writers = {w1, w2}
  PlainNames = {total}
  ExplicitNames <- MCExplicitNames
  Patches = {NoPatch}
  NoPatch = NoPatch
  None = None
  MaxCells = 1
  MaxDirs = 2
  MaxCounter = 1
  MaxRevision = 4
  MaxEpoch = 2
  MaxReservations = 1
SYMMETRY WriterSymmetry
INVARIANTS LaneExclusive IndexMatchesRecords ReservationsStayFree NoParentCycle
PROPERTIES NoRecordLosesParent IdentityStable
CHECK_DEADLOCK FALSE
