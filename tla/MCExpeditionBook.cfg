SPECIFICATION Spec
CONSTANTS
  Editors = {e1, e2}
  Ids = {"", "a"}
  Refs = {r1}
  Objections = {o1}
  Plays = {"", "p"}
  Blank = ""
  None = None
  Archives = {"x"}
  MaxRevision = 4
INVARIANTS RevisionIdentifiesBook RootAndChoiceKept ReplayGivesBack
PROPERTIES SealedUntouched
CHECK_DEADLOCK FALSE
