SPECIFICATION Spec
CONSTANTS
  Cells = {1, 2, 3, 4, 5}
  Policies <- OnlyPlain
  FirstPolicy <- AllPlain
  Groups <- All
  Times = {0}
  Forever = 0
  BypassCap = 255
  MaxSequence = 6
INVARIANTS BypassBounded
CHECK_DEADLOCK FALSE
