SPECIFICATION Spec
CONSTANTS
  Cells = {1, 2}
  Policies <- MixedPolicies
  FirstPolicy <- AllPlain
  Groups <- OneOrAll
  Times = {0, 1}
  Forever = 2
  BypassCap = 5
  MaxSequence = 5
INVARIANTS QueueWanted ContinuationCurrent TurnDetermined
CHECK_DEADLOCK FALSE
