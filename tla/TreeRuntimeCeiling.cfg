SPECIFICATION Spec
CONSTANTS
  a = a
  small = small
  large = large
  Generate = Generate
  Names = {a}
  Sources = {small, large}
  Oversized = {large}
  Backends = {"memory", "read-only"}
  MaxNodes = 2
  MaxCells = 2
  MaxDirs = 3
  MaxRevision = 3
INVARIANTS NodesWithinCeiling
CHECK_DEADLOCK FALSE
