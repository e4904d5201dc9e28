CONSTANTS
  Key = {k1, k2}
  Asset = {a1, a2}
  WINDOW = 2
  Limit = {0, 1}
  Amount = {1}
  MaxTime = 5
SYMMETRY Symmetry
SPECIFICATION Spec
INVARIANTS
  ArraysMatchMappings
  ListedIffLimited
  WindowWithinLimit
  DayWithinTwoLimits
