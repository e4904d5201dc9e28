CONSTANTS
  tap = tap
  retry = retry
  other = other
  mine = mine
  theirs = theirs
  None = None
  Request = {tap, retry, other}
  Hold = {mine, theirs}
  HoldOf <- Claims
  Card = {mine}
  Cap = 1
  Admin = {}
  Minutes = {1}
  Faults = {"crash"}
  MaxPot = 2
  MaxTime = 0
SPECIFICATION Spec
SYMMETRY Alike
INVARIANTS
  HolderIsUnique
  CountIsPlaces
  PaidAtMostOnce
  WithinCap
  BooksBalance
CHECK_DEADLOCK FALSE
