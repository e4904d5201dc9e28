CONSTANTS
  tap = tap
  retry = retry
  other = other
  mine = mine
  theirs = theirs
  None = None
  Request = {tap}
  Hold = {mine, theirs}
  HoldOf <- Claims
  Card = {mine}
  Cap = 1
  Admin = {"giver", "helper"}
  Minutes = {1}
  Faults = {"lost answer"}
  MaxPot = 1
  MaxTime = 2
SPECIFICATION FairSpec
PROPERTIES
  PendingSettles
  EndedPaysNoOne
CHECK_DEADLOCK FALSE
