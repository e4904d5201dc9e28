CONSTANTS
  Email = {e1}
  Chat = {c1}
  Device = {d1}
  PUSH_MAX = 1
  Start = {{e1}}
  Recovery = {r1}
  Handler = {h1, h2}
  None = None
  MaxChanges = 2
  MaxFaults = 1
SPECIFICATION Spec
INVARIANT
  ContactsAreWatched
PROPERTIES
  NoneLeavesUntold
  EveryRecoveryIsHeard
CHECK_DEADLOCK FALSE
