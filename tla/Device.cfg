CONSTANTS
  MaxMade = 2
  Wallet = {w1}
  MaxCalls = 2
  TTL = 1
  None = None
  MaxFaults = 1
  ServerTime = {0, 2}
  BlockTime = {2}
SPECIFICATION FairSpec
INVARIANTS
  ConfirmedRan
PROPERTIES
  OverStaysOver
  ShownOnce
  EveryRequestEnds
  ImplementsLedger
CHECK_DEADLOCK FALSE
