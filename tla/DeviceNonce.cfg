CONSTANTS
  MaxMade = 3
  Wallet = {w1}
  MaxCalls = 1
  TTL = 1
  None = None
  MaxFaults = 0
  ServerTime = {0, 2}
  BlockTime = {}
SPECIFICATION Spec
INVARIANT SeveralCanQueue
CHECK_DEADLOCK FALSE
