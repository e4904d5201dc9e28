CONSTANTS
  alice = alice
  bob = bob
  Owner = {alice, bob}
  Threshold = 2
  MAX = 2
  DroppedMax = 1
  MaxTx = 3
  MaxCalls = 2
  MaxBegun = 7
  MaxFaults = 1
SPECIFICATION Spec
SYMMETRY Alike
INVARIANTS
  TypeOK
  KeptByItsSigner
  TakenIsKept
  RemovedStaysHidden
  NumberedAfterTheQueue
CHECK_DEADLOCK FALSE
