CONSTANTS
  passkey = passkey
  wedgie = wedgie
  spare = spare
  dao = dao
  usdc = usdc
  eth = eth
  NoOne = NoOne
  Key = {passkey, wedgie}
  Guardian = {}
  Asset = {usdc, eth}
  ETH = eth
  USDC = usdc
  FirstKey = passkey
  FirstGuardians = {}
  FirstRecoveryDelay = 0
  Batch <- ColdBatch
  WINDOW = 2
  MIN_RECOVERY_DELAY = 1
  MAX_COLD_DELAY = 2
  MAX_RECOVERY_DELAY = 2
  SEVEN_DAYS = 2
  GAS_ALLOWANCE = 1
  Holding <- ColdHolding
  MaxQueue = 1
  TransferAmount = {1}
  Fee = {1}
  MaxTime = 3
  MaxNonce = 0
  MaxDepth = 1
  MaxBundle = 2
SPECIFICATION Spec
INVARIANT TypeOK
PROPERTIES
  KeepsPromise
  SpenderKeepsToItsLimit
CHECK_DEADLOCK FALSE
