CONSTANTS
  passkey = passkey
  wedgie = wedgie
  spare = spare
  dao = dao
  usdc = usdc
  eth = eth
  NoOne = NoOne
  Key = {passkey, wedgie}
  Guardian = {}
  Asset = {usdc, eth}
  ETH = eth
  USDC = usdc
  FirstKey = passkey
  FirstGuardians = {}
  FirstRecoveryDelay = 0
  Batch <- OrphanBatch
  WINDOW = 2
  MIN_RECOVERY_DELAY = 1
  MAX_COLD_DELAY = 2
  MAX_RECOVERY_DELAY = 2
  SEVEN_DAYS = 2
  GAS_ALLOWANCE = 0
  Holding <- OneDollar
  MaxQueue = 2
  TransferAmount = {}
  Fee = {0}
  MaxTime = 4
  MaxNonce = 0
  MaxDepth = 1
  MaxBundle = 1
SPECIFICATION Spec
INVARIANT OrphansNeverRun
