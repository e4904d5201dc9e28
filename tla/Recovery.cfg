CONSTANTS
  passkey = passkey
  wedgie = wedgie
  spare = spare
  dao = dao
  usdc = usdc
  eth = eth
  NoOne = NoOne
  Key = {passkey, wedgie, spare}
  Guardian = {dao}
  Asset = {usdc, eth}
  ETH = eth
  USDC = usdc
  FirstKey = passkey
  FirstGuardians = {dao}
  FirstRecoveryDelay = 1
  Batch <- RecoveryBatch
  WINDOW = 2
  MIN_RECOVERY_DELAY = 1
  MAX_COLD_DELAY = 2
  MAX_RECOVERY_DELAY = 2
  SEVEN_DAYS = 2
  GAS_ALLOWANCE = 0
  Holding <- OneDollar
  MaxQueue = 1
  TransferAmount = {}
  Fee = {0}
  MaxTime = 4
  MaxNonce = 0
  MaxDepth = 1
  MaxBundle = 1
SPECIFICATION Spec
INVARIANTS
  OwnersCounted
  StrangersHaveNoLimit
  PendingRecoveryIsLive
PROPERTIES
  KeepsPromise
