CONSTANTS
  Signed = {pay, swap}
  Swaps = {swap}
  Usdc = {usdc}
  Eth = {eth1, eth2}
  MaxCalls = 2
  SwapReverts = 2
  None = None
  MaxAsked = 3
  MaxSent = 3
  MaxPasses = 1
  MaxFaults = 2
SPECIFICATION Spec
INVARIANTS
  OneAtATime
  NonceOnce
  NoGap
PROPERTIES
  NoReplay
  LockComesFree
CHECK_DEADLOCK FALSE
