SPECIFICATION MarketSpec
CONSTANTS
  MaxLeaves = 6
  RootHistorySize = 4
  MaxInsertBatch = 1
  Assets = {a, b}
  Owners = {alice}
  Rhos = {1, 2, 3, 4, 5, 6}
  MaxValue = 2
  maker = maker
  relayer = relayer
  swapc = swapc
  pool = pool
  none = none
  a = a
  b = b
  alice = alice
  i1 = i1
  i2 = i2
  Accounts <- MCAccounts
  Pool <- pool
  Endowment <- MCEndowment
  Deployer <- maker
  DefaultMinShield = 1
  MinShieldChoices = {1}
  MaxShieldBatch = 1
  TransferArities = {}
  None <- none
  SwapContract <- swapc
  SwapAdmin <- relayer
  Intents = {i1}
  Opening <- MCOpening
  Closed = closed
  ClaimWindow = 1
  MaxLedger = 3
INVARIANTS RecoveryExists
CHECK_DEADLOCK FALSE
