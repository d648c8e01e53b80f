SPECIFICATION BatchSpec
CONSTANTS
  MaxLeaves = 8
  RootHistorySize = 3
  MaxInsertBatch = 4
  Assets = {a1, a2}
  Owners = {alice, bob}
  Rhos = {1, 2, 3, 4, 5, 6, 7, 8}
  MaxValue = 1
  user = user
  operator = operator
  pool = pool
  none = none
  Accounts <- MCAccounts
  Pool <- pool
  Endowment <- MCEndowment
  Deployer <- operator
  DefaultMinShield = 1
  MinShieldChoices = {1}
  MaxShieldBatch = 4
  TransferArities = {2, 4}
  None <- none
SYMMETRY HolderSymmetry
INVARIANTS NoValueLost
PROPERTIES IdealSpec
CHECK_DEADLOCK FALSE
