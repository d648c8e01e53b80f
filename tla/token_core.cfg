SPECIFICATION PoolSpec
CONSTANTS
  MaxLeaves = 4
  RootHistorySize = 2
  MaxInsertBatch = 2
  Assets = {a1}
  Owners = {alice, bob}
  Rhos = {r1, r2}
  MaxValue = 2
  user = user
  operator = operator
  pool = pool
  none = none
  Accounts <- MCAccounts
  Pool <- pool
  Endowment <- MCEndowment
  Deployer <- operator
  DefaultMinShield = 1
  MinShieldChoices = {1}
  MaxShieldBatch = 2
  TransferArities = {2}
  None <- none
SYMMETRY NoteSymmetry
INVARIANTS TypeOK Solvency NoValueLost CustodyCoversSupply SeenMatchesTree OwnerCanExit
PROPERTIES OnlyClawbackDilutes AnchorsAgeSlowly IdealSpec
CHECK_DEADLOCK FALSE
