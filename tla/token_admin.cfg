SPECIFICATION Spec
CONSTANTS
  MaxLeaves = 4
  RootHistorySize = 2
  MaxInsertBatch = 2
  Assets = {a1}
  Owners = {alice}
  Rhos = {r1, r2}
  MaxValue = 1
  user = user
  operator = operator
  pool = pool
  none = none
  Accounts <- MCAccounts
  Pool <- pool
  Endowment <- MCEndowment
  Deployer <- operator
  DefaultMinShield = 2
  MinShieldChoices = {0, 1, 2}
  MaxShieldBatch = 2
  TransferArities = {2}
  None <- none
SYMMETRY RhoSymmetry
PROPERTIES SwitchesHold
