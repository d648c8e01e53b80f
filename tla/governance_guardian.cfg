SPECIFICATION WatchSpec
CONSTANTS
  Circuits = {transfer}
  Keys = {good, bad}
  MalformedKeys = {}
  UnusableKeys = {}
  NoKey = noKey
  Retention = 1
  TimelockDelay = 3
  MaxLedger = 6
  Assets = {a1}
  chief = chief
  guard = guard
  governance = governance
  none = none
  Accounts <- MCAccounts
  Registrar <- governance
  Governance <- governance
  FirstAdmin <- chief
  Guardian <- guard
  None <- none
  TokenSlot = tokenSlot
  DefaultMinShield = 1
  MinShieldChoices = {0, 1}
  WatchPeriod = 2
  BadKeys = {bad}
  BadAssets = {a1}
INVARIANTS IncidentLevers GuardianPrevails CaughtInTime
PROPERTIES TimelockSpec
