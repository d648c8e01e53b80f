SPECIFICATION PartsSpec
CONSTANTS
  TreeDepth = 3
  RootHistorySize = 3
  MaxInsertBatch = 4
  Commitments = {c1, c2}
  EmptyLeaf = emptyLeaf
  Base = 4
  Limbs = 3
  Modulus = 17
  HalfF = 2
  Partial = 2
  C <- MCC
  M <- MCM
  P <- MCP
  S <- MCS
  RoundConstants <- MCRoundConstants
  Basis <- MCBasis
  Offset <- MCOffset
  Inputs = {0, 1, 3, 4, 15, 16, 17, 18, 20, 31, 33, 34, 47, 48, 51, 63}
  FieldModulus = 17
  Secrets = {1, 2, 18}
  ContractIds = {2, 3, 19}
  TokenAmounts = {0, 1}
  Expiries = {1, 2}
  SwapId = 2
  ScalarMod = 5
  FieldMod = 7
  Radix = 3
  Width = 2
  KeySet <- MCKeySet
  ProofSet <- MCProofSet
  BadBytes <- MCBadBytes
  InputLists <- MCInputLists
  Batches <- MCBatches
  Circuits = {nonMembership}
  NonMembership = nonMembership
  Keys = {k1, k2, badShape, offCurve}
  MalformedKeys = {badShape}
  UnusableKeys = {offCurve}
  Registrar = registrar
  Retention = 1
  MaxLedger = 5
  NoKey = noKey
  Publishers = {p1}
  Spenders = {1, 3}
  AddressOf <- MCAddressOf
  MaxAddress = 4
  Lists <- MCLists
  NoRoot = noRoot
  MaxEpoch = 2
  MaxNotes = 3
SYMMETRY KeySymmetry
INVARIANTS TypesOK RootIsReferenceRoot EveryPathVerifies HashersAgree CommitmentBinds ProofBindsUse AcceptsTheGenuine BatchIsWeighedSum KeyHonouredForRetention NoKeyOutlivesRetirement RecordsAttest ProvableIffUnlisted EveryEpochReceived ReportsTheGrantedEpoch
PROPERTIES ImplementsLog
CHECK_DEADLOCK FALSE
