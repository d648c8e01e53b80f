------------------------------ MODULE TokenSettings ------------------------------
(***************************************************************************)
(* The governance-settable part of contracts/token/src/lib.rs: parameters, *)
(* pause switch and the two-step admin handover. Every setter starts with  *)
(* require_admin: its caller is the current admin.                         *)
(***************************************************************************)
EXTENDS Integers

CONSTANTS
  Assets,            \* SEP-41 token contracts
  Accounts,          \* addresses
  Deployer,          \* the admin given to initialize
  DefaultMinShield,  \* DEFAULT_MIN_SHIELD_AMOUNT
  MinShieldChoices,  \* the amounts set_min_shield_amount is called with
  None               \* Option::None

ASSUME SettingsAssumption ==
  /\ Deployer \in Accounts
  /\ None \notin Accounts
  /\ DefaultMinShield \in Nat \ {0}
  /\ MinShieldChoices \subseteq Nat

VARIABLES
  minShield,    \* MinShieldAmount
  approved,     \* the assets with AssetApproved
  relayers,     \* the addresses with ApprovedRelayer
  paused,       \* Paused
  admin,        \* Admin
  pendingAdmin  \* PendingAdmin

settings == <<minShield, approved, relayers, paused, admin, pendingAdmin>>

\* initialize: no asset is approved yet and no relayer is known
SettingsInit ==
  /\ minShield = DefaultMinShield
  /\ approved = {}
  /\ relayers = {}
  /\ paused = FALSE
  /\ admin = Deployer
  /\ pendingAdmin = None

SettingsTypeOK ==
  /\ minShield \in Nat \ {0}
  /\ approved \subseteq Assets
  /\ relayers \subseteq Accounts
  /\ paused \in BOOLEAN
  /\ admin \in Accounts
  /\ pendingAdmin \in Accounts \cup {None}

SetMinShieldAmount(caller, amount) ==
  /\ caller = admin
  /\ amount > 0
  /\ minShield' = amount
  /\ UNCHANGED <<approved, relayers, paused, admin, pendingAdmin>>

SetAssetApproved(caller, asset, approve) ==
  /\ caller = admin
  /\ approved' = IF approve THEN approved \cup {asset} ELSE approved \ {asset}
  /\ UNCHANGED <<minShield, relayers, paused, admin, pendingAdmin>>

SetRelayer(caller, relayer, approve) ==
  /\ caller = admin
  /\ relayers' = IF approve THEN relayers \cup {relayer} ELSE relayers \ {relayer}
  /\ UNCHANGED <<minShield, approved, paused, admin, pendingAdmin>>

\* pause and unpause
SetPaused(caller, value) ==
  /\ caller = admin
  /\ paused' = value
  /\ UNCHANGED <<minShield, approved, relayers, admin, pendingAdmin>>

TransferAdmin(caller, newAdmin) ==
  /\ caller = admin
  /\ pendingAdmin' = newAdmin
  /\ UNCHANGED <<minShield, approved, relayers, paused, admin>>

AcceptAdmin(caller) ==
  /\ pendingAdmin # None
  /\ caller = pendingAdmin
  /\ admin' = pendingAdmin
  /\ pendingAdmin' = None
  /\ UNCHANGED <<minShield, approved, relayers, paused>>

SettingsStep ==
  \E caller \in Accounts :
    \/ \E amount \in MinShieldChoices : SetMinShieldAmount(caller, amount)
    \/ \E asset \in Assets, approve \in BOOLEAN : SetAssetApproved(caller, asset, approve)
    \/ \E relayer \in Accounts, approve \in BOOLEAN : SetRelayer(caller, relayer, approve)
    \/ \E value \in BOOLEAN : SetPaused(caller, value)
    \/ \E newAdmin \in Accounts : TransferAdmin(caller, newAdmin)
    \/ AcceptAdmin(caller)
=============================================================================
