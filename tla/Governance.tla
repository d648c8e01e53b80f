------------------------------- MODULE Governance -------------------------------
(***************************************************************************)
(* contracts/governance/src/lib.rs, with the two contracts it administers: *)
(* the verifier (Verifier.tla) and the settings of the token               *)
(* (TokenSettings.tla). Governance is the admin of both, so a call it      *)
(* makes succeeds or fails with the call into them: each action is the     *)
(* conjunction of its own checks and the callee's.                         *)
(***************************************************************************)
EXTENDS Verifier

CONSTANTS
  Assets, Accounts, DefaultMinShield, MinShieldChoices, None,
  Governance,     \* the governance contract's address
  FirstAdmin,     \* the admin and
  Guardian,       \* the guardian given to initialize
  TimelockDelay,  \* VK_TIMELOCK_LEDGERS
  TokenSlot       \* the one slot of PendingTokenAction

\* TokenAdminAction
TokenAction ==
  [kind : {"MinShieldAmount"}, amount : MinShieldChoices]
    \cup [kind : {"AssetApproval"}, asset : Assets, approve : BOOLEAN]
    \cup [kind : {"Relayer"}, relayer : Accounts, approve : BOOLEAN]

\* what a queued change permits, and since when, as the timelock sees it
Grant ==
  Keys \cup ({"amount"} \X MinShieldChoices) \cup ({"asset"} \X Assets)
    \cup ({"relayer"} \X Accounts)
Notice == [grants : SUBSET Grant, since : Int]

ASSUME GovernanceAssumption ==
  /\ FirstAdmin \in Accounts
  /\ Guardian \in Accounts
  /\ Governance \notin Accounts
  /\ None \notin Accounts \cup {Governance}
  /\ None \notin Notice
  /\ Registrar = Governance
  /\ TokenSlot \notin Circuits
  /\ TimelockDelay \in Nat
  /\ Retention < TimelockDelay
  /\ DefaultMinShield \in Nat \ {0}
  /\ MinShieldChoices \subseteq Nat

VARIABLES
  admin,               \* Admin
  pendingAdmin,        \* PendingAdmin
  paused,              \* Paused
  pendingVkUpdate,     \* PendingVkUpdate(circuit)
  pendingTokenAction,  \* PendingTokenAction
  minShield, approved, relayers, tokenPaused, tokenAdmin, tokenPendingAdmin

Token == INSTANCE TokenSettings WITH
           Accounts <- Accounts \cup {Governance},
           Deployer <- Governance,
           paused <- tokenPaused,
           admin <- tokenAdmin,
           pendingAdmin <- tokenPendingAdmin

roles == <<admin, pendingAdmin, paused>>
pending == <<pendingVkUpdate, pendingTokenAction>>
tokenVars == <<minShield, approved, relayers, tokenPaused, tokenAdmin, tokenPendingAdmin>>
vars == <<seq, verifierVars, roles, pending, tokenVars>>

Init ==
  /\ VerifierInit
  /\ admin = FirstAdmin
  /\ pendingAdmin = None
  /\ paused = FALSE
  /\ pendingVkUpdate = [c \in Circuits |-> None]
  /\ pendingTokenAction = None
  /\ Token!SettingsInit

\* the ledger a change queued now can be executed at; u32::checked_add
Eta == seq + TimelockDelay

QueueTokenAction(caller, action) ==
  /\ caller = admin
  /\ ~paused
  /\ action.kind = "MinShieldAmount" => action.amount > 0
  /\ Eta <= MaxLedger
  /\ pendingTokenAction' = [action |-> action, eta |-> Eta]
  /\ UNCHANGED <<seq, verifierVars, roles, pendingVkUpdate, tokenVars>>

ApplyToToken(action) ==
  \/ /\ action.kind = "MinShieldAmount"
     /\ Token!SetMinShieldAmount(Governance, action.amount)
  \/ /\ action.kind = "AssetApproval"
     /\ Token!SetAssetApproved(Governance, action.asset, action.approve)
  \/ /\ action.kind = "Relayer"
     /\ Token!SetRelayer(Governance, action.relayer, action.approve)

\* Deviation: the executed action stays queued.
ExecuteTokenActionKept(caller) ==
  /\ caller = admin
  /\ ~paused
  /\ pendingTokenAction # None
  /\ seq >= pendingTokenAction.eta
  /\ ApplyToToken(pendingTokenAction.action)
  /\ UNCHANGED <<seq, verifierVars, roles, pending>>

ExecuteTokenAction(caller) ==
  /\ caller = admin
  /\ ~paused
  /\ pendingTokenAction # None
  /\ seq >= pendingTokenAction.eta
  /\ pendingTokenAction' = None
  /\ ApplyToToken(pendingTokenAction.action)
  /\ UNCHANGED <<seq, verifierVars, roles, pendingVkUpdate>>

GuardianCancelTokenAction(caller) ==
  /\ caller = Guardian
  /\ pendingTokenAction' = None
  /\ UNCHANGED <<seq, verifierVars, roles, pendingVkUpdate, tokenVars>>

\* Deviation: a replaced update hands its eta on.
QueueVkUpdateKeepsEta(caller, circuit, key) ==
  /\ caller = admin
  /\ ~paused
  /\ Eta <= MaxLedger
  /\ pendingVkUpdate' = [pendingVkUpdate EXCEPT ![circuit] =
                           [newVk |-> key, eta |-> IF @ = None THEN Eta ELSE @.eta]]
  /\ UNCHANGED <<seq, verifierVars, roles, pendingTokenAction, tokenVars>>

\* The shape of the key is not looked at here: a malformed one waits out the
\* timelock and then cannot be executed.
QueueVkUpdate(caller, circuit, key) ==
  /\ caller = admin
  /\ ~paused
  /\ Eta <= MaxLedger
  /\ pendingVkUpdate' = [pendingVkUpdate EXCEPT ![circuit] = [newVk |-> key, eta |-> Eta]]
  /\ UNCHANGED <<seq, verifierVars, roles, pendingTokenAction, tokenVars>>

\* Deviation: the timelock ends one ledger early.
ExecuteVkUpdateEarly(caller, circuit) ==
  LET update == pendingVkUpdate[circuit]
  IN
  /\ caller = admin
  /\ ~paused
  /\ update # None
  /\ seq >= update.eta - 1
  /\ pendingVkUpdate' = [pendingVkUpdate EXCEPT ![circuit] = None]
  /\ \/ UpdateVerifyingKey(Governance, circuit, update.newVk)
     \/ RegisterVerifyingKey(Governance, circuit, update.newVk)
  /\ UNCHANGED <<seq, roles, pendingTokenAction, tokenVars>>

ExecuteVkUpdate(caller, circuit) ==
  LET update == pendingVkUpdate[circuit]
  IN
  /\ caller = admin
  /\ ~paused
  /\ update # None
  /\ seq >= update.eta
  /\ pendingVkUpdate' = [pendingVkUpdate EXCEPT ![circuit] = None]
  /\ \/ UpdateVerifyingKey(Governance, circuit, update.newVk)
     \/ RegisterVerifyingKey(Governance, circuit, update.newVk)
  /\ UNCHANGED <<seq, roles, pendingTokenAction, tokenVars>>

\* cancel_vk_update by the admin, guardian_cancel_vk_update by the guardian
CancelVkUpdate(caller, circuit) ==
  /\ caller \in {admin, Guardian}
  /\ pendingVkUpdate' = [pendingVkUpdate EXCEPT ![circuit] = None]
  /\ UNCHANGED <<seq, verifierVars, roles, pendingTokenAction, tokenVars>>

RevokePrevious(caller, circuit) ==
  /\ caller = admin
  /\ RevokePreviousVk(Governance, circuit)
  /\ UNCHANGED <<seq, roles, pending, tokenVars>>

\* pause_verifier and unpause_verifier; not gated by governance's own pause
PauseVerifier(caller, value) ==
  /\ caller = admin
  /\ SetVerifierPaused(Governance, value)
  /\ UNCHANGED <<seq, roles, pending, tokenVars>>

\* Deviation: the lever is behind governance's own pause.
PauseTokenGated(caller, value) ==
  /\ caller = admin
  /\ ~paused
  /\ Token!SetPaused(Governance, value)
  /\ UNCHANGED <<seq, verifierVars, roles, pending>>

\* pause_token and unpause_token
PauseToken(caller, value) ==
  /\ caller = admin
  /\ Token!SetPaused(Governance, value)
  /\ UNCHANGED <<seq, verifierVars, roles, pending>>

\* pause and unpause
SetPaused(caller, value) ==
  /\ caller = admin
  /\ paused' = value
  /\ UNCHANGED <<seq, verifierVars, admin, pendingAdmin, pending, tokenVars>>

TransferAdmin(caller, newAdmin) ==
  /\ caller = admin
  /\ ~paused
  /\ pendingAdmin' = newAdmin
  /\ UNCHANGED <<seq, verifierVars, admin, paused, pending, tokenVars>>

AcceptAdmin(caller) ==
  /\ pendingAdmin # None
  /\ caller = pendingAdmin
  /\ ~paused
  /\ admin' = pendingAdmin
  /\ pendingAdmin' = None
  /\ UNCHANGED <<seq, verifierVars, paused, pending, tokenVars>>

\* A ledger closes. (Promises that have run out are forgotten.)
Tick ==
  /\ seq < MaxLedger
  /\ seq' = seq + 1
  /\ promised' = {p \in promised : p.until >= seq'}
  /\ UNCHANGED <<vk, previousVk, previousExpiry, verifierPaused, roles, pending, tokenVars>>

VkStep(caller) ==
  \E circuit \in Circuits :
    \/ \E key \in Keys : QueueVkUpdate(caller, circuit, key)
    \/ ExecuteVkUpdate(caller, circuit)
    \/ CancelVkUpdate(caller, circuit)
    \/ RevokePrevious(caller, circuit)

TokenStep(caller) ==
  \/ \E action \in TokenAction : QueueTokenAction(caller, action)
  \/ ExecuteTokenAction(caller)
  \/ GuardianCancelTokenAction(caller)

HandoverStep(caller) ==
  \/ \E newAdmin \in Accounts : TransferAdmin(caller, newAdmin)
  \/ AcceptAdmin(caller)

SwitchStep(caller) ==
  \E value \in BOOLEAN :
    PauseVerifier(caller, value) \/ PauseToken(caller, value) \/ SetPaused(caller, value)

Call ==
  \E caller \in Accounts :
    VkStep(caller) \/ TokenStep(caller) \/ HandoverStep(caller) \/ SwitchStep(caller)

Next == Call \/ Tick

Spec == Init /\ [][Next]_vars

---------------------------------------------------------------------------

TypeOK ==
  /\ VerifierTypeOK
  /\ admin \in Accounts
  /\ pendingAdmin \in Accounts \cup {None}
  /\ paused \in BOOLEAN
  /\ pendingVkUpdate \in [Circuits -> [newVk : Keys, eta : 0..MaxLedger] \cup {None}]
  /\ pendingTokenAction \in [action : TokenAction, eta : 0..MaxLedger] \cup {None}
  /\ Token!SettingsTypeOK

\* The levers of an incident response are never out of reach, whatever is
\* paused, queued or being handed over: the admin can halt the verifier and the
\* token, and the guardian can drop every queued change. Each works through the
\* governance contract's standing as the admin of the other two.
IncidentLevers ==
  /\ ENABLED PauseVerifier(admin, TRUE)
  /\ ENABLED PauseToken(admin, TRUE)
  /\ ENABLED GuardianCancelTokenAction(Guardian)
  /\ \A c \in Circuits :
       ENABLED CancelVkUpdate(Guardian, c) /\ ENABLED RevokePrevious(admin, c)

---------------------------------------------------------------------------
(* Governance implements the timelock. *)

\* what a token action permits once it is applied
GrantsOf(action) ==
  IF action.kind = "MinShieldAmount" THEN {<<"amount", action.amount>>}
  ELSE IF ~action.approve THEN {}
  ELSE IF action.kind = "AssetApproval" THEN {<<"asset", action.asset>>}
  ELSE {<<"relayer", action.relayer>>}

NoticeOf(entry, grants) ==
  IF entry = None THEN None ELSE [grants |-> grants, since |-> entry.eta - TimelockDelay]

Notices ==
  [s \in Circuits \cup {TokenSlot} |->
     IF s = TokenSlot
       THEN NoticeOf(pendingTokenAction, GrantsOf(pendingTokenAction.action))
       ELSE NoticeOf(pendingVkUpdate[s], {pendingVkUpdate[s].newVk})]

InForce ==
  [s \in Circuits \cup {TokenSlot} |->
     IF s = TokenSlot
       THEN {<<"amount", minShield>>}
              \cup {<<"asset", a>> : a \in approved} \cup {<<"relayer", r>> : r \in relayers}
       ELSE Honoured(s)]

\* Every key the verifier comes to accept, and every setting of the token, was
\* announced, and stood unchanged and uncancelled, for a whole timelock; all that
\* works without notice is to narrow what the verifier accepts.
Lock == INSTANCE Timelock WITH
          Slots <- Circuits \cup {TokenSlot}, Revocable <- Circuits,
          Delay <- TimelockDelay, NoNotice <- None,
          now <- seq, notice <- Notices, inForce <- InForce
TimelockSpec == Lock!Spec
=============================================================================
