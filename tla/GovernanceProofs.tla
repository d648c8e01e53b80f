----------------------------- MODULE GovernanceProofs -----------------------------
(***************************************************************************)
(* Proofs about Governance.tla and GuardianWatch.tla: type correctness,    *)
(* that a watchful guardian prevails, and how long the verifier honours a  *)
(* replaced key, for every value of the constants; and about the other     *)
(* contract beside the token, Compliance.tla: who can prove that he is not *)
(* on the list, for every list.                                            *)
(***************************************************************************)
EXTENDS GuardianWatch, Compliance, DataTheorems

VkUpdateType == [newVk : Keys, eta : 0..MaxLedger]
TokenEntryType == [action : TokenAction, eta : 0..MaxLedger]

---------------------------------------------------------------------------
(* Type correctness. *)

\* The sum is a ledger whatever the bound.
LEMMA RetainedUntilType ==
  ASSUME seq \in 0..MaxLedger
  PROVE  /\ RetainedUntil \in 0..MaxLedger
         /\ RetainedUntil <= seq + Retention
         /\ RetainedUntil = seq + Retention \/ RetainedUntil = MaxLedger
BY VerifierAssumption DEF RetainedUntil, SaturatingAdd

\* Executing an action leaves the token's settings well typed.
LEMMA ApplyToTokenType ==
  ASSUME NEW action \in TokenAction, Token!SettingsTypeOK, ApplyToToken(action)
  PROVE  Token!SettingsTypeOK'
<1>1. CASE action.kind = "MinShieldAmount"
  <2>1. Token!SetMinShieldAmount(Governance, action.amount)
    BY <1>1 DEF ApplyToToken
  <2>2. action.amount \in Nat
    BY <1>1, GovernanceAssumption DEF TokenAction
  <2>. QED
    BY <2>1, <2>2 DEF Token!SetMinShieldAmount, Token!SettingsTypeOK
<1>2. CASE action.kind = "AssetApproval"
  <2>1. Token!SetAssetApproved(Governance, action.asset, action.approve)
    BY <1>2 DEF ApplyToToken
  <2>2. action.asset \in Assets
    BY <1>2 DEF TokenAction
  <2>. QED
    BY <2>1, <2>2 DEF Token!SetAssetApproved, Token!SettingsTypeOK
<1>3. CASE action.kind = "Relayer"
  <2>1. Token!SetRelayer(Governance, action.relayer, action.approve)
    BY <1>3 DEF ApplyToToken
  <2>2. action.relayer \in Accounts
    BY <1>3 DEF TokenAction
  <2>. QED
    BY <2>1, <2>2 DEF Token!SetRelayer, Token!SettingsTypeOK
<1>4. action.kind \in {"MinShieldAmount", "AssetApproval", "Relayer"}
  BY DEF TokenAction
<1>. QED
  BY <1>1, <1>2, <1>3, <1>4

\* Registering and rotating a key leave the verifier well typed.
LEMMA RegisterType ==
  ASSUME VerifierTypeOK, NEW c \in Circuits, NEW key \in Keys, NEW caller,
         RegisterVerifyingKey(caller, c, key), seq' = seq
  PROVE  VerifierTypeOK'
BY DEF RegisterVerifyingKey, VerifierTypeOK

LEMMA UpdateType ==
  ASSUME VerifierTypeOK, NEW c \in Circuits, NEW key \in Keys, NEW caller,
         UpdateVerifyingKey(caller, c, key), seq' = seq
  PROVE  VerifierTypeOK'
<1>1. RetainedUntil \in 0..MaxLedger
  BY RetainedUntilType DEF VerifierTypeOK
<1>2. vk[c] \in Keys \ MalformedKeys
  BY DEF VerifierTypeOK, UpdateVerifyingKey
<1>3. seq + Retention \in Nat
  BY VerifierAssumption DEF VerifierTypeOK
<1>4. vk' \in [Circuits -> (Keys \ MalformedKeys) \cup {NoKey}]
  BY DEF VerifierTypeOK, UpdateVerifyingKey
<1>5. previousVk' \in [Circuits -> (Keys \ MalformedKeys) \cup {NoKey}]
  BY <1>2 DEF VerifierTypeOK, UpdateVerifyingKey
<1>6. previousExpiry' \in [Circuits -> 0..MaxLedger]
  BY <1>1 DEF VerifierTypeOK, UpdateVerifyingKey
<1>7. promised' \subseteq [circuit : Circuits, key : Keys \ MalformedKeys, until : Nat]
  BY <1>2, <1>3 DEF VerifierTypeOK, UpdateVerifyingKey
<1>. QED
  BY <1>4, <1>5, <1>6, <1>7 DEF VerifierTypeOK, UpdateVerifyingKey

LEMMA RegisterOrUpdateType ==
  ASSUME VerifierTypeOK, NEW c \in Circuits, NEW key \in Keys, seq' = seq,
         \/ UpdateVerifyingKey(Governance, c, key)
         \/ RegisterVerifyingKey(Governance, c, key)
  PROVE  VerifierTypeOK'
BY RegisterType, UpdateType

LEMMA VerifierTypeInitially == VerifierInit => VerifierTypeOK
<1>. SUFFICES ASSUME VerifierInit PROVE VerifierTypeOK
  OBVIOUS
<1>1. 0 \in 0..MaxLedger
  BY VerifierAssumption
<1>2. /\ vk = [c \in Circuits |-> NoKey]
      /\ previousVk = [c \in Circuits |-> NoKey]
      /\ previousExpiry = [c \in Circuits |-> 0]
  BY DEF VerifierInit
<1>3. previousExpiry \in [Circuits -> 0..MaxLedger]
  BY <1>1, <1>2
<1>4. vk \in [Circuits -> (Keys \ MalformedKeys) \cup {NoKey}] /\ previousVk = vk
  BY <1>2
<1>. QED
  BY <1>1, <1>3, <1>4 DEF VerifierInit, VerifierTypeOK

LEMMA TypeInitially == Init => TypeOK
<1>. SUFFICES ASSUME Init PROVE TypeOK
  OBVIOUS
<1>1. VerifierTypeOK
  BY VerifierTypeInitially DEF Init
<1>2. Token!SettingsTypeOK
  BY GovernanceAssumption DEF Init, Token!SettingsInit, Token!SettingsTypeOK
<1>. QED
  BY <1>1, <1>2, GovernanceAssumption DEF Init, TypeOK

LEMMA EtaType ==
  ASSUME seq \in 0..MaxLedger, Eta <= MaxLedger
  PROVE  Eta \in 0..MaxLedger
BY GovernanceAssumption, VerifierAssumption DEF Eta

\* No call of governance, and no closing of a ledger, leaves a value outside its
\* type.
LEMMA TypeStep == TypeOK /\ Next => TypeOK'
<1>. SUFFICES ASSUME TypeOK, Next PROVE TypeOK'
  OBVIOUS
<1>. USE DEF pending, roles
<1>1. ASSUME NEW caller \in Accounts, NEW action \in TokenAction,
             QueueTokenAction(caller, action)
      PROVE  TypeOK'
  <2>1. Eta \in 0..MaxLedger
    BY <1>1, EtaType DEF TypeOK, VerifierTypeOK, QueueTokenAction
  <2>. QED
    BY <1>1, <2>1 DEF QueueTokenAction, TypeOK, VerifierTypeOK, Token!SettingsTypeOK,
                      verifierVars, tokenVars
<1>2. ASSUME NEW caller \in Accounts, ExecuteTokenAction(caller)
      PROVE  TypeOK'
  <2>1. pendingTokenAction.action \in TokenAction
    BY <1>2 DEF ExecuteTokenAction, TypeOK
  <2>2. Token!SettingsTypeOK'
    BY <1>2, <2>1, ApplyToTokenType DEF ExecuteTokenAction, TypeOK
  <2>. QED
    BY <1>2, <2>2 DEF ExecuteTokenAction, TypeOK, VerifierTypeOK, verifierVars
<1>3. ASSUME NEW caller \in Accounts, GuardianCancelTokenAction(caller)
      PROVE  TypeOK'
  BY <1>3 DEF GuardianCancelTokenAction, TypeOK, VerifierTypeOK, Token!SettingsTypeOK,
              verifierVars, tokenVars
<1>4. ASSUME NEW caller \in Accounts, NEW c \in Circuits, NEW key \in Keys,
             QueueVkUpdate(caller, c, key)
      PROVE  TypeOK'
  <2>1. Eta \in 0..MaxLedger
    BY <1>4, EtaType DEF TypeOK, VerifierTypeOK, QueueVkUpdate
  <2>. QED
    BY <1>4, <2>1 DEF QueueVkUpdate, TypeOK, VerifierTypeOK, Token!SettingsTypeOK,
                      verifierVars, tokenVars
<1>5. ASSUME NEW caller \in Accounts, NEW c \in Circuits, ExecuteVkUpdate(caller, c)
      PROVE  TypeOK'
  <2>1. pendingVkUpdate[c].newVk \in Keys
    BY <1>5 DEF ExecuteVkUpdate, TypeOK
  <2>2. VerifierTypeOK'
    BY <1>5, <2>1, RegisterOrUpdateType DEF ExecuteVkUpdate, TypeOK
  <2>. QED
    BY <1>5, <2>2 DEF ExecuteVkUpdate, TypeOK, Token!SettingsTypeOK, tokenVars
<1>6. ASSUME NEW caller \in Accounts, NEW c \in Circuits, CancelVkUpdate(caller, c)
      PROVE  TypeOK'
  BY <1>6 DEF CancelVkUpdate, TypeOK, VerifierTypeOK, Token!SettingsTypeOK,
              verifierVars, tokenVars
<1>7. ASSUME NEW caller \in Accounts, NEW c \in Circuits, RevokePrevious(caller, c)
      PROVE  TypeOK'
  BY <1>7, VerifierAssumption
     DEF RevokePrevious, RevokePreviousVk, TypeOK, VerifierTypeOK, Token!SettingsTypeOK, tokenVars
<1>8. ASSUME NEW caller \in Accounts, NEW value \in BOOLEAN, PauseVerifier(caller, value)
      PROVE  TypeOK'
  BY <1>8 DEF PauseVerifier, SetVerifierPaused, TypeOK, VerifierTypeOK, Token!SettingsTypeOK,
              tokenVars
<1>9. ASSUME NEW caller \in Accounts, NEW value \in BOOLEAN, PauseToken(caller, value)
      PROVE  TypeOK'
  BY <1>9 DEF PauseToken, Token!SetPaused, TypeOK, VerifierTypeOK, Token!SettingsTypeOK,
              verifierVars
<1>10. ASSUME NEW caller \in Accounts, NEW value \in BOOLEAN, SetPaused(caller, value)
       PROVE  TypeOK'
  BY <1>10 DEF SetPaused, TypeOK, VerifierTypeOK, Token!SettingsTypeOK, verifierVars, tokenVars
<1>11. ASSUME NEW caller \in Accounts, HandoverStep(caller)
       PROVE  TypeOK'
  BY <1>11 DEF HandoverStep, TransferAdmin, AcceptAdmin, TypeOK, VerifierTypeOK,
               Token!SettingsTypeOK, verifierVars, tokenVars
<1>12. ASSUME Tick
       PROVE  TypeOK'
  BY <1>12, VerifierAssumption
     DEF Tick, TypeOK, VerifierTypeOK, Token!SettingsTypeOK, tokenVars
<1>. QED
  BY <1>1, <1>2, <1>3, <1>4, <1>5, <1>6, <1>7, <1>8, <1>9, <1>10, <1>11, <1>12
     DEF Next, Call, VkStep, TokenStep, SwitchStep

LEMMA TypeStutter == TypeOK /\ UNCHANGED vars => TypeOK'
BY DEF vars, roles, pending, TypeOK, VerifierTypeOK, Token!SettingsTypeOK, verifierVars, tokenVars

\* Whatever governance queues, executes, cancels, pauses or hands over, and
\* whatever the two contracts it administers do with it, every value stays what
\* its storage entry is declared to hold; in particular no expiry and no eta is
\* past the last ledger a u32 can count.
THEOREM GovernanceTypes == Spec => []TypeOK
<1>1. TypeOK /\ [Next]_vars => TypeOK'
  BY TypeStep, TypeStutter
<1>. QED
  BY <1>1, TypeInitially, PTL DEF Spec

---------------------------------------------------------------------------
(* The guardian. *)

\* Inductive: what is queued is caught in time, so what is in force is clean.
WatchInv ==
  /\ TypeOK
  /\ lastLook \in 0..seq
  /\ CaughtInTime
  /\ GuardianPrevails

LEMMA WatchInitially == WatchInit => WatchInv
<1>. SUFFICES ASSUME WatchInit PROVE WatchInv
  OBVIOUS
<1>1. TypeOK
  BY TypeInitially DEF WatchInit
<1>2. lastLook \in 0..seq /\ seq <= lastLook + WatchPeriod
  BY WatchAssumption, GovernanceAssumption DEF WatchInit, Init, VerifierInit
<1>3. CaughtInTime
  BY <1>2 DEF CaughtInTime, WatchInit, Init
<1>4. GuardianPrevails
  BY WatchAssumption, VerifierAssumption
     DEF GuardianPrevails, WatchInit, Init, VerifierInit, Token!SettingsInit
<1>. QED
  BY <1>1, <1>2, <1>3, <1>4 DEF WatchInv

\* A change queued now is short of its timelock at the next look.
LEMMA EtaPastNextLook ==
  ASSUME WatchInv
  PROVE  lastLook + WatchPeriod < Eta
BY WatchAssumption, GovernanceAssumption DEF WatchInv, TypeOK, VerifierTypeOK, Eta

\* Executing an action that the guardian does not mind approves nothing it minds.
LEMMA ApplyHarmless ==
  ASSUME NEW action \in TokenAction, ~Objectionable(action), ApplyToToken(action),
         approved \cap BadAssets = {}
  PROVE  approved' \cap BadAssets = {}
<1>1. CASE action.kind = "MinShieldAmount"
  BY <1>1 DEF ApplyToToken, Token!SetMinShieldAmount
<1>2. CASE action.kind = "AssetApproval"
  <2>1. Token!SetAssetApproved(Governance, action.asset, action.approve)
    BY <1>2 DEF ApplyToToken
  <2>2. ~(action.approve /\ action.asset \in BadAssets)
    BY <1>2 DEF Objectionable
  <2>. QED
    BY <2>1, <2>2 DEF Token!SetAssetApproved
<1>3. CASE action.kind = "Relayer"
  BY <1>3 DEF ApplyToToken, Token!SetRelayer
<1>4. action.kind \in {"MinShieldAmount", "AssetApproval", "Relayer"}
  BY DEF TokenAction
<1>. QED
  BY <1>1, <1>2, <1>3, <1>4

\* The calls that neither queue nor execute: they leave what is in force alone
\* and at most take entries out of the queue.
LEMMA WatchQuiet ==
  ASSUME WatchInv,
         seq' = seq, lastLook' = lastLook, vk' = vk, approved' = approved,
         pendingTokenAction' \in {pendingTokenAction, None},
         \A c \in Circuits : pendingVkUpdate'[c] \in {pendingVkUpdate[c], None}
  PROVE  CaughtInTime' /\ GuardianPrevails'
<1>1. CaughtInTime'
  BY DEF WatchInv, CaughtInTime, Objectionable
<1>. QED
  BY <1>1 DEF WatchInv, GuardianPrevails

\* No call lets an objectionable change past the guardian.
LEMMA WatchedCallStep == WatchInv /\ WatchedCall => CaughtInTime' /\ GuardianPrevails'
<1>. SUFFICES ASSUME WatchInv, WatchedCall PROVE CaughtInTime' /\ GuardianPrevails'
  OBVIOUS
<1>. USE DEF WatchInv, pending, roles
<1>0. lastLook' = lastLook
  BY DEF WatchedCall
<1>1. ASSUME NEW caller \in Accounts, NEW action \in TokenAction,
             QueueTokenAction(caller, action)
      PROVE  CaughtInTime' /\ GuardianPrevails'
  <2>1. CaughtInTime'
    BY <1>0, <1>1, EtaPastNextLook DEF QueueTokenAction, CaughtInTime, Objectionable
  <2>. QED
    BY <1>1, <2>1 DEF QueueTokenAction, GuardianPrevails, verifierVars, tokenVars
<1>2. ASSUME NEW caller \in Accounts, ExecuteTokenAction(caller)
      PROVE  CaughtInTime' /\ GuardianPrevails'
  <2>1. pendingTokenAction \in TokenEntryType
    BY <1>2 DEF ExecuteTokenAction, TypeOK, TokenEntryType
  <2>2. ~Objectionable(pendingTokenAction.action)
    <3>1. ~(lastLook + WatchPeriod < pendingTokenAction.eta)
      BY <1>2, <2>1, WatchAssumption
         DEF ExecuteTokenAction, CaughtInTime, TypeOK, VerifierTypeOK, TokenEntryType
    <3>. QED
      BY <1>2, <3>1 DEF ExecuteTokenAction, CaughtInTime
  <2>3. approved' \cap BadAssets = {}
    BY <1>2, <2>1, <2>2, ApplyHarmless DEF ExecuteTokenAction, GuardianPrevails, TokenEntryType
  <2>4. CaughtInTime'
    BY <1>0, <1>2 DEF ExecuteTokenAction, CaughtInTime
  <2>. QED
    BY <1>2, <2>3, <2>4 DEF ExecuteTokenAction, GuardianPrevails, verifierVars
<1>3. ASSUME NEW caller \in Accounts, GuardianCancelTokenAction(caller)
      PROVE  CaughtInTime' /\ GuardianPrevails'
  BY <1>0, <1>3, WatchQuiet DEF GuardianCancelTokenAction, verifierVars, tokenVars
<1>4. ASSUME NEW caller \in Accounts, NEW c \in Circuits, NEW key \in Keys,
             QueueVkUpdate(caller, c, key)
      PROVE  CaughtInTime' /\ GuardianPrevails'
  <2>1. \A d \in Circuits :
          pendingVkUpdate'[d] = IF d = c THEN [newVk |-> key, eta |-> Eta]
                                         ELSE pendingVkUpdate[d]
    BY <1>4 DEF QueueVkUpdate, TypeOK
  <2>2. CaughtInTime'
    BY <1>0, <1>4, <2>1, EtaPastNextLook DEF QueueVkUpdate, CaughtInTime, Objectionable
  <2>. QED
    BY <1>4, <2>2 DEF QueueVkUpdate, GuardianPrevails, verifierVars, tokenVars
<1>5. ASSUME NEW caller \in Accounts, NEW c \in Circuits, ExecuteVkUpdate(caller, c)
      PROVE  CaughtInTime' /\ GuardianPrevails'
  <2>1. pendingVkUpdate[c] # None /\ pendingVkUpdate[c] \in VkUpdateType
    BY <1>5 DEF ExecuteVkUpdate, TypeOK, VkUpdateType
  <2>2. pendingVkUpdate[c].newVk \notin BadKeys
    <3>1. ~(lastLook + WatchPeriod < pendingVkUpdate[c].eta)
      BY <1>5, <2>1, WatchAssumption
         DEF ExecuteVkUpdate, CaughtInTime, TypeOK, VerifierTypeOK, VkUpdateType
    <3>. QED
      BY <2>1, <3>1 DEF CaughtInTime
  <2>3. \A d \in Circuits : vk'[d] = IF d = c THEN pendingVkUpdate[c].newVk ELSE vk[d]
    BY <1>5 DEF ExecuteVkUpdate, UpdateVerifyingKey, RegisterVerifyingKey, TypeOK, VerifierTypeOK
  <2>4. \A d \in Circuits :
          pendingVkUpdate'[d] = IF d = c THEN None ELSE pendingVkUpdate[d]
    BY <1>5 DEF ExecuteVkUpdate, TypeOK
  <2>5. CaughtInTime'
    BY <1>0, <1>5, <2>4 DEF ExecuteVkUpdate, CaughtInTime, Objectionable
  <2>. QED
    BY <1>5, <2>2, <2>3, <2>5 DEF ExecuteVkUpdate, GuardianPrevails, tokenVars
<1>6. ASSUME NEW caller \in Accounts, NEW c \in Circuits, CancelVkUpdate(caller, c)
      PROVE  CaughtInTime' /\ GuardianPrevails'
  <2>1. \A d \in Circuits : pendingVkUpdate'[d] \in {pendingVkUpdate[d], None}
    BY <1>6 DEF CancelVkUpdate, TypeOK
  <2>. QED
    BY <1>0, <1>6, <2>1, WatchQuiet DEF CancelVkUpdate, verifierVars, tokenVars
<1>7. ASSUME NEW caller \in Accounts, NEW c \in Circuits, RevokePrevious(caller, c)
      PROVE  CaughtInTime' /\ GuardianPrevails'
  BY <1>0, <1>7, WatchQuiet DEF RevokePrevious, RevokePreviousVk, tokenVars
<1>8. ASSUME NEW caller \in Accounts, SwitchStep(caller)
      PROVE  CaughtInTime' /\ GuardianPrevails'
  BY <1>0, <1>8, WatchQuiet
     DEF SwitchStep, PauseVerifier, SetVerifierPaused, PauseToken, Token!SetPaused, SetPaused,
         verifierVars, tokenVars
<1>9. ASSUME NEW caller \in Accounts, HandoverStep(caller)
      PROVE  CaughtInTime' /\ GuardianPrevails'
  BY <1>0, <1>9, WatchQuiet
     DEF HandoverStep, TransferAdmin, AcceptAdmin, verifierVars, tokenVars
<1>. QED
  BY <1>1, <1>2, <1>3, <1>4, <1>5, <1>6, <1>7, <1>8, <1>9
     DEF WatchedCall, Call, VkStep, TokenStep

LEMMA WatchStep == WatchInv /\ [WatchNext]_watchVars => WatchInv'
<1>. SUFFICES ASSUME WatchInv, [WatchNext]_watchVars PROVE WatchInv'
  OBVIOUS
<1>1. CASE WatchedCall
  <2>1. seq' = seq
    BY <1>1
       DEF WatchedCall, Call, VkStep, TokenStep, HandoverStep, SwitchStep, QueueTokenAction,
           ExecuteTokenAction, GuardianCancelTokenAction, QueueVkUpdate, ExecuteVkUpdate,
           CancelVkUpdate, RevokePrevious, PauseVerifier, PauseToken, SetPaused, TransferAdmin,
           AcceptAdmin
  <2>2. TypeOK'
    BY <1>1, TypeStep DEF WatchInv, WatchedCall, Next
  <2>. QED
    BY <1>1, <2>1, <2>2, WatchedCallStep DEF WatchInv, WatchedCall
<1>2. CASE WatchedTick
  <2>1. TypeOK'
    BY <1>2, TypeStep DEF WatchInv, WatchedTick, Next
  <2>2. seq \in Nat /\ lastLook \in 0..seq /\ seq' = seq + 1 /\ lastLook' = lastLook
    BY <1>2, VerifierAssumption DEF WatchInv, TypeOK, VerifierTypeOK, WatchedTick, Tick
  <2>3. lastLook' \in 0..seq' /\ seq' <= lastLook' + WatchPeriod
    BY <1>2, <2>2, WatchAssumption, GovernanceAssumption DEF WatchedTick
  <2>4. CaughtInTime' /\ GuardianPrevails'
    BY <1>2, <2>2, <2>3
       DEF WatchInv, WatchedTick, Tick, CaughtInTime, GuardianPrevails, Objectionable, pending,
           tokenVars
  <2>. QED
    BY <2>1, <2>3, <2>4 DEF WatchInv
<1>3. CASE Look
  <2>1. TypeOK'
    BY <1>3, TypeStutter DEF WatchInv, Look
  <2>2. seq \in Nat /\ seq' = seq /\ lastLook' = seq
    BY <1>3, VerifierAssumption DEF WatchInv, TypeOK, VerifierTypeOK, Look, vars
  <2>3. lastLook' \in 0..seq' /\ seq' <= lastLook' + WatchPeriod
    BY <2>2, WatchAssumption, GovernanceAssumption
  <2>4. CaughtInTime' /\ GuardianPrevails'
    BY <1>3, <2>3
       DEF WatchInv, Look, QueueIsClean, CaughtInTime, GuardianPrevails, Objectionable, vars,
           pending, verifierVars, tokenVars
  <2>. QED
    BY <2>1, <2>3, <2>4 DEF WatchInv
<1>4. CASE UNCHANGED watchVars
  <2>1. TypeOK'
    BY <1>4, TypeStutter DEF WatchInv, watchVars
  <2>. QED
    BY <1>4, <2>1
       DEF WatchInv, watchVars, vars, pending, verifierVars, tokenVars, CaughtInTime,
           GuardianPrevails, Objectionable
<1>. QED
  BY <1>1, <1>2, <1>3, <1>4 DEF WatchNext

\* An objectionable change never gets near its timelock: at the guardian's next
\* look, however late, it still cannot be executed. For every timelock longer
\* than the period the guardian looks in, every number of circuits, assets and
\* accounts, and every interleaving of the calls.
THEOREM WatchCatchesInTime == WatchSpec => []CaughtInTime
<1>. QED
  BY WatchInitially, WatchStep, PTL DEF WatchSpec, WatchInv

\* No verifying key and no asset the guardian objects to ever comes into force.
THEOREM WatchedGuardianPrevails == WatchSpec => []GuardianPrevails
<1>. QED
  BY WatchInitially, WatchStep, PTL DEF WatchSpec, WatchInv

---------------------------------------------------------------------------
(* The retention of a replaced key. *)

\* A promise is at most a retention window ahead.
PromisesAreShort == \A p \in promised : p.until <= seq + Retention

\* The next rotation of a circuit comes after every promise of the last one:
\* it was queued no earlier, and the timelock is longer than the retention.
RotationsAreApart ==
  \A c \in Circuits : pendingVkUpdate[c] # None =>
    \A p \in promised : p.circuit = c => p.until < pendingVkUpdate[c].eta

\* A promise that has not run out is about the one key that is retained.
PromisesAreKept ==
  \A p \in promised : seq <= p.until =>
    /\ vk[p.circuit] # NoKey
    /\ previousVk[p.circuit] = p.key
    /\ p.until <= previousExpiry[p.circuit] \/ previousExpiry[p.circuit] = MaxLedger

\* A key is retained only where and while that was promised.
RetainedWasPromised ==
  \A c \in Circuits : previousVk[c] # NoKey /\ seq <= previousExpiry[c] =>
    \E p \in promised :
      p.circuit = c /\ p.key = previousVk[c] /\ previousExpiry[c] <= p.until

HonourInv ==
  /\ TypeOK
  /\ PromisesAreShort
  /\ RotationsAreApart
  /\ PromisesAreKept
  /\ RetainedWasPromised

LEMMA HonourInitially == Init => HonourInv
BY TypeInitially
   DEF Init, VerifierInit, HonourInv, PromisesAreShort, RotationsAreApart, PromisesAreKept,
       RetainedWasPromised

\* The steps that do not touch the registry and queue no update.
LEMMA HonourQuiet ==
  ASSUME HonourInv, TypeOK',
         seq' = seq, vk' = vk, previousVk' = previousVk, previousExpiry' = previousExpiry,
         promised' = promised,
         \A c \in Circuits : pendingVkUpdate'[c] \in {pendingVkUpdate[c], None}
  PROVE  HonourInv'
BY DEF HonourInv, PromisesAreShort, RotationsAreApart, PromisesAreKept, RetainedWasPromised

LEMMA HonourQueue ==
  ASSUME HonourInv, TypeOK', NEW caller, NEW c \in Circuits, NEW key \in Keys,
         QueueVkUpdate(caller, c, key)
  PROVE  HonourInv'
<1>1. /\ seq' = seq /\ vk' = vk /\ previousVk' = previousVk /\ previousExpiry' = previousExpiry
      /\ promised' = promised
  BY DEF QueueVkUpdate, verifierVars
<1>2. \A d \in Circuits :
        pendingVkUpdate'[d] = IF d = c THEN [newVk |-> key, eta |-> Eta] ELSE pendingVkUpdate[d]
  BY DEF QueueVkUpdate, HonourInv, TypeOK
<1>3. \A p \in promised : p.until \in Nat /\ p.until < Eta
  BY GovernanceAssumption, VerifierAssumption
     DEF HonourInv, PromisesAreShort, TypeOK, VerifierTypeOK, Eta
<1>4. RotationsAreApart'
  BY <1>1, <1>2, <1>3 DEF HonourInv, RotationsAreApart
<1>. QED
  BY <1>1, <1>4 DEF HonourInv, PromisesAreShort, PromisesAreKept, RetainedWasPromised

\* The first key of a circuit: nothing is replaced, nothing promised.
LEMMA HonourRegister ==
  ASSUME HonourInv, TypeOK', NEW caller, NEW c \in Circuits, NEW key \in Keys,
         seq' = seq, RegisterVerifyingKey(caller, c, key),
         \A d \in Circuits : pendingVkUpdate'[d] \in {pendingVkUpdate[d], None}
  PROVE  HonourInv'
<1>1. /\ previousVk' = previousVk /\ previousExpiry' = previousExpiry
      /\ promised' = promised
  BY DEF RegisterVerifyingKey
<1>2. \A d \in Circuits : vk'[d] = IF d = c THEN key ELSE vk[d]
  BY DEF RegisterVerifyingKey, HonourInv, TypeOK, VerifierTypeOK
<1>3. \A p \in promised : p.circuit \in Circuits
  BY DEF HonourInv, TypeOK, VerifierTypeOK
<1>4. PromisesAreKept'
  BY <1>1, <1>2, <1>3, VerifierAssumption DEF HonourInv, PromisesAreKept
<1>. QED
  BY <1>1, <1>4 DEF HonourInv, PromisesAreShort, RotationsAreApart, RetainedWasPromised

\* A rotation: every earlier promise of the circuit has run out, and the new one
\* is what the registry keeps.
LEMMA HonourUpdate ==
  ASSUME HonourInv, TypeOK', NEW caller, NEW c \in Circuits, NEW key \in Keys,
         seq' = seq, UpdateVerifyingKey(caller, c, key),
         \A p \in promised : p.circuit = c => p.until < seq,
         pendingVkUpdate' = [pendingVkUpdate EXCEPT ![c] = None]
  PROVE  HonourInv'
<1>. DEFINE new == [circuit |-> c, key |-> vk[c], until |-> seq + Retention]
<1>1. /\ promised' = promised \cup {new}
      /\ new \in promised'
      /\ new.circuit = c /\ new.key = vk[c] /\ new.until = seq + Retention
  BY DEF UpdateVerifyingKey
<1>2. /\ seq \in 0..MaxLedger /\ seq \in Nat /\ Retention \in Nat
      /\ \A p \in promised : p.circuit \in Circuits /\ p.until \in Nat
  BY VerifierAssumption DEF HonourInv, TypeOK, VerifierTypeOK
<1>3. \A d \in Circuits :
        /\ vk'[d] = IF d = c THEN key ELSE vk[d]
        /\ previousVk'[d] = IF d = c THEN vk[c] ELSE previousVk[d]
        /\ previousExpiry'[d] = IF d = c THEN RetainedUntil ELSE previousExpiry[d]
        /\ pendingVkUpdate'[d] = IF d = c THEN None ELSE pendingVkUpdate[d]
  BY DEF UpdateVerifyingKey, HonourInv, TypeOK, VerifierTypeOK
<1>4. /\ RetainedUntil \in 0..MaxLedger
      /\ RetainedUntil <= seq + Retention
      /\ RetainedUntil = seq + Retention \/ RetainedUntil = MaxLedger
  BY <1>2, RetainedUntilType
<1>5. PromisesAreShort'
  BY <1>1, <1>2 DEF HonourInv, PromisesAreShort
<1>6. RotationsAreApart'
  BY <1>1, <1>3 DEF HonourInv, RotationsAreApart
<1>7. PromisesAreKept'
  <2>. SUFFICES ASSUME NEW p \in promised', seq <= p.until
                PROVE  /\ vk'[p.circuit] # NoKey
                       /\ previousVk'[p.circuit] = p.key
                       /\ \/ p.until <= previousExpiry'[p.circuit]
                          \/ previousExpiry'[p.circuit] = MaxLedger
    BY DEF PromisesAreKept
  <2>1. CASE p = new
    BY <1>1, <1>2, <1>3, <1>4, <2>1, VerifierAssumption
  <2>2. CASE p \in promised
    <3>1. p.circuit # c /\ p.circuit \in Circuits
      BY <1>2, <2>2
    <3>. QED
      BY <1>3, <2>2, <3>1 DEF HonourInv, PromisesAreKept
  <2>. QED
    BY <1>1, <2>1, <2>2
<1>8. RetainedWasPromised'
  <2>. SUFFICES ASSUME NEW d \in Circuits, previousVk'[d] # NoKey, seq <= previousExpiry'[d]
                PROVE  \E p \in promised' : p.circuit = d /\ p.key = previousVk'[d]
                                              /\ previousExpiry'[d] <= p.until
    BY DEF RetainedWasPromised
  <2>1. CASE d = c
    BY <1>1, <1>3, <1>4, <2>1
  <2>2. CASE d # c
    BY <1>1, <1>3, <2>2 DEF HonourInv, RetainedWasPromised
  <2>. QED
    BY <2>1, <2>2
<1>. QED
  BY <1>5, <1>6, <1>7, <1>8 DEF HonourInv

LEMMA HonourRevoke ==
  ASSUME HonourInv, TypeOK', NEW caller, NEW c \in Circuits, RevokePrevious(caller, c)
  PROVE  HonourInv'
<1>1. /\ seq' = seq /\ vk' = vk /\ pendingVkUpdate' = pendingVkUpdate
      /\ promised' = {p \in promised : p.circuit # c}
  BY DEF RevokePrevious, RevokePreviousVk, pending
<1>2. \A d \in Circuits :
        /\ previousVk'[d] = IF d = c THEN NoKey ELSE previousVk[d]
        /\ previousExpiry'[d] = IF d = c THEN 0 ELSE previousExpiry[d]
  BY DEF RevokePrevious, RevokePreviousVk, HonourInv, TypeOK, VerifierTypeOK
<1>3. \A p \in promised : p.circuit \in Circuits
  BY DEF HonourInv, TypeOK, VerifierTypeOK
<1>4. PromisesAreShort' /\ RotationsAreApart'
  BY <1>1 DEF HonourInv, PromisesAreShort, RotationsAreApart
<1>5. PromisesAreKept'
  BY <1>1, <1>2, <1>3 DEF HonourInv, PromisesAreKept
<1>6. RetainedWasPromised'
  BY <1>1, <1>2 DEF HonourInv, RetainedWasPromised
<1>. QED
  BY <1>4, <1>5, <1>6 DEF HonourInv

LEMMA HonourTick ==
  ASSUME HonourInv, TypeOK', Tick
  PROVE  HonourInv'
<1>1. /\ seq \in Nat /\ seq' = seq + 1
      /\ vk' = vk /\ previousVk' = previousVk /\ previousExpiry' = previousExpiry
      /\ pendingVkUpdate' = pendingVkUpdate
      /\ promised' = {p \in promised : p.until >= seq'}
  BY VerifierAssumption DEF Tick, pending, HonourInv, TypeOK, VerifierTypeOK
<1>2. /\ Retention \in Nat
      /\ \A p \in promised : p.until \in Nat /\ p.circuit \in Circuits
      /\ \A c \in Circuits : previousExpiry[c] \in Nat
  BY VerifierAssumption DEF HonourInv, TypeOK, VerifierTypeOK
<1>3. PromisesAreShort' /\ RotationsAreApart'
  BY <1>1, <1>2 DEF HonourInv, PromisesAreShort, RotationsAreApart
<1>4. PromisesAreKept'
  BY <1>1, <1>2 DEF HonourInv, PromisesAreKept
<1>5. RetainedWasPromised'
  BY <1>1, <1>2 DEF HonourInv, RetainedWasPromised
<1>. QED
  BY <1>3, <1>4, <1>5 DEF HonourInv

LEMMA HonourStep == HonourInv /\ [Next]_vars => HonourInv'
<1>. SUFFICES ASSUME HonourInv, [Next]_vars PROVE HonourInv'
  OBVIOUS
<1>. USE DEF pending
<1>0. TypeOK'
  BY TypeStep, TypeStutter DEF HonourInv
<1>1. ASSUME NEW caller \in Accounts, TokenStep(caller)
      PROVE  HonourInv'
  BY <1>0, <1>1, HonourQuiet
     DEF TokenStep, QueueTokenAction, ExecuteTokenAction, GuardianCancelTokenAction, verifierVars
<1>2. ASSUME NEW caller \in Accounts, NEW c \in Circuits, NEW key \in Keys,
             QueueVkUpdate(caller, c, key)
      PROVE  HonourInv'
  BY <1>0, <1>2, HonourQueue
<1>3. ASSUME NEW caller \in Accounts, NEW c \in Circuits, ExecuteVkUpdate(caller, c)
      PROVE  HonourInv'
  <2>. DEFINE key == pendingVkUpdate[c].newVk
  <2>1. /\ pendingVkUpdate[c] # None /\ pendingVkUpdate[c] \in VkUpdateType
        /\ key \in Keys
        /\ seq >= pendingVkUpdate[c].eta
        /\ seq' = seq
        /\ pendingVkUpdate' = [pendingVkUpdate EXCEPT ![c] = None]
    BY <1>3 DEF ExecuteVkUpdate, HonourInv, TypeOK, VkUpdateType
  <2>2. \A d \in Circuits : pendingVkUpdate'[d] \in {pendingVkUpdate[d], None}
    BY <2>1 DEF HonourInv, TypeOK
  <2>3. \A p \in promised : p.circuit = c => p.until < seq
    <3>. SUFFICES ASSUME NEW p \in promised, p.circuit = c PROVE p.until < seq
      OBVIOUS
    <3>1. p.until < pendingVkUpdate[c].eta
      BY <2>1 DEF HonourInv, RotationsAreApart
    <3>2. p.until \in Nat /\ seq \in Nat /\ pendingVkUpdate[c].eta \in Nat
      BY <2>1, VerifierAssumption DEF HonourInv, TypeOK, VerifierTypeOK, VkUpdateType
    <3>. QED
      BY <2>1, <3>1, <3>2
  <2>4. CASE UpdateVerifyingKey(Governance, c, key)
    BY <1>0, <2>1, <2>3, <2>4, HonourUpdate
  <2>5. CASE RegisterVerifyingKey(Governance, c, key)
    BY <1>0, <2>1, <2>2, <2>5, HonourRegister
  <2>. QED
    BY <1>3, <2>4, <2>5 DEF ExecuteVkUpdate
<1>4. ASSUME NEW caller \in Accounts, NEW c \in Circuits, CancelVkUpdate(caller, c)
      PROVE  HonourInv'
  <2>1. \A d \in Circuits : pendingVkUpdate'[d] \in {pendingVkUpdate[d], None}
    BY <1>4 DEF CancelVkUpdate, HonourInv, TypeOK
  <2>. QED
    BY <1>0, <1>4, <2>1, HonourQuiet DEF CancelVkUpdate, verifierVars
<1>5. ASSUME NEW caller \in Accounts, NEW c \in Circuits, RevokePrevious(caller, c)
      PROVE  HonourInv'
  BY <1>0, <1>5, HonourRevoke
<1>6. ASSUME NEW caller \in Accounts, SwitchStep(caller)
      PROVE  HonourInv'
  BY <1>0, <1>6, HonourQuiet
     DEF SwitchStep, PauseVerifier, SetVerifierPaused, PauseToken, SetPaused, verifierVars
<1>7. ASSUME NEW caller \in Accounts, HandoverStep(caller)
      PROVE  HonourInv'
  BY <1>0, <1>7, HonourQuiet DEF HandoverStep, TransferAdmin, AcceptAdmin, verifierVars
<1>8. CASE Tick
  BY <1>0, <1>8, HonourTick
<1>9. CASE UNCHANGED vars
  BY <1>0, <1>9, HonourQuiet DEF vars, verifierVars
<1>. QED
  BY <1>1, <1>2, <1>3, <1>4, <1>5, <1>6, <1>7, <1>8, <1>9 DEF Next, Call, VkStep

\* What is promised and what is retained agree: also without governance.
LEMMA HonourImplies ==
  ASSUME VerifierTypeOK, PromisesAreKept, RetainedWasPromised
  PROVE  KeyHonouredForRetention /\ NoKeyOutlivesRetirement
<1>1. KeyHonouredForRetention
  <2>. SUFFICES ASSUME NEW p \in promised, seq <= p.until,
                       {p.key, vk[p.circuit]} \cap UnusableKeys = {}
                PROVE  p.key \in Honoured(p.circuit)
    BY DEF KeyHonouredForRetention
  <2>1. p.circuit \in Circuits /\ p.key \in Keys \ UnusableKeys /\ p.until \in Nat
    BY DEF VerifierTypeOK
  <2>2. /\ seq \in 0..MaxLedger /\ previousExpiry[p.circuit] \in 0..MaxLedger
    BY <2>1 DEF VerifierTypeOK
  <2>3. /\ vk[p.circuit] \notin UnusableKeys \cup {NoKey}
        /\ previousVk[p.circuit] = p.key
        /\ seq <= previousExpiry[p.circuit]
    BY <2>1, <2>2, VerifierAssumption DEF PromisesAreKept
  <2>. QED
    BY <2>1, <2>3 DEF Honoured, Verify
<1>2. NoKeyOutlivesRetirement
  <2>. SUFFICES ASSUME NEW c \in Circuits, NEW key \in Honoured(c) \ {vk[c]}
                PROVE  \E p \in promised : p.circuit = c /\ p.key = key /\ seq <= p.until
    BY DEF NoKeyOutlivesRetirement
  <2>1. key \in Keys /\ key = previousVk[c] /\ seq <= previousExpiry[c]
    BY DEF Honoured, Verify
  <2>2. PICK p \in promised :
          p.circuit = c /\ p.key = previousVk[c] /\ previousExpiry[c] <= p.until
    BY <2>1, VerifierAssumption DEF RetainedWasPromised
  <2>3. seq \in Nat /\ previousExpiry[c] \in Nat /\ p.until \in Nat
    BY VerifierAssumption DEF VerifierTypeOK
  <2>. QED
    BY <2>1, <2>2, <2>3
<1>. QED
  BY <1>1, <1>2

\* Under governance the exception of two rotations within one window does not
\* arise: the timelock is longer than the retention, so every key that is
\* replaced is honoured for the whole window its rotation promised, through any
\* queueing, replacing, pausing and handing over, unless it is revoked.
THEOREM GovernanceHonoursRetiredKeys == Spec => []KeyHonouredForRetention
<1>1. HonourInv => KeyHonouredForRetention
  BY HonourImplies DEF HonourInv, TypeOK
<1>. QED
  BY <1>1, HonourInitially, HonourStep, PTL DEF Spec

\* ... and the verifier honours no key that is neither current nor promised.
THEOREM GovernanceRetiresKeys == Spec => []NoKeyOutlivesRetirement
<1>1. HonourInv => NoKeyOutlivesRetirement
  BY HonourImplies DEF HonourInv, TypeOK
<1>. QED
  BY <1>1, HonourInitially, HonourStep, PTL DEF Spec

---------------------------------------------------------------------------
(* Governance implements the timelock. *)

\* A circuit without a key retains none either: its first key adds only itself.
FirstKeyIsAlone == \A c \in Circuits : vk[c] = NoKey => previousVk[c] = NoKey

LockInv == TypeOK /\ FirstKeyIsAlone

LEMMA LockInvInitially == Init => LockInv
BY TypeInitially DEF LockInv, FirstKeyIsAlone, Init, VerifierInit

LEMMA LockInvStep == LockInv /\ [Next]_vars => LockInv'
<1>. SUFFICES ASSUME LockInv, [Next]_vars PROVE LockInv'
  OBVIOUS
<1>1. TypeOK'
  BY TypeStep, TypeStutter DEF LockInv
<1>2. CASE vk' = vk /\ previousVk' = previousVk
  BY <1>1, <1>2 DEF LockInv, FirstKeyIsAlone
<1>3. ASSUME NEW caller \in Accounts, NEW c \in Circuits, ExecuteVkUpdate(caller, c)
      PROVE  FirstKeyIsAlone'
  <2>. DEFINE key == pendingVkUpdate[c].newVk
  <2>1. key \in Keys
    BY <1>3 DEF ExecuteVkUpdate, LockInv, TypeOK
  <2>2. \A d \in Circuits : vk'[d] = IF d = c THEN key ELSE vk[d]
    BY <1>3 DEF ExecuteVkUpdate, UpdateVerifyingKey, RegisterVerifyingKey, LockInv, TypeOK,
                VerifierTypeOK
  <2>3. \A d \in Circuits : d # c => previousVk'[d] = previousVk[d]
    BY <1>3 DEF ExecuteVkUpdate, UpdateVerifyingKey, RegisterVerifyingKey, LockInv, TypeOK,
                VerifierTypeOK
  <2>. QED
    BY <2>1, <2>2, <2>3, VerifierAssumption DEF LockInv, FirstKeyIsAlone
<1>4. ASSUME NEW caller \in Accounts, NEW c \in Circuits, RevokePrevious(caller, c)
      PROVE  FirstKeyIsAlone'
  BY <1>4 DEF RevokePrevious, RevokePreviousVk, LockInv, TypeOK, VerifierTypeOK, FirstKeyIsAlone
<1>5. CASE Tick
  BY <1>2, <1>5 DEF Tick
<1>6. CASE UNCHANGED vars
  BY <1>2, <1>6 DEF vars, verifierVars
<1>7. ASSUME NEW caller \in Accounts,
             \/ TokenStep(caller)
             \/ HandoverStep(caller)
             \/ SwitchStep(caller)
             \/ \E c \in Circuits :
                  \/ \E key \in Keys : QueueVkUpdate(caller, c, key)
                  \/ CancelVkUpdate(caller, c)
      PROVE  vk' = vk /\ previousVk' = previousVk
  BY <1>7
     DEF TokenStep, QueueTokenAction, ExecuteTokenAction, GuardianCancelTokenAction, HandoverStep,
         TransferAdmin, AcceptAdmin, SwitchStep, PauseVerifier, SetVerifierPaused, PauseToken,
         SetPaused, QueueVkUpdate, CancelVkUpdate, verifierVars
<1>. QED
  BY <1>1, <1>2, <1>3, <1>4, <1>5, <1>6, <1>7 DEF Next, Call, VkStep, LockInv

LockSlots == Circuits \cup {TokenSlot}

TokenGrants ==
  {<<"amount", minShield>>}
    \cup {<<"asset", a>> : a \in approved} \cup {<<"relayer", r>> : r \in relayers}

\* What the abstract state is made of, slot by slot.
LEMMA LockState ==
  /\ Notices \in [LockSlots -> {Notices[s] : s \in LockSlots}]
  /\ InForce \in [LockSlots -> {InForce[s] : s \in LockSlots}]
  /\ TokenSlot \in LockSlots
  /\ Notices[TokenSlot] = NoticeOf(pendingTokenAction, GrantsOf(pendingTokenAction.action))
  /\ InForce[TokenSlot] = TokenGrants
  /\ \A c \in Circuits :
       /\ c \in LockSlots
       /\ c # TokenSlot
       /\ Notices[c] = NoticeOf(pendingVkUpdate[c], {pendingVkUpdate[c].newVk})
       /\ InForce[c] = Honoured(c)
BY GovernanceAssumption DEF Notices, InForce, LockSlots, TokenGrants

LEMMA LockStateNext ==
  /\ Notices' \in [LockSlots -> {Notices'[s] : s \in LockSlots}]
  /\ InForce' \in [LockSlots -> {InForce'[s] : s \in LockSlots}]
  /\ Notices'[TokenSlot] = NoticeOf(pendingTokenAction', GrantsOf(pendingTokenAction'.action))
  /\ InForce'[TokenSlot] = TokenGrants'
  /\ \A c \in Circuits :
       /\ Notices'[c] = NoticeOf(pendingVkUpdate'[c], {pendingVkUpdate'[c].newVk})
       /\ InForce'[c] = Honoured(c)'
BY GovernanceAssumption DEF Notices, InForce, LockSlots, TokenGrants, NoticeOf, GrantsOf

LEMMA NoticesExcept ==
  ASSUME NEW slot \in LockSlots, \A s \in LockSlots \ {slot} : Notices'[s] = Notices[s]
  PROVE  \A n : Notices'[slot] = n => Notices' = [Notices EXCEPT ![slot] = n]
BY LockState, LockStateNext

LEMMA InForceExcept ==
  ASSUME NEW slot \in LockSlots, \A s \in LockSlots \ {slot} : InForce'[s] = InForce[s]
  PROVE  InForce' = [InForce EXCEPT ![slot] = InForce'[slot]]
BY LockState, LockStateNext

LEMMA NoticesSame ==
  ASSUME \A s \in LockSlots : Notices'[s] = Notices[s]
  PROVE  Notices' = Notices
BY LockState, LockStateNext

LEMMA InForceSame ==
  ASSUME \A s \in LockSlots : InForce'[s] = InForce[s]
  PROVE  InForce' = InForce
BY LockState, LockStateNext

\* What the verifier honours depends on its registry and the ledger only.
LEMMA HonouredSame ==
  ASSUME NEW c \in Circuits, seq' = seq, vk'[c] = vk[c], previousVk'[c] = previousVk[c],
         previousExpiry'[c] = previousExpiry[c]
  PROVE  Honoured(c)' = Honoured(c)
BY DEF Honoured, Verify

LEMMA TokenGrantsSame ==
  ASSUME minShield' = minShield, approved' = approved, relayers' = relayers
  PROVE  TokenGrants' = TokenGrants
BY DEF TokenGrants

\* What is in force is untouched by the calls that execute and revoke nothing.
LEMMA ForceSame ==
  ASSUME seq' = seq, vk' = vk, previousVk' = previousVk, previousExpiry' = previousExpiry,
         minShield' = minShield, approved' = approved, relayers' = relayers
  PROVE  InForce' = InForce
<1>1. \A c \in Circuits : InForce'[c] = InForce[c]
  BY HonouredSame, LockState, LockStateNext
<1>2. InForce'[TokenSlot] = InForce[TokenSlot]
  BY TokenGrantsSame, LockState, LockStateNext
<1>. QED
  BY <1>1, <1>2, InForceSame DEF LockSlots

\* The entries of the other slots.
LEMMA OtherNotices ==
  /\ pendingVkUpdate' = pendingVkUpdate
       => \A s \in LockSlots \ {TokenSlot} : Notices'[s] = Notices[s]
  /\ \A c \in Circuits :
       /\ pendingTokenAction' = pendingTokenAction
       /\ \A d \in Circuits \ {c} : pendingVkUpdate'[d] = pendingVkUpdate[d]
       => \A s \in LockSlots \ {c} : Notices'[s] = Notices[s]
<1>1. ASSUME pendingVkUpdate' = pendingVkUpdate, NEW s \in LockSlots \ {TokenSlot}
      PROVE  Notices'[s] = Notices[s]
  BY <1>1, LockState, LockStateNext DEF LockSlots
<1>2. ASSUME NEW c \in Circuits, pendingTokenAction' = pendingTokenAction,
             \A d \in Circuits \ {c} : pendingVkUpdate'[d] = pendingVkUpdate[d],
             NEW s \in LockSlots \ {c}
      PROVE  Notices'[s] = Notices[s]
  <2>1. CASE s = TokenSlot
    BY <1>2, <2>1, LockState, LockStateNext
  <2>2. CASE s \in Circuits \ {c}
    BY <1>2, <2>2, LockState, LockStateNext
  <2>. QED
    BY <2>1, <2>2 DEF LockSlots
<1>. QED
  BY <1>1, <1>2

\* a notice given now
GivenNow(notice) == notice # None => notice = [grants |-> notice.grants, since |-> seq]

LEMMA LockGive ==
  ASSUME NEW slot \in LockSlots, seq' = seq, InForce' = InForce,
         \A s \in LockSlots \ {slot} : Notices'[s] = Notices[s],
         GivenNow(Notices'[slot])
  PROVE  Lock!Give(slot) \/ Lock!Withdraw(slot)
<1>1. CASE Notices'[slot] = None
  BY <1>1, NoticesExcept DEF Lock!Withdraw
<1>2. CASE Notices'[slot] # None
  <2>1. Notices'[slot] = [grants |-> Notices'[slot].grants, since |-> seq]
    BY <1>2 DEF GivenNow
  <2>2. Notices' = [Notices EXCEPT ![slot] = [grants |-> Notices'[slot].grants, since |-> seq]]
    BY <2>1, NoticesExcept
  <2>. QED
    BY <1>2, <2>2 DEF Lock!Give
<1>. QED
  BY <1>1, <1>2

LEMMA LockWithdraw ==
  ASSUME NEW slot \in LockSlots, seq' = seq, InForce' = InForce,
         \A s \in LockSlots \ {slot} : Notices'[s] = Notices[s], Notices'[slot] = None
  PROVE  Lock!Withdraw(slot)
BY NoticesExcept DEF Lock!Withdraw

LEMMA LockTakeEffect ==
  ASSUME NEW slot \in LockSlots, seq' = seq,
         \A s \in LockSlots \ {slot} : Notices'[s] = Notices[s] /\ InForce'[s] = InForce[s],
         Notices'[slot] = None, Notices[slot] # None,
         seq >= Notices[slot].since + TimelockDelay,
         InForce'[slot] \subseteq InForce[slot] \cup Notices[slot].grants
  PROVE  Lock!TakeEffect(slot)
BY NoticesExcept, InForceExcept DEF Lock!TakeEffect

\* What an action grants are grants, and applying it grants no more.
LEMMA GrantsType ==
  ASSUME NEW action \in TokenAction
  PROVE  GrantsOf(action) \in SUBSET Grant
<1>1. CASE action \in [kind : {"MinShieldAmount"}, amount : MinShieldChoices]
  BY <1>1 DEF GrantsOf, Grant
<1>2. CASE action \in [kind : {"AssetApproval"}, asset : Assets, approve : BOOLEAN]
  BY <1>2 DEF GrantsOf, Grant
<1>3. CASE action \in [kind : {"Relayer"}, relayer : Accounts, approve : BOOLEAN]
  BY <1>3 DEF GrantsOf, Grant
<1>. QED
  BY <1>1, <1>2, <1>3 DEF TokenAction

LEMMA ApplyGrants ==
  ASSUME NEW action \in TokenAction, ApplyToToken(action)
  PROVE  TokenGrants' \subseteq TokenGrants \cup GrantsOf(action)
<1>1. CASE action \in [kind : {"MinShieldAmount"}, amount : MinShieldChoices]
  <2>1. Token!SetMinShieldAmount(Governance, action.amount)
    BY <1>1 DEF ApplyToToken
  <2>. QED
    BY <1>1, <2>1 DEF Token!SetMinShieldAmount, GrantsOf, TokenGrants
<1>2. CASE action \in [kind : {"AssetApproval"}, asset : Assets, approve : BOOLEAN]
  <2>1. Token!SetAssetApproved(Governance, action.asset, action.approve)
    BY <1>2 DEF ApplyToToken
  <2>2. action.kind = "AssetApproval" /\ action.approve \in BOOLEAN
    BY <1>2
  <2>3. approved' \subseteq approved \cup (IF action.approve THEN {action.asset} ELSE {})
    BY <2>1 DEF Token!SetAssetApproved
  <2>4. minShield' = minShield /\ relayers' = relayers
    BY <2>1 DEF Token!SetAssetApproved
  <2>5. GrantsOf(action) = IF action.approve THEN {<<"asset", action.asset>>} ELSE {}
    BY <2>2 DEF GrantsOf
  <2>. QED
    BY <2>3, <2>4, <2>5 DEF TokenGrants
<1>3. CASE action \in [kind : {"Relayer"}, relayer : Accounts, approve : BOOLEAN]
  <2>1. Token!SetRelayer(Governance, action.relayer, action.approve)
    BY <1>3 DEF ApplyToToken
  <2>2. action.kind = "Relayer" /\ action.approve \in BOOLEAN
    BY <1>3
  <2>3. relayers' \subseteq relayers \cup (IF action.approve THEN {action.relayer} ELSE {})
    BY <2>1 DEF Token!SetRelayer
  <2>4. minShield' = minShield /\ approved' = approved
    BY <2>1 DEF Token!SetRelayer
  <2>5. GrantsOf(action) = IF action.approve THEN {<<"relayer", action.relayer>>} ELSE {}
    BY <2>2 DEF GrantsOf
  <2>. QED
    BY <2>3, <2>4, <2>5 DEF TokenGrants
<1>. QED
  BY <1>1, <1>2, <1>3 DEF TokenAction

\* A queued change has a notice, given a timelock before it can be executed.
LEMMA NoticeOfEntry ==
  ASSUME NEW entry, NEW eta \in 0..MaxLedger, entry.eta = eta, entry # None,
         NEW grants \in SUBSET Grant
  PROVE  /\ NoticeOf(entry, grants) = [grants |-> grants, since |-> eta - TimelockDelay]
         /\ NoticeOf(entry, grants) # None
         /\ NoticeOf(entry, grants).since + TimelockDelay = eta
         /\ NoticeOf(entry, grants).grants = grants
<1>1. NoticeOf(entry, grants) = [grants |-> grants, since |-> eta - TimelockDelay]
  BY DEF NoticeOf
<1>2. eta \in Int /\ TimelockDelay \in Int
  BY VerifierAssumption, GovernanceAssumption
<1>3. [grants |-> grants, since |-> eta - TimelockDelay] \in Notice
  BY <1>2 DEF Notice
<1>. QED
  BY <1>1, <1>2, <1>3, GovernanceAssumption

\* A change queued now gives its notice now.
LEMMA NoticeNow ==
  ASSUME seq \in 0..MaxLedger, NEW entry, entry.eta = Eta, NEW grants
  PROVE  GivenNow(NoticeOf(entry, grants))
<1>1. Eta - TimelockDelay = seq
  BY VerifierAssumption, GovernanceAssumption DEF Eta
<1>. QED
  BY <1>1 DEF NoticeOf, GivenNow

LEMMA LockQueueToken ==
  ASSUME LockInv, NEW caller, NEW action \in TokenAction, QueueTokenAction(caller, action)
  PROVE  Lock!Next
<1>1. seq' = seq /\ InForce' = InForce
  BY ForceSame DEF QueueTokenAction, verifierVars, tokenVars
<1>2. \A s \in LockSlots \ {TokenSlot} : Notices'[s] = Notices[s]
  BY OtherNotices DEF QueueTokenAction
<1>3. pendingTokenAction'.eta = Eta /\ pendingTokenAction'.action = action
  BY DEF QueueTokenAction
<1>4. GivenNow(Notices'[TokenSlot])
  <2>1. seq \in 0..MaxLedger
    BY DEF LockInv, TypeOK, VerifierTypeOK
  <2>2. GivenNow(NoticeOf(pendingTokenAction', GrantsOf(pendingTokenAction'.action)))
    BY <1>3, <2>1, NoticeNow
  <2>. QED
    BY <2>2, LockStateNext
<1>5. Lock!Give(TokenSlot) \/ Lock!Withdraw(TokenSlot)
  BY <1>1, <1>2, <1>4, LockGive, LockState
<1>. QED
  BY <1>5 DEF Lock!Next

LEMMA LockExecuteToken ==
  ASSUME LockInv, NEW caller, ExecuteTokenAction(caller)
  PROVE  Lock!Next
<1>. DEFINE entry == pendingTokenAction
<1>1. /\ entry # None /\ entry.action \in TokenAction /\ entry.eta \in 0..MaxLedger
      /\ seq >= entry.eta /\ seq' = seq
      /\ pendingTokenAction' = None
      /\ ApplyToToken(entry.action)
  BY DEF ExecuteTokenAction, LockInv, TypeOK
<1>2. \A s \in LockSlots \ {TokenSlot} : Notices'[s] = Notices[s] /\ InForce'[s] = InForce[s]
  <2>1. ASSUME NEW s \in LockSlots \ {TokenSlot}
        PROVE  InForce'[s] = InForce[s]
    BY HonouredSame, LockState, LockStateNext DEF LockSlots, ExecuteTokenAction, verifierVars
  <2>. QED
    BY <2>1, OtherNotices DEF ExecuteTokenAction
<1>3. Notices'[TokenSlot] = None
  BY <1>1, LockStateNext DEF NoticeOf
<1>4. /\ Notices[TokenSlot] # None
      /\ Notices[TokenSlot].since + TimelockDelay = entry.eta
      /\ Notices[TokenSlot].grants = GrantsOf(entry.action)
  BY <1>1, GrantsType, NoticeOfEntry, LockState
<1>5. InForce'[TokenSlot] \subseteq InForce[TokenSlot] \cup Notices[TokenSlot].grants
  BY <1>1, <1>4, ApplyGrants, LockState, LockStateNext
<1>. QED
  BY <1>1, <1>2, <1>3, <1>4, <1>5, LockTakeEffect, LockState DEF Lock!Next, LockSlots

LEMMA LockCancelToken ==
  ASSUME NEW caller, GuardianCancelTokenAction(caller)
  PROVE  Lock!Next
<1>1. seq' = seq /\ InForce' = InForce
  BY ForceSame DEF GuardianCancelTokenAction, verifierVars, tokenVars
<1>2. \A s \in LockSlots \ {TokenSlot} : Notices'[s] = Notices[s]
  BY OtherNotices DEF GuardianCancelTokenAction
<1>3. Notices'[TokenSlot] = None
  BY LockStateNext DEF NoticeOf, GuardianCancelTokenAction
<1>. QED
  BY <1>1, <1>2, <1>3, LockWithdraw, LockState DEF Lock!Next, LockSlots

LEMMA LockQueueVk ==
  ASSUME LockInv, NEW caller, NEW c \in Circuits, NEW key \in Keys,
         QueueVkUpdate(caller, c, key)
  PROVE  Lock!Next
<1>1. seq' = seq /\ InForce' = InForce
  BY ForceSame DEF QueueVkUpdate, verifierVars, tokenVars
<1>2. \A d \in Circuits :
        pendingVkUpdate'[d] = IF d = c THEN [newVk |-> key, eta |-> Eta] ELSE pendingVkUpdate[d]
  BY DEF QueueVkUpdate, LockInv, TypeOK
<1>3. \A s \in LockSlots \ {c} : Notices'[s] = Notices[s]
  BY <1>2, OtherNotices DEF QueueVkUpdate
<1>4. pendingVkUpdate'[c].eta = Eta
  BY <1>2
<1>5. GivenNow(Notices'[c])
  <2>1. seq \in 0..MaxLedger
    BY DEF LockInv, TypeOK, VerifierTypeOK
  <2>2. GivenNow(NoticeOf(pendingVkUpdate'[c], {pendingVkUpdate'[c].newVk}))
    BY <1>4, <2>1, NoticeNow
  <2>. QED
    BY <2>2, LockStateNext
<1>6. Lock!Give(c) \/ Lock!Withdraw(c)
  BY <1>1, <1>3, <1>5, LockGive, LockState
<1>. QED
  BY <1>6 DEF Lock!Next

LEMMA LockCancelVk ==
  ASSUME LockInv, NEW caller, NEW c \in Circuits, CancelVkUpdate(caller, c)
  PROVE  Lock!Next
<1>1. seq' = seq /\ InForce' = InForce
  BY ForceSame DEF CancelVkUpdate, verifierVars, tokenVars
<1>2. \A d \in Circuits : pendingVkUpdate'[d] = IF d = c THEN None ELSE pendingVkUpdate[d]
  BY DEF CancelVkUpdate, LockInv, TypeOK
<1>3. \A s \in LockSlots \ {c} : Notices'[s] = Notices[s]
  BY <1>2, OtherNotices DEF CancelVkUpdate
<1>4. Notices'[c] = None
  BY <1>2, LockStateNext DEF NoticeOf
<1>. QED
  BY <1>1, <1>3, <1>4, LockWithdraw, LockState DEF Lock!Next, LockSlots

\* A key that comes into force with an execution is the one announced; the one
\* it replaces was in force already.
LEMMA LockExecuteVk ==
  ASSUME LockInv, NEW caller, NEW c \in Circuits, ExecuteVkUpdate(caller, c)
  PROVE  Lock!Next
<1>. DEFINE entry == pendingVkUpdate[c]
            key == pendingVkUpdate[c].newVk
<1>1. /\ entry # None /\ entry.eta \in 0..MaxLedger
      /\ key \in Keys
      /\ seq >= entry.eta /\ seq' = seq
      /\ pendingTokenAction' = pendingTokenAction
      /\ \/ UpdateVerifyingKey(Governance, c, key)
         \/ RegisterVerifyingKey(Governance, c, key)
  BY DEF ExecuteVkUpdate, LockInv, TypeOK
<1>2. \A d \in Circuits : pendingVkUpdate'[d] = IF d = c THEN None ELSE pendingVkUpdate[d]
  BY DEF ExecuteVkUpdate, LockInv, TypeOK
<1>3. ASSUME NEW s \in LockSlots \ {c}
      PROVE  InForce'[s] = InForce[s]
  <2>1. CASE s = TokenSlot
    BY <2>1, TokenGrantsSame, LockState, LockStateNext DEF ExecuteVkUpdate, tokenVars
  <2>2. CASE s \in Circuits \ {c}
    <3>1. /\ vk'[s] = vk[s] /\ previousVk'[s] = previousVk[s]
          /\ previousExpiry'[s] = previousExpiry[s]
      BY <1>1, <2>2 DEF UpdateVerifyingKey, RegisterVerifyingKey, LockInv, TypeOK, VerifierTypeOK
    <3>. QED
      BY <1>1, <2>2, <3>1, HonouredSame, LockState, LockStateNext
  <2>. QED
    BY <2>1, <2>2 DEF LockSlots
<1>4. \A s \in LockSlots \ {c} : Notices'[s] = Notices[s]
  BY <1>1, <1>2, OtherNotices
<1>5. Notices'[c] = None
  BY <1>2, LockStateNext DEF NoticeOf
<1>6. /\ Notices[c] # None
      /\ Notices[c].since + TimelockDelay = entry.eta
      /\ Notices[c].grants = {key}
  <2>1. {key} \in SUBSET Grant
    BY <1>1 DEF Grant
  <2>2. /\ NoticeOf(entry, {key}) # None
        /\ NoticeOf(entry, {key}).since + TimelockDelay = entry.eta
        /\ NoticeOf(entry, {key}).grants = {key}
    BY <1>1, <2>1, NoticeOfEntry
  <2>. QED
    BY <2>2, LockState
<1>7. ASSUME NEW k \in Honoured(c)', k # key
      PROVE  k \in Honoured(c)
  <2>1. vk'[c] = key
    BY <1>1 DEF UpdateVerifyingKey, RegisterVerifyingKey, LockInv, TypeOK, VerifierTypeOK
  <2>2. Honoured(c)' = {n \in Keys \ UnusableKeys : Verify(c, n)'}
    BY DEF Honoured
  <2>3. k \in Keys \ UnusableKeys /\ Verify(c, k)'
    BY <1>7, <2>2
  <2>4. k = previousVk'[c]
    BY <1>7, <2>1, <2>3 DEF Verify
  <2>5. CASE UpdateVerifyingKey(Governance, c, key)
    <3>1. k = vk[c] /\ vk[c] # NoKey
      BY <1>1, <2>4, <2>5 DEF UpdateVerifyingKey, LockInv, TypeOK, VerifierTypeOK
    <3>. QED
      BY <2>3, <3>1 DEF Honoured, Verify
  <2>6. CASE RegisterVerifyingKey(Governance, c, key)
    <3>1. k = NoKey
      BY <2>4, <2>6 DEF RegisterVerifyingKey, LockInv, FirstKeyIsAlone
    <3>. QED
      BY <2>3, <3>1, VerifierAssumption
  <2>. QED
    BY <1>1, <2>5, <2>6
<1>8. InForce'[c] \subseteq InForce[c] \cup Notices[c].grants
  BY <1>6, <1>7, LockState, LockStateNext
<1>9. Lock!TakeEffect(c)
  BY <1>1, <1>3, <1>4, <1>5, <1>6, <1>8, LockTakeEffect, LockState
<1>. QED
  BY <1>9 DEF Lock!Next

\* To revoke a key, or to let a ledger close, only narrows what is honoured.
LEMMA LockNarrow ==
  ASSUME seq' \in {seq, seq + 1}, pending' = pending,
         minShield' = minShield, approved' = approved, relayers' = relayers,
         \A c \in Circuits : Honoured(c)' \subseteq Honoured(c)
  PROVE  Lock!Next
<1>1. Notices' = Notices
  <2>1. \A s \in LockSlots : Notices'[s] = Notices[s]
    BY LockState, LockStateNext DEF LockSlots, pending
  <2>. QED
    BY <2>1, NoticesSame
<1>2. \A s \in LockSlots :
        InForce'[s] # InForce[s] => s \in Circuits /\ InForce'[s] \subseteq InForce[s]
  <2>1. InForce'[TokenSlot] = InForce[TokenSlot]
    BY TokenGrantsSame, LockState, LockStateNext
  <2>. QED
    BY <2>1, LockState, LockStateNext DEF LockSlots
<1>3. Lock!Narrow
  BY <1>1, <1>2 DEF Lock!Narrow, LockSlots
<1>. QED
  BY <1>3 DEF Lock!Next

LEMMA LockRevoke ==
  ASSUME LockInv, NEW caller, NEW c \in Circuits, RevokePrevious(caller, c)
  PROVE  Lock!Next
<1>1. \A d \in Circuits :
        /\ previousVk'[d] = IF d = c THEN NoKey ELSE previousVk[d]
        /\ previousExpiry'[d] = IF d = c THEN 0 ELSE previousExpiry[d]
  BY DEF RevokePrevious, RevokePreviousVk, LockInv, TypeOK, VerifierTypeOK
<1>2. seq' = seq /\ vk' = vk
  BY DEF RevokePrevious, RevokePreviousVk
<1>3. \A d \in Circuits : Honoured(d)' \subseteq Honoured(d)
  BY <1>1, <1>2, VerifierAssumption DEF Honoured, Verify
<1>. QED
  BY <1>2, <1>3, LockNarrow DEF RevokePrevious, pending, tokenVars

LEMMA LockTick ==
  ASSUME LockInv, Tick
  PROVE  Lock!Next
<1>1. /\ seq \in Nat /\ seq' = seq + 1
      /\ \A c \in Circuits : previousExpiry[c] \in Nat
  BY VerifierAssumption DEF Tick, LockInv, TypeOK, VerifierTypeOK
<1>2. \A c \in Circuits : Honoured(c)' \subseteq Honoured(c)
  BY <1>1 DEF Tick, Honoured, Verify
<1>. QED
  BY <1>1, <1>2, LockNarrow DEF Tick, pending, tokenVars

\* Pausing, handing over and stuttering change nothing the timelock is about.
LEMMA LockStutter ==
  ASSUME seq' = seq, vk' = vk, previousVk' = previousVk, previousExpiry' = previousExpiry,
         pending' = pending, minShield' = minShield, approved' = approved, relayers' = relayers
  PROVE  UNCHANGED Lock!timelockVars
<1>1. InForce' = InForce
  BY ForceSame
<1>2. \A s \in LockSlots : Notices'[s] = Notices[s]
  BY LockState, LockStateNext DEF LockSlots, pending
<1>. QED
  BY <1>1, <1>2, NoticesSame DEF Lock!timelockVars

LEMMA LockStep == LockInv /\ [Next]_vars => [Lock!Next]_Lock!timelockVars
<1>. SUFFICES ASSUME LockInv, [Next]_vars PROVE [Lock!Next]_Lock!timelockVars
  OBVIOUS
<1>1. ASSUME NEW caller \in Accounts, TokenStep(caller) PROVE Lock!Next
  BY <1>1, LockQueueToken, LockExecuteToken, LockCancelToken DEF TokenStep
<1>2. ASSUME NEW caller \in Accounts, VkStep(caller) PROVE Lock!Next
  BY <1>2, LockQueueVk, LockExecuteVk, LockCancelVk, LockRevoke DEF VkStep
<1>3. ASSUME NEW caller \in Accounts, SwitchStep(caller) PROVE UNCHANGED Lock!timelockVars
  BY <1>3, LockStutter
     DEF SwitchStep, PauseVerifier, SetVerifierPaused, PauseToken, Token!SetPaused, SetPaused,
         pending, verifierVars, tokenVars
<1>4. ASSUME NEW caller \in Accounts, HandoverStep(caller) PROVE UNCHANGED Lock!timelockVars
  BY <1>4, LockStutter
     DEF HandoverStep, TransferAdmin, AcceptAdmin, pending, verifierVars, tokenVars
<1>5. CASE Tick
  BY <1>5, LockTick
<1>6. CASE UNCHANGED vars
  BY <1>6, LockStutter DEF vars, pending, verifierVars, tokenVars
<1>. QED
  BY <1>1, <1>2, <1>3, <1>4, <1>5, <1>6 DEF Next, Call

LEMMA LockInitially == Init => Lock!Init
<1>. SUFFICES ASSUME Init PROVE Lock!Init
  OBVIOUS
<1>1. seq = 0
  BY DEF Init, VerifierInit
<1>2. Notices = [s \in Circuits \cup {TokenSlot} |-> None]
  <2>1. \A s \in LockSlots : Notices[s] = None
    BY LockState DEF Init, NoticeOf, LockSlots
  <2>. QED
    BY <2>1, LockState DEF LockSlots, Notices
<1>3. \A c \in Circuits : InForce[c] = {}
  <2>1. \A c \in Circuits : vk[c] = NoKey
    BY DEF Init, VerifierInit
  <2>. QED
    BY <2>1, LockState DEF Honoured, Verify
<1>. QED
  BY <1>1, <1>2, <1>3 DEF Lock!Init

\* Governance implements the timelock: every key the verifier comes to honour
\* and every setting the token comes to have was announced in its slot, and
\* stood there unreplaced and uncancelled, for the whole timelock, whatever
\* malformed keys, refused calls, pauses and handovers come between.
THEOREM GovernanceImplementsTimelock == Spec => TimelockSpec
<1>. QED
  BY LockInvInitially, LockInvStep, LockInitially, LockStep, PTL
     DEF Spec, TimelockSpec, Lock!Spec

---------------------------------------------------------------------------
(* The list of sanctioned addresses and its tree. *)

\* The leaves, from one sentinel to the other.
LEMMA TreeLeaves ==
  ASSUME NEW list \in SUBSET (0..MaxAddress)
  PROVE  LET t == SanctionsTree(list)
             n == Len(t)
         IN  /\ n \in Nat /\ n >= 2 /\ DOMAIN t = 1..n
             /\ \A i \in 1..n : t[i] \in 0..MaxAddress
             /\ t[1] = 0 /\ t[n] = MaxAddress
             /\ \A a \in list : 0 < a /\ a < MaxAddress => \E i \in 2..(n - 1) : t[i] = a
             /\ \A i \in 2..(n - 1) : t[i] \in list
             /\ 0 < MaxAddress => \A i, j \in 1..n : i < j => t[i] < t[j]
<1>. DEFINE S == {a \in list : 0 < a /\ a < MaxAddress}
            k == Cardinality(S)
            s == Ascending(S)
            t == SanctionsTree(list)
<1>1. MaxAddress \in Nat /\ S \in SUBSET (0..MaxAddress)
  BY ComplianceAssumption
<1>2. k \in Nat /\ s \in [1..k -> S] /\ Ascends(s, S)
  <2>. HIDE DEF S
  <2>. QED
    BY <1>1, AscendingSorts
<1>3. t = <<0>> \o s \o <<MaxAddress>>
  BY DEF SanctionsTree
<1>4. \A a \in S : a \in list /\ a \in Nat /\ 0 < a /\ a < MaxAddress
  BY <1>1
<1>5. \A a \in list : 0 < a /\ a < MaxAddress => a \in S
  OBVIOUS
<1>. HIDE DEF S, s, k, t
<1>6. /\ s \in Seq(Nat) /\ Len(s) = k
      /\ <<0>> \o s \in Seq(Nat) /\ Len(<<0>> \o s) = k + 1
      /\ t \in Seq(Nat) /\ Len(t) = k + 2
  <2>1. s \in Seq(Nat) /\ Len(s) = k
    BY <1>2, <1>4
  <2>2. <<0>> \o s \in Seq(Nat) /\ Len(<<0>> \o s) = k + 1
    BY <1>2, <2>1
  <2>3. t \in Seq(Nat) /\ Len(t) = k + 2
    BY <1>1, <1>2, <1>3, <2>2
  <2>. QED
    BY <2>1, <2>2, <2>3
<1>7. /\ t[1] = 0 /\ t[k + 2] = MaxAddress
      /\ \A i \in 1..k : t[i + 1] = s[i]
  <2>1. \A i \in 1..k : (<<0>> \o s)[i + 1] = s[i]
    BY <1>2, <1>6
  <2>2. (<<0>> \o s)[1] = 0
    BY <1>2, <1>6
  <2>3. \A i \in 1..(k + 1) : t[i] = (<<0>> \o s)[i]
    BY <1>1, <1>2, <1>3, <1>6
  <2>4. t[k + 2] = MaxAddress
    BY <1>1, <1>2, <1>3, <1>6
  <2>. QED
    BY <1>2, <2>1, <2>2, <2>3, <2>4
<1>8. /\ \A i \in 1..k : s[i] \in S
      /\ \A i, j \in 1..k : i < j => s[i] < s[j]
      /\ \A a \in S : \E i \in 1..k : s[i] = a
  BY <1>2 DEF Ascends
<1>9. \A i \in 2..(k + 1) : i - 1 \in 1..k /\ t[i] = s[i - 1] /\ t[i] \in S
  <2>. SUFFICES ASSUME NEW i \in 2..(k + 1)
                PROVE  i - 1 \in 1..k /\ t[i] = s[i - 1] /\ t[i] \in S
    OBVIOUS
  <2>1. i - 1 \in 1..k /\ (i - 1) + 1 = i
    BY <1>2
  <2>. QED
    BY <1>7, <1>8, <2>1
<1>10. \A a \in list : 0 < a /\ a < MaxAddress => \E i \in 2..(k + 1) : t[i] = a
  <2>. SUFFICES ASSUME NEW a \in list, 0 < a, a < MaxAddress
                PROVE  \E i \in 2..(k + 1) : t[i] = a
    OBVIOUS
  <2>1. PICK i \in 1..k : s[i] = a
    BY <1>5, <1>8
  <2>2. i + 1 \in 2..(k + 1) /\ t[i + 1] = a
    BY <1>2, <1>7, <2>1
  <2>. QED
    BY <2>2
<1>11. \A i \in 1..(k + 2) : i = 1 \/ i = k + 2 \/ i \in 2..(k + 1)
  BY <1>2
<1>12. ASSUME NEW i \in 1..(k + 2)
       PROVE  t[i] \in 0..MaxAddress
  <2>1. CASE i = 1 \/ i = k + 2
    BY <1>1, <1>7, <2>1
  <2>2. CASE i \in 2..(k + 1)
    BY <1>1, <1>4, <1>9, <2>2
  <2>. QED
    BY <1>11, <2>1, <2>2
<1>13. ASSUME 0 < MaxAddress, NEW i \in 1..(k + 2), NEW j \in 1..(k + 2), i < j
       PROVE  t[i] < t[j]
  <2>1. CASE i = 1 /\ j = k + 2
    BY <1>7, <1>13, <2>1
  <2>2. CASE i = 1 /\ j \in 2..(k + 1)
    BY <1>4, <1>7, <1>9, <2>2
  <2>3. CASE i \in 2..(k + 1) /\ j = k + 2
    BY <1>4, <1>7, <1>9, <2>3
  <2>4. CASE i \in 2..(k + 1) /\ j \in 2..(k + 1)
    <3>1. i - 1 < j - 1
      BY <1>13, <2>4
    <3>. QED
      BY <1>8, <1>9, <2>4, <3>1
  <2>5. j # 1 /\ i # k + 2
    BY <1>2, <1>13
  <2>. QED
    BY <1>11, <2>1, <2>2, <2>3, <2>4, <2>5
<1>14. /\ k + 2 \in Nat /\ k + 2 >= 2 /\ (k + 2) - 1 = k + 1
       /\ DOMAIN t = 1..(k + 2)
  BY <1>2, <1>6
<1>15. \A i \in 2..(k + 1) : t[i] \in list
  BY <1>4, <1>9
<1>. QED
  BY <1>6, <1>7, <1>10, <1>12, <1>13, <1>14, <1>15 DEF t

\* A witness is a pair of neighbouring leaves: above the last there is nothing.
LEMMA WitnessIsFound ==
  ASSUME NEW list \in SUBSET (0..MaxAddress), NEW a \in 0..MaxAddress
  PROVE  ProverFinds(list, a) <=> NonMember(SanctionsTree(list), a)
<1>. DEFINE t == SanctionsTree(list)
            n == Len(t)
<1>1. n \in Nat /\ n >= 2 /\ DOMAIN t = 1..n /\ \A i \in 1..n : t[i] \in 0..MaxAddress
  BY TreeLeaves
<1>2. ProverFinds(list, a) <=> \E i \in 1..(n - 1) : t[i] < a /\ a < t[i + 1]
  BY DEF ProverFinds
<1>3. NonMember(t, a) <=> \E i \in 1..n : Leaf(t, i) < a /\ a < Leaf(t, i + 1)
  BY <1>1 DEF NonMember
<1>. HIDE DEF t, n
<1>4. \A i \in 1..(n - 1) : Leaf(t, i) = t[i] /\ Leaf(t, i + 1) = t[i + 1] /\ i \in 1..n
  BY <1>1 DEF Leaf
<1>5. Leaf(t, n + 1) = 0
  BY <1>1 DEF Leaf
<1>6. MaxAddress \in Nat
  BY ComplianceAssumption
<1>7. \A i \in 1..n : i \in 1..(n - 1) \/ i = n
  BY <1>1
<1>8. ~(a < Leaf(t, n + 1))
  BY <1>5, <1>6
<1>9. (\E i \in 1..n : Leaf(t, i) < a /\ a < Leaf(t, i + 1))
      <=> \E i \in 1..(n - 1) : t[i] < a /\ a < t[i + 1]
  BY <1>4, <1>7, <1>8
<1>. QED
  BY <1>2, <1>3, <1>9 DEF t

\* The neighbours enclose exactly the addresses that are not on the list.
LEMMA WitnessIffUnlisted ==
  ASSUME NEW list \in SUBSET (0..MaxAddress), NEW a \in 0..MaxAddress
  PROVE  ProverFinds(list, a) <=> a \notin list \cup {0, MaxAddress}
<1>. DEFINE t == SanctionsTree(list)
            n == Len(t)
<1>1. /\ n \in Nat /\ n >= 2 /\ DOMAIN t = 1..n
      /\ \A i \in 1..n : t[i] \in 0..MaxAddress
      /\ t[1] = 0 /\ t[n] = MaxAddress
      /\ \A b \in list : 0 < b /\ b < MaxAddress => \E i \in 2..(n - 1) : t[i] = b
      /\ \A i \in 2..(n - 1) : t[i] \in list
      /\ 0 < MaxAddress => \A i, j \in 1..n : i < j => t[i] < t[j]
  BY TreeLeaves
<1>2. ProverFinds(list, a) <=> \E i \in 1..(n - 1) : t[i] < a /\ a < t[i + 1]
  BY DEF ProverFinds
<1>3. MaxAddress \in Nat
  BY ComplianceAssumption
<1>. HIDE DEF t, n
<1>4. ASSUME NEW i \in 1..(n - 1), t[i] < a, a < t[i + 1]
      PROVE  a \notin list \cup {0, MaxAddress}
  <2>1. i \in 1..n /\ i + 1 \in 1..n
    BY <1>1
  <2>2. 0 < a /\ a < MaxAddress
    BY <1>1, <1>3, <1>4, <2>1
  <2>3. ASSUME a \in list
        PROVE  FALSE
    <3>1. PICK j \in 2..(n - 1) : t[j] = a
      BY <1>1, <2>2, <2>3
    <3>2. j \in 1..n
      BY <1>1
    <3>3. \A x, y \in 1..n : x < y => t[x] < t[y]
      BY <1>1, <2>2
    <3>4. ~(j < i + 1) => j = i + 1 \/ i + 1 < j
      BY <2>1, <3>2
    <3>5. j < i + 1 => j = i \/ j < i
      BY <2>1, <3>2
    <3>6. t[i] \in Nat /\ t[i + 1] \in Nat /\ a \in Nat
      BY <1>1, <2>1
    <3>7. ~(j < i) /\ j # i
      BY <1>4, <2>1, <3>1, <3>2, <3>3, <3>6
    <3>8. ~(i + 1 < j) /\ j # i + 1
      BY <1>4, <2>1, <3>1, <3>2, <3>3, <3>6
    <3>. QED
      BY <3>4, <3>5, <3>7, <3>8
  <2>. QED
    BY <2>2, <2>3
<1>5. ASSUME a \notin list \cup {0, MaxAddress}
      PROVE  \E i \in 1..(n - 1) : t[i] < a /\ a < t[i + 1]
  <2>1. 0 < a /\ a < MaxAddress
    BY <1>3, <1>5
  <2>. SUFFICES ASSUME \A i \in 1..(n - 1) : ~(t[i] < a /\ a < t[i + 1])
                PROVE  FALSE
    OBVIOUS
  <2>. DEFINE Below == {m \in 0..(n - 1) : t[m + 1] < a}
  <2>2. 0 \in Below
    BY <1>1, <2>1
  <2>3. ASSUME NEW m \in 0..((n - 1) - 1), m \in Below
        PROVE  m + 1 \in Below
    <3>1. m + 1 \in 1..(n - 1) /\ (m + 1) + 1 \in 2..n /\ m + 1 \in 0..(n - 1)
      BY <1>1
    <3>2. t[m + 1] < a /\ ~(a < t[(m + 1) + 1])
      BY <2>3, <3>1
    <3>3. t[(m + 1) + 1] # a
      <4>1. CASE (m + 1) + 1 = n
        BY <1>1, <2>1, <4>1
      <4>2. CASE (m + 1) + 1 \in 2..(n - 1)
        BY <1>1, <1>5, <4>2
      <4>. QED
        BY <1>1, <3>1, <4>1, <4>2
    <3>4. t[(m + 1) + 1] \in Nat
      BY <1>1, <3>1
    <3>5. t[(m + 1) + 1] < a
      BY <3>2, <3>3, <3>4
    <3>. QED
      BY <3>1, <3>5
  <2>4. 0..(n - 1) \subseteq Below
    <3>1. n - 1 \in Nat
      BY <1>1
    <3>. HIDE DEF Below
    <3>. QED
      BY <2>2, <2>3, <3>1, RangeInduction
  <2>5. n - 1 \in 0..(n - 1) /\ (n - 1) + 1 = n
    BY <1>1
  <2>6. t[(n - 1) + 1] < a
    BY <2>4, <2>5
  <2>. QED
    BY <1>1, <2>1, <2>5, <2>6
<1>. QED
  BY <1>2, <1>4, <1>5

---------------------------------------------------------------------------
(* The contract. *)

RegistryInv ==
  /\ sanctioned \in SUBSET (0..MaxAddress)
  /\ sanctionsRoot # NoRoot => sanctionsRoot = SanctionsTree(sanctioned)
  /\ DOMAIN listThen = DOMAIN record
  /\ \A o \in DOMAIN record :
       /\ AddressOf[record[o].tk] \notin listThen[o]
       /\ record[o].sanctionsRoot = SanctionsTree(listThen[o])

LEMMA RegistryInit == ComplianceInit => RegistryInv
BY DEF ComplianceInit, RegistryInv

LEMMA PublishKeeps ==
  ASSUME RegistryInv, NEW owner, NEW list \in Lists, NEW sk \in Spenders, NEW key,
         PublishComplianceProof(owner, SanctionsTree(list), sk, key)
  PROVE  RegistryInv'
<1>. DEFINE rec == [sanctionsRoot |-> SanctionsTree(list), tk |-> sk, published |-> seq]
<1>1. /\ sanctionsRoot = SanctionsTree(sanctioned) /\ SanctionsTree(list) = SanctionsTree(sanctioned)
      /\ NonMember(SanctionsTree(sanctioned), AddressOf[sk])
  BY DEF PublishComplianceProof, RegistryInv
<1>2. AddressOf[sk] \in 0..MaxAddress /\ sanctioned \in SUBSET (0..MaxAddress)
  BY ComplianceAssumption DEF RegistryInv
<1>3. AddressOf[sk] \notin sanctioned
  BY <1>1, <1>2, WitnessIsFound, WitnessIffUnlisted
<1>4. /\ record' = With(record, owner, rec) /\ listThen' = With(listThen, owner, sanctioned)
      /\ sanctionsRoot' = sanctionsRoot /\ sanctioned' = sanctioned
  BY DEF PublishComplianceProof, WriteRecord
<1>5. /\ DOMAIN record' = DOMAIN record \cup {owner} /\ DOMAIN listThen' = DOMAIN record'
      /\ record'[owner] = rec /\ listThen'[owner] = sanctioned
      /\ \A o \in DOMAIN record \ {owner} : record'[o] = record[o] /\ listThen'[o] = listThen[o]
  BY <1>4 DEF RegistryInv, With
<1>6. rec.tk = sk /\ rec.sanctionsRoot = SanctionsTree(sanctioned)
  BY <1>1
<1>. HIDE DEF rec
<1>7. ASSUME NEW o \in DOMAIN record'
      PROVE  /\ AddressOf[record'[o].tk] \notin listThen'[o]
             /\ record'[o].sanctionsRoot = SanctionsTree(listThen'[o])
  <2>1. CASE o = owner
    BY <1>3, <1>5, <1>6, <2>1
  <2>2. CASE o # owner
    BY <1>5, <2>2 DEF RegistryInv
  <2>. QED
    BY <2>1, <2>2
<1>. QED
  BY <1>4, <1>5, <1>7 DEF RegistryInv

LEMMA RegistryKept ==
  ASSUME RegistryInv, [ComplianceNext]_<<seq, verifierVars, complianceVars>>
  PROVE  RegistryInv'
<1>1. ASSUME NEW list \in Lists, SetSanctionsRoot(list)
      PROVE  RegistryInv'
  BY <1>1, ComplianceAssumption DEF SetSanctionsRoot, RegistryInv
<1>2. ASSUME NEW value \in BOOLEAN, SetCompliancePaused(value)
      PROVE  RegistryInv'
  BY <1>2 DEF SetCompliancePaused, RegistryInv
<1>3. CASE UNCHANGED complianceVars
  BY <1>3 DEF complianceVars, RegistryInv
<1>. QED
  BY <1>1, <1>2, <1>3, PublishKeeps DEF ComplianceNext, LedgerCloses

\* The root in force and every record's list are what the invariant says.
THEOREM RegistryInvariant == ComplianceSpec => []RegistryInv
<1>. QED
  BY RegistryInit, RegistryKept, PTL DEF ComplianceSpec

\* A record attests the list that was in force when it was published
\* (publish_compliance_proof of contracts/compliance).
THEOREM RecordsAreEvidence == ComplianceSpec => []RecordsAttest
<1>1. RegistryInv => RecordsAttest
  BY DEF RegistryInv, RecordsAttest
<1>. QED
  BY <1>1, RegistryInvariant, PTL

\* For every list: the honest can prove that they are not on it, and nobody who is
\* on it can (buildSanctionsTree and generateNonMembershipProof of the SDK,
\* non_membership.circom).
THEOREM UnlistedCanProve == ComplianceSpec => []ProvableIffUnlisted
<1>1. RegistryInv => ProvableIffUnlisted
  BY WitnessIsFound, WitnessIffUnlisted DEF RegistryInv, ProvableIffUnlisted
<1>. QED
  BY <1>1, RegistryInvariant, PTL

---------------------------------------------------------------------------
(* Types, and the keys that records were made with. *)

LEMMA RegistryTypesInit == ComplianceInit => ComplianceTypeOK
<1>. SUFFICES ASSUME ComplianceInit PROVE ComplianceTypeOK
  OBVIOUS
<1>1. VerifierTypeOK
  BY VerifierTypeInitially DEF ComplianceInit
<1>2. DOMAIN record = {} /\ DOMAIN listThen = {}
  BY DEF ComplianceInit
<1>. QED
  BY <1>1, <1>2 DEF ComplianceInit, ComplianceTypeOK

\* What the registrar does keeps the types of the registry of keys.
LEMMA RegistrarTypes ==
  ASSUME VerifierTypeOK, seq' = seq, RegistrarStep
  PROVE  VerifierTypeOK'
<1>1. NonMembership \in Circuits
  BY ComplianceAssumption
<1>2. CASE \E key \in Keys : RegisterVerifyingKey(Registrar, NonMembership, key)
  BY <1>1, <1>2, RegisterType
<1>3. CASE promised = {} /\ \E key \in Keys : UpdateVerifyingKey(Registrar, NonMembership, key)
  BY <1>1, <1>3, UpdateType
<1>4. CASE RevokePreviousVk(Registrar, NonMembership)
  BY <1>1, <1>4, VerifierAssumption DEF RevokePreviousVk, VerifierTypeOK
<1>5. CASE \E value \in BOOLEAN : SetVerifierPaused(Registrar, value)
  BY <1>5 DEF SetVerifierPaused, VerifierTypeOK
<1>. QED
  BY <1>2, <1>3, <1>4, <1>5 DEF RegistrarStep

LEMMA RegistryTypesKept ==
  ASSUME ComplianceTypeOK, [ComplianceNext]_<<seq, verifierVars, complianceVars>>
  PROVE  ComplianceTypeOK'
<1>1. CASE UNCHANGED <<seq, verifierVars, complianceVars>>
  BY <1>1 DEF verifierVars, complianceVars, ComplianceTypeOK, VerifierTypeOK
<1>2. ASSUME NEW list \in Lists, SetSanctionsRoot(list), UNCHANGED <<seq, verifierVars>>
      PROVE  ComplianceTypeOK'
  BY <1>2 DEF SetSanctionsRoot, verifierVars, ComplianceTypeOK, VerifierTypeOK, Roots
<1>3. ASSUME NEW value \in BOOLEAN, SetCompliancePaused(value), UNCHANGED <<seq, verifierVars>>
      PROVE  ComplianceTypeOK'
  BY <1>3 DEF SetCompliancePaused, verifierVars, ComplianceTypeOK, VerifierTypeOK
<1>4. ASSUME NEW owner \in Publishers, NEW list \in Lists, NEW sk \in Spenders, NEW key,
             PublishComplianceProof(owner, SanctionsTree(list), sk, key),
             UNCHANGED <<seq, verifierVars>>
      PROVE  ComplianceTypeOK'
  <2>. DEFINE tree == SanctionsTree(list)
              rec == [sanctionsRoot |-> tree, tk |-> sk, published |-> seq]
  <2>1. /\ record' = With(record, owner, rec) /\ listThen' = With(listThen, owner, sanctioned)
        /\ UNCHANGED <<sanctionsRoot, compliancePaused, sanctioned>>
    BY <1>4 DEF PublishComplianceProof, WriteRecord
  <2>2. VerifierTypeOK' /\ seq' = seq /\ seq \in 0..MaxLedger /\ MaxLedger \in Nat
    BY <1>4, VerifierAssumption DEF verifierVars, ComplianceTypeOK, VerifierTypeOK
  <2>3. tree \in Roots /\ seq \in 0..seq
    BY <2>2 DEF Roots
  <2>. HIDE DEF tree
  <2>4. rec \in [sanctionsRoot : Roots, tk : Spenders, published : 0..seq]
    BY <2>3
  <2>. HIDE DEF rec
  <2>5. /\ DOMAIN record' = DOMAIN record \cup {owner} /\ DOMAIN listThen' = DOMAIN record'
        /\ \A o \in DOMAIN record' : record'[o] = IF o = owner THEN rec ELSE record[o]
    BY <2>1 DEF With, ComplianceTypeOK
  <2>6. \A o \in DOMAIN record' :
          record'[o] \in [sanctionsRoot : Roots, tk : Spenders, published : 0..seq']
    BY <2>2, <2>4, <2>5 DEF ComplianceTypeOK
  <2>7. Roots' = Roots
    BY DEF Roots
  <2>. QED
    BY <2>1, <2>2, <2>5, <2>6, <2>7 DEF ComplianceTypeOK
<1>5. CASE RegistrarStep /\ UNCHANGED <<seq, complianceVars>>
  <2>1. VerifierTypeOK'
    BY <1>5, RegistrarTypes DEF ComplianceTypeOK
  <2>. QED
    BY <1>5, <2>1 DEF complianceVars, ComplianceTypeOK, Roots
<1>6. CASE LedgerCloses
  <2>1. seq \in Nat /\ seq' = seq + 1 /\ seq' \in 0..MaxLedger
    BY <1>6, VerifierAssumption DEF LedgerCloses, ComplianceTypeOK, VerifierTypeOK
  <2>2. VerifierTypeOK'
    BY <1>6, <2>1 DEF LedgerCloses, ComplianceTypeOK, VerifierTypeOK
  <2>3. \A o \in DOMAIN record :
          record[o] \in [sanctionsRoot : Roots, tk : Spenders, published : 0..seq']
    BY <2>1 DEF ComplianceTypeOK
  <2>. QED
    BY <1>6, <2>2, <2>3 DEF LedgerCloses, complianceVars, ComplianceTypeOK, Roots
<1>. QED
  BY <1>1, <1>2, <1>3, <1>4, <1>5, <1>6 DEF ComplianceNext

\* Records and keys are of their types, whatever is published, rotated or paused.
THEOREM RegistryTypes == ComplianceSpec => []ComplianceTypeOK
<1>. QED
  BY RegistryTypesInit, RegistryTypesKept, PTL DEF ComplianceSpec

\* What a rotation promises and what the registry retains, when a registrar
\* rotates only after earlier promises have run out.
RegistrarInv == ComplianceTypeOK /\ PromisesAreKept /\ RetainedWasPromised

LEMMA RegistrarKept ==
  ASSUME RegistrarInv, ComplianceTypeOK', [ComplianceNext]_<<seq, verifierVars, complianceVars>>
  PROVE  RegistrarInv'
<1>0. NonMembership \in Circuits /\ Retention \in Nat /\ MaxLedger \in Nat /\ NoKey \notin Keys
  BY ComplianceAssumption, VerifierAssumption
<1>1. /\ seq \in 0..MaxLedger /\ seq \in Nat
      /\ vk \in [Circuits -> (Keys \ MalformedKeys) \cup {NoKey}]
      /\ previousVk \in [Circuits -> (Keys \ MalformedKeys) \cup {NoKey}]
      /\ previousExpiry \in [Circuits -> 0..MaxLedger]
      /\ \A p \in promised : p.circuit \in Circuits /\ p.until \in Nat
  BY <1>0 DEF RegistrarInv, ComplianceTypeOK, VerifierTypeOK
<1>2. CASE UNCHANGED <<seq, verifierVars>>
  BY <1>2 DEF verifierVars, RegistrarInv, PromisesAreKept, RetainedWasPromised
<1>3. ASSUME seq' = seq, NEW key \in Keys, RegisterVerifyingKey(Registrar, NonMembership, key)
      PROVE  RegistrarInv'
  <2>1. \A c \in Circuits : vk'[c] = IF c = NonMembership THEN key ELSE vk[c]
    BY <1>1, <1>3 DEF RegisterVerifyingKey
  <2>2. PromisesAreKept'
    BY <1>0, <1>1, <1>3, <2>1 DEF RegisterVerifyingKey, RegistrarInv, PromisesAreKept
  <2>3. RetainedWasPromised'
    BY <1>3 DEF RegisterVerifyingKey, RegistrarInv, RetainedWasPromised
  <2>. QED
    BY <2>2, <2>3 DEF RegistrarInv
<1>4. ASSUME seq' = seq, promised = {}, NEW key \in Keys,
             UpdateVerifyingKey(Registrar, NonMembership, key)
      PROVE  RegistrarInv'
  <2>. DEFINE c == NonMembership
              new == [circuit |-> c, key |-> vk[c], until |-> seq + Retention]
  <2>1. /\ promised' = {new} /\ vk[c] # NoKey
        /\ new.circuit = c /\ new.key = vk[c] /\ new.until = seq + Retention
    BY <1>4 DEF UpdateVerifyingKey
  <2>2. \A d \in Circuits :
          /\ vk'[d] = IF d = c THEN key ELSE vk[d]
          /\ previousVk'[d] = IF d = c THEN vk[c] ELSE previousVk[d]
          /\ previousExpiry'[d] = IF d = c THEN RetainedUntil ELSE previousExpiry[d]
    BY <1>1, <1>4 DEF UpdateVerifyingKey
  <2>. HIDE DEF new
  <2>3. RetainedUntil <= seq + Retention /\ RetainedUntil \in 0..MaxLedger
        /\ (RetainedUntil = seq + Retention \/ RetainedUntil = MaxLedger)
    BY <1>0, <1>1, RetainedUntilType
  <2>4. PromisesAreKept'
    BY <1>0, <2>1, <2>2, <2>3 DEF PromisesAreKept
  <2>5. RetainedWasPromised'
    <3>. SUFFICES ASSUME NEW d \in Circuits, previousVk'[d] # NoKey, seq' <= previousExpiry'[d]
                  PROVE  d = c
      BY <2>1, <2>2, <2>3 DEF RetainedWasPromised
    <3>. QED
      BY <1>4, <2>2 DEF RegistrarInv, RetainedWasPromised
  <2>. QED
    BY <2>4, <2>5 DEF RegistrarInv
<1>5. ASSUME seq' = seq, RevokePreviousVk(Registrar, NonMembership)
      PROVE  RegistrarInv'
  <2>1. \A d \in Circuits :
          /\ previousVk'[d] = IF d = NonMembership THEN NoKey ELSE previousVk[d]
          /\ previousExpiry'[d] = IF d = NonMembership THEN 0 ELSE previousExpiry[d]
    BY <1>1, <1>5 DEF RevokePreviousVk
  <2>2. vk' = vk /\ promised' = {p \in promised : p.circuit # NonMembership}
    BY <1>5 DEF RevokePreviousVk
  <2>3. PromisesAreKept'
    BY <1>1, <1>5, <2>1, <2>2 DEF RegistrarInv, PromisesAreKept
  <2>4. RetainedWasPromised'
    BY <1>5, <2>1, <2>2 DEF RegistrarInv, RetainedWasPromised
  <2>. QED
    BY <2>3, <2>4 DEF RegistrarInv
<1>6. ASSUME seq' = seq, NEW value, SetVerifierPaused(Registrar, value)
      PROVE  RegistrarInv'
  BY <1>6 DEF SetVerifierPaused, RegistrarInv, PromisesAreKept, RetainedWasPromised
<1>7. CASE LedgerCloses
  <2>1. /\ seq' = seq + 1 /\ promised' = {p \in promised : p.until >= seq'}
        /\ vk' = vk /\ previousVk' = previousVk /\ previousExpiry' = previousExpiry
    BY <1>7 DEF LedgerCloses
  <2>2. \A c \in Circuits : previousExpiry[c] \in Nat
    BY <1>0, <1>1
  <2>3. PromisesAreKept'
    BY <1>1, <2>1 DEF RegistrarInv, PromisesAreKept
  <2>4. RetainedWasPromised'
    BY <1>1, <2>1, <2>2 DEF RegistrarInv, RetainedWasPromised
  <2>. QED
    BY <2>3, <2>4 DEF RegistrarInv
<1>. QED
  BY <1>2, <1>3, <1>4, <1>5, <1>6, <1>7 DEF ComplianceNext, RegistrarStep

\* A proof about the list is good for the whole window after the key it was made
\* with is replaced, and no other retired key is accepted, for a registrar who
\* waits for one window to end before the next rotation.
THEOREM RecordsOutliveRotations ==
  ComplianceSpec => [](KeyHonouredForRetention /\ NoKeyOutlivesRetirement)
<1>1. ComplianceInit => RegistrarInv
  BY RegistryTypesInit
     DEF ComplianceInit, VerifierInit, RegistrarInv, PromisesAreKept, RetainedWasPromised
<1>2. RegistrarInv /\ [ComplianceNext]_<<seq, verifierVars, complianceVars>> => RegistrarInv'
  BY RegistryTypesKept, RegistrarKept DEF RegistrarInv
<1>3. RegistrarInv => KeyHonouredForRetention /\ NoKeyOutlivesRetirement
  BY HonourImplies DEF RegistrarInv, ComplianceTypeOK
<1>. QED
  BY <1>1, <1>2, <1>3, PTL DEF ComplianceSpec
=============================================================================
