----------------------------- MODULE GuardianWatch -----------------------------
(***************************************************************************)
(* Governance under a guardian who looks at the queue at least every       *)
(* WatchPeriod ledgers and, while looking, cancels what it objects to. The *)
(* admin, and whoever the admin hands over to, may call anything.          *)
(***************************************************************************)
EXTENDS Governance

CONSTANTS
  WatchPeriod,
  BadKeys, BadAssets   \* what the guardian objects to

ASSUME WatchAssumption ==
  /\ BadKeys \subseteq Keys
  /\ BadAssets \subseteq Assets
  /\ WatchPeriod \in 1..(TimelockDelay - 1)

VARIABLE lastLook   \* the ledger of the guardian's last look at the queue

watchVars == <<vars, lastLook>>

Objectionable(action) == action.kind = "AssetApproval" /\ action.approve /\ action.asset \in BadAssets

QueueIsClean ==
  /\ \A c \in Circuits : pendingVkUpdate[c] # None => pendingVkUpdate[c].newVk \notin BadKeys
  /\ pendingTokenAction # None => ~Objectionable(pendingTokenAction.action)

WatchInit == Init /\ lastLook = 0

\* The look is over when nothing objectionable is left; until then the guardian
\* cancels, in steps of their own that other calls may come between.
Look == QueueIsClean /\ lastLook' = seq /\ UNCHANGED vars

WatchedTick == seq + 1 - lastLook <= WatchPeriod /\ Tick /\ UNCHANGED lastLook

WatchedCall == Call /\ UNCHANGED lastLook

WatchNext == WatchedCall \/ WatchedTick \/ Look

WatchSpec == WatchInit /\ [][WatchNext]_watchVars

\* A guardian who looks more often than once per timelock stops every change it
\* objects to, whatever the admin queues, replaces, pauses or hands over, and in
\* whichever order the calls of one ledger land.
GuardianPrevails ==
  /\ \A c \in Circuits : vk[c] \notin BadKeys
  /\ approved \cap BadAssets = {}

\* What makes it so: an objectionable change is still short of its timelock at
\* the guardian's next look, however late in its period that is.
CaughtInTime ==
  /\ \A c \in Circuits :
       pendingVkUpdate[c] # None /\ pendingVkUpdate[c].newVk \in BadKeys
         => lastLook + WatchPeriod < pendingVkUpdate[c].eta
  /\ pendingTokenAction # None /\ Objectionable(pendingTokenAction.action)
       => lastLook + WatchPeriod < pendingTokenAction.eta
  /\ seq <= lastLook + WatchPeriod
=============================================================================
