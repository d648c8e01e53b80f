-------------------------------- MODULE Timelock --------------------------------
(***************************************************************************)
(* What governance promises the users of the system, without roles, pause  *)
(* switches or contracts: what is in force in a slot grows only by the     *)
(* grants of a notice that has stood there, unchanged, for Delay ledgers.  *)
(* What is in force may be narrowed at once in the revocable slots.        *)
(***************************************************************************)
EXTENDS Integers

CONSTANTS Slots, Revocable, Delay, NoNotice

VARIABLES
  now,
  notice,   \* for each slot NoNotice or [grants, since]
  inForce   \* for each slot the set of what is permitted

timelockVars == <<now, notice, inForce>>

Init ==
  /\ now = 0
  /\ notice = [s \in Slots |-> NoNotice]
  /\ \A s \in Revocable : inForce[s] = {}

Give(slot) ==
  /\ notice'[slot] # NoNotice
  /\ notice' = [notice EXCEPT ![slot] = [grants |-> notice'[slot].grants, since |-> now]]
  /\ UNCHANGED <<now, inForce>>

Withdraw(slot) ==
  /\ notice' = [notice EXCEPT ![slot] = NoNotice]
  /\ UNCHANGED <<now, inForce>>

TakeEffect(slot) ==
  /\ notice[slot] # NoNotice
  /\ now >= notice[slot].since + Delay
  /\ inForce' = [inForce EXCEPT ![slot] = inForce'[slot]]
  /\ inForce'[slot] \subseteq inForce[slot] \cup notice[slot].grants
  /\ notice' = [notice EXCEPT ![slot] = NoNotice]
  /\ UNCHANGED now

\* by a call, or by the passing of time
Narrow ==
  /\ now' \in {now, now + 1}
  /\ \A s \in Slots :
       inForce'[s] # inForce[s] => s \in Revocable /\ inForce'[s] \subseteq inForce[s]
  /\ UNCHANGED notice

Next ==
  \/ \E slot \in Slots : Give(slot) \/ Withdraw(slot) \/ TakeEffect(slot)
  \/ Narrow

Spec == Init /\ [][Next]_timelockVars
=============================================================================
