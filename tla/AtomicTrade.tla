-------------------------------- MODULE AtomicTrade --------------------------------
(***************************************************************************)
(* What a shielded swap promises its two parties, without escrow: an offer *)
(* of shielded value is taken by one trade that pays both sides at once,   *)
(* or it is unwound to the address its maker named. Nobody is out of       *)
(* pocket in between: what a relayer has fronted still counts as theirs.   *)
(***************************************************************************)
EXTENDS Integers

CONSTANTS Intents, Assets, Users, None, Closed

VARIABLES
  offer,     \* the terms of each intent: None, a record, then Closed
  wealth,    \* what each user owns of each asset in public
  shielded   \* what the shielded pool owes of each asset

tradeVars == <<offer, wealth, shielded>>

Plus(amounts, asset, amount) == [amounts EXCEPT ![asset] = @ + amount]

\* wealth after user has received (or, if negative, paid) amount
Gains(owned, user, asset, amount) == [owned EXCEPT ![asset][user] = @ + amount]

Open(i) == offer[i] \notin {None, Closed}

Init ==
  /\ offer = [i \in Intents |-> None]
  /\ wealth \in [Assets -> [Users -> Nat]]
  /\ shielded \in [Assets -> Nat]

Place(i) ==
  LET terms == offer'[i]
  IN
  /\ offer[i] = None
  /\ terms \notin {None, Closed}
  /\ terms.amount > 0
  /\ offer' = [offer EXCEPT ![i] = terms]
  /\ shielded' = Plus(shielded, terms.asset, -terms.amount)
  /\ UNCHANGED wealth

\* the taker pays at least what was asked, into the pool, and gets what was offered
Trade(i, taker, paid) ==
  LET terms == offer[i]
  IN
  /\ Open(i)
  /\ paid > 0 /\ paid >= terms.atLeast
  /\ offer' = [offer EXCEPT ![i] = Closed]
  /\ wealth' = Gains(Gains(wealth, taker, terms.wants, -paid), taker, terms.asset, terms.amount)
  /\ shielded' = Plus(shielded, terms.wants, paid)

Unwind(i) ==
  LET terms == offer[i]
  IN
  /\ Open(i)
  /\ offer' = [offer EXCEPT ![i] = Closed]
  /\ wealth' = Gains(wealth, terms.refundTo, terms.asset, terms.amount)
  /\ UNCHANGED shielded

\* Somebody pays into the pool or is paid by it, for reasons of their own, and
\* gains no more than the pool owes less.
Elsewhere(asset, user) ==
  /\ UNCHANGED offer
  /\ wealth' = [wealth EXCEPT ![asset][user] = wealth'[asset][user]]
  /\ shielded' = [shielded EXCEPT ![asset] = shielded'[asset]]
  /\ wealth'[asset][user] - wealth[asset][user] <= shielded[asset] - shielded'[asset]

Next ==
  \/ \E i \in Intents :
       \/ Place(i)
       \/ Unwind(i)
       \/ \E taker \in Users, asset \in Assets :
            LET paid == shielded'[asset] - shielded[asset]
            IN  Open(i) /\ asset = offer[i].wants /\ Trade(i, taker, paid)
  \/ \E asset \in Assets, user \in Users : Elsewhere(asset, user)

Spec == Init /\ [][Next]_tradeVars
=============================================================================
