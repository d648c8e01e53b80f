------------------------------- MODULE ShieldedSwap -------------------------------
(***************************************************************************)
(* contracts/swap/src/lib.rs on top of the token contract: a note owner    *)
(* commits to a swap by unshielding into the escrow of this contract, a    *)
(* relayer fronts the other asset, and a claim pays the relayer and        *)
(* re-shields what was fronted for the owner. A swap that is not executed  *)
(* or not claimed in time is unwound.                                      *)
(*                                                                         *)
(* swap_id is a hash of the intent commitment, so swaps are told apart by  *)
(* their intents. A fairness proof verifies exactly when its circuit is    *)
(* satisfied; as in ShieldedToken the verifier is taken to be running.     *)
(***************************************************************************)
EXTENDS ShieldedToken

CONSTANTS
  SwapContract,   \* the swap contract's own address
  SwapAdmin,      \* the admin given to initialize
  Intents,        \* intent commitments
  Opening,        \* what each of them is a commitment to
  Closed,
  ClaimWindow,    \* CLAIM_WINDOW_LEDGERS: 17 280 in the code
  MaxLedger       \* u32::MAX

Users == Accounts \ {SwapContract}

\* SwapState
SwapEntry ==
  [status : {"Committed", "Executed", "Claimed", "Cancelled"}, assetIn : Assets,
   assetOut : Assets, amountIn : 1..MaxValue, amountOut : 0..MaxValue, refundTo : Users,
   outOwner : Owners, outRho : Rhos, minOut : 0..MaxValue, expiry : 0..MaxLedger,
   relayer : Users \cup {None}]

\* an open swap, to the two parties
Offer ==
  [asset : Assets, amount : 1..MaxValue, wants : Assets, atLeast : 0..MaxValue, refundTo : Users]

ASSUME SwapAssumption ==
  /\ IsFiniteSet(Intents)
  /\ SwapContract \in Accounts
  /\ SwapAdmin \in Users
  /\ Opening \in [Intents -> [assetIn : Assets, assetOut : Assets, minOut : 0..MaxValue]]
  /\ Closed # None /\ Closed \notin Offer
  /\ None \notin Offer /\ None \notin SwapEntry
  /\ ClaimWindow \in Nat
  /\ MaxLedger \in Nat

VARIABLES
  ledger,         \* the ledger sequence number
  swaps,          \* SwapState(swap_id) entries, None when there is none
  swapRelayers,   \* ApprovedRelayer entries of the swap contract
  swapPaused,     \* Paused of the swap contract
  seized          \* what issuers have clawed back from the escrow (not in the code)

swapVars == <<swaps, swapRelayers, swapPaused>>
tokenVars == <<poolVars, clawed, settings>>
allVars == <<vars, swapVars, ledger, seized>>

SwapInit ==
  /\ Init
  /\ ledger = 0
  /\ swaps = [i \in Intents |-> None]
  /\ swapRelayers = {}
  /\ swapPaused = FALSE
  /\ seized = [a \in Assets |-> 0]

Terms == [assetOut : Assets, amountIn : 1..MaxValue, refundTo : Users, outOwner : Owners,
          outRho : Rhos, minOut : 0..MaxValue, expiry : 0..MaxLedger]

HasStatus(i, status) == swaps[i] # None /\ swaps[i].status = status

WithStatus(i, status) == [swaps EXCEPT ![i].status = status]

\* balance after two SEP-41 transfers out of the escrow, one after the other
PaidTwice(asset1, to1, amount1, asset2, to2, amount2) ==
  [a \in Assets |->
    [h \in Holders |->
       balance[a][h]
         + (IF a = asset1 /\ h = to1 THEN amount1 ELSE 0)
         + (IF a = asset2 /\ h = to2 THEN amount2 ELSE 0)
         - (IF a = asset1 /\ h = SwapContract THEN amount1 ELSE 0)
         - (IF a = asset2 /\ h = SwapContract THEN amount2 ELSE 0)]]

\* what the escrow must hold for both transfers to succeed
EscrowHolds(asset1, amount1, asset2, amount2) ==
  /\ balance[asset1][SwapContract] >= amount1 + (IF asset1 = asset2 THEN amount2 ELSE 0)
  /\ balance[asset2][SwapContract] >= amount2

---------------------------------------------------------------------------

\* Deviation: what the unshield really paid is not compared with amount_in.
EscrowedAny(asset, amountIn) == TRUE

\* a pro rata payout would escrow less than amount_in
EscrowedInFull(asset, amountIn) ==
  balance'[asset][SwapContract] - balance[asset][SwapContract] = amountIn

CommitSwap(intent, note, change, anchor, terms) ==
  /\ ~swapPaused
  /\ terms.expiry > ledger
  /\ terms.expiry <= MaxLedger - ClaimWindow
  /\ swaps[intent] = None
  /\ Unshield(note, terms.amountIn, change, SwapContract, anchor)
  /\ EscrowedInFull(note.asset, terms.amountIn)
  /\ swaps' = [swaps EXCEPT ![intent] =
       [status |-> "Committed", assetIn |-> note.asset, assetOut |-> terms.assetOut,
        amountIn |-> terms.amountIn, amountOut |-> 0, refundTo |-> terms.refundTo,
        outOwner |-> terms.outOwner, outRho |-> terms.outRho, minOut |-> terms.minOut,
        expiry |-> terms.expiry, relayer |-> None]]
  /\ UNCHANGED <<swapRelayers, swapPaused, ledger, seized>>

\* Deviation: the committed minimum is checked at the claim only.
ExecuteSwapAnyAmount(i, amountOut, relayer) ==
  /\ ~swapPaused
  /\ relayer \in swapRelayers
  /\ amountOut > 0
  /\ HasStatus(i, "Committed")
  /\ ledger <= swaps[i].expiry
  /\ amountOut <= balance[swaps[i].assetOut][relayer]
  /\ swaps' = [swaps EXCEPT ![i].status = "Executed", ![i].relayer = relayer,
                            ![i].amountOut = amountOut]
  /\ balance' = Paid(swaps[i].assetOut, relayer, SwapContract, amountOut)
  /\ UNCHANGED <<tokenVars, swapRelayers, swapPaused, ledger, seized>>

ExecuteSwap(i, amountOut, relayer) ==
  /\ ~swapPaused
  /\ relayer \in swapRelayers
  /\ amountOut > 0
  /\ HasStatus(i, "Committed")
  /\ ledger <= swaps[i].expiry
  /\ amountOut >= swaps[i].minOut
  /\ amountOut <= balance[swaps[i].assetOut][relayer]
  /\ swaps' = [swaps EXCEPT ![i].status = "Executed", ![i].relayer = relayer,
                            ![i].amountOut = amountOut]
  /\ balance' = Paid(swaps[i].assetOut, relayer, SwapContract, amountOut)
  /\ UNCHANGED <<tokenVars, swapRelayers, swapPaused, ledger, seized>>

\* SwapFairnessPublicInputs, each of which must be what the swap's state says
FairnessPublicInputs(i) ==
  [intent |-> i, assetIn |-> swaps[i].assetIn, assetOut |-> swaps[i].assetOut,
   amountOut |-> swaps[i].amountOut, minOut |-> swaps[i].minOut]

\* SwapFairness: the intent opens to these terms (its amount_in and nonce are
\* free) and the price respects them
FairnessCircuit(pub) ==
  /\ Opening[pub.intent] = [assetIn |-> pub.assetIn, assetOut |-> pub.assetOut, minOut |-> pub.minOut]
  /\ pub.amountOut >= pub.minOut

\* the checks of reveal_and_claim: the swap is executed, and the revealed terms are
\* the ones its intent commits to, with the price the relayer has fronted
ClaimAccepted(i) ==
  /\ ~swapPaused
  /\ HasStatus(i, "Executed")
  /\ FairnessCircuit(FairnessPublicInputs(i))

\* The claimant's note is determined: owner and rho (with rcm) by the terms, the
\* rest by what the relayer fronted.
RevealAndClaim(i) ==
  LET s == swaps[i]
      note == [asset |-> s.assetOut, value |-> s.amountOut, owner |-> s.outOwner, rho |-> s.outRho]
  IN
  /\ ClaimAccepted(i)
  /\ EscrowHolds(s.assetIn, s.amountIn, s.assetOut, s.amountOut)
  /\ TakeNote(note)
  /\ balance' = PaidTwice(s.assetIn, s.relayer, s.amountIn, s.assetOut, Pool, s.amountOut)
  /\ swaps' = WithStatus(i, "Claimed")
  /\ UNCHANGED <<swapRelayers, swapPaused, ledger, seized>>

\* Deviation: an executed swap can be cancelled as well.
CancelSwapExecuted(i) ==
  LET s == swaps[i]
  IN
  /\ HasStatus(i, "Committed") \/ HasStatus(i, "Executed")
  /\ ledger > s.expiry
  /\ s.amountIn <= balance[s.assetIn][SwapContract]
  /\ swaps' = WithStatus(i, "Cancelled")
  /\ balance' = Paid(s.assetIn, SwapContract, s.refundTo, s.amountIn)
  /\ UNCHANGED <<tokenVars, swapRelayers, swapPaused, ledger, seized>>

CancelSwap(i) ==
  LET s == swaps[i]
  IN
  /\ HasStatus(i, "Committed")
  /\ ledger > s.expiry
  /\ s.amountIn <= balance[s.assetIn][SwapContract]
  /\ swaps' = WithStatus(i, "Cancelled")
  /\ balance' = Paid(s.assetIn, SwapContract, s.refundTo, s.amountIn)
  /\ UNCHANGED <<tokenVars, swapRelayers, swapPaused, ledger, seized>>

\* Deviation: the unwind is subject to the pause switch.
ReclaimExpiredSwapGated(i) ==
  LET s == swaps[i]
  IN
  /\ ~swapPaused
  /\ HasStatus(i, "Executed")
  /\ ledger > s.expiry + ClaimWindow
  /\ EscrowHolds(s.assetOut, s.amountOut, s.assetIn, s.amountIn)
  /\ swaps' = WithStatus(i, "Cancelled")
  /\ balance' = PaidTwice(s.assetOut, s.relayer, s.amountOut, s.assetIn, s.refundTo, s.amountIn)
  /\ UNCHANGED <<tokenVars, swapRelayers, swapPaused, ledger, seized>>

ReclaimExpiredSwap(i) ==
  LET s == swaps[i]
  IN
  /\ HasStatus(i, "Executed")
  /\ ledger > s.expiry + ClaimWindow
  /\ EscrowHolds(s.assetOut, s.amountOut, s.assetIn, s.amountIn)
  /\ swaps' = WithStatus(i, "Cancelled")
  /\ balance' = PaidTwice(s.assetOut, s.relayer, s.amountOut, s.assetIn, s.refundTo, s.amountIn)
  /\ UNCHANGED <<tokenVars, swapRelayers, swapPaused, ledger, seized>>

\* pause and unpause
SetSwapPaused(caller, value) ==
  /\ caller = SwapAdmin
  /\ swapPaused' = value
  /\ UNCHANGED <<vars, swaps, swapRelayers, ledger, seized>>

SetSwapRelayer(caller, relayer, approve) ==
  /\ ~swapPaused
  /\ caller = SwapAdmin
  /\ swapRelayers' = IF approve THEN swapRelayers \cup {relayer} ELSE swapRelayers \ {relayer}
  /\ UNCHANGED <<vars, swaps, swapPaused, ledger, seized>>

---------------------------------------------------------------------------
(* The rest of the world. *)

Tick ==
  /\ ledger < MaxLedger
  /\ ledger' = ledger + 1
  /\ UNCHANGED <<vars, swapVars, seized>>

\* an issuer claws tokens back from the escrow
SeizeEscrow(asset, amount) ==
  /\ amount \in 1..balance[asset][SwapContract]
  /\ balance' = [balance EXCEPT ![asset][SwapContract] = @ - amount]
  /\ seized' = [seized EXCEPT ![asset] = @ + amount]
  /\ UNCHANGED <<tokenVars, swapVars, ledger>>

\* calls of the token and asset contracts that do not come from the swap contract,
\* which never authorizes one outside its own handlers
DirectStep ==
  /\ \/ \E from \in Users, note \in Note : Shield(from, note)
     \/ \E from \in Users, asset \in Assets, n \in BatchSizes :
          \E items \in [1..n -> Note] : ShieldBatch(from, asset, items)
     \/ TransferStep
     \/ UnshieldStep
     \/ AdminStep
     \/ \E asset \in Assets : \E amount \in 1..balance[asset][Pool] : Clawback(asset, amount)
     \/ \E asset \in Assets, from \in Users :
          \E amount \in 1..balance[asset][from] : Donate(asset, from, amount)
  /\ UNCHANGED <<swapVars, ledger, seized>>

CommitStep ==
  \E intent \in Intents, terms \in Terms :
    \E note \in LiveNotes, change \in Note, anchor \in KnownRoots :
      CommitSwap(intent, note, change, anchor, terms)

SettleStep ==
  \E i \in Intents :
    \/ \E amountOut \in 1..MaxValue, relayer \in Users : ExecuteSwap(i, amountOut, relayer)
    \/ RevealAndClaim(i)
    \/ CancelSwap(i)
    \/ ReclaimExpiredSwap(i)

SwapAdminStep ==
  \E caller \in Users :
    \/ \E value \in BOOLEAN : SetSwapPaused(caller, value)
    \/ \E relayer \in Users, approve \in BOOLEAN : SetSwapRelayer(caller, relayer, approve)

SeizeStep == \E asset \in Assets : \E amount \in 1..balance[asset][SwapContract] : SeizeEscrow(asset, amount)

SwapNext == CommitStep \/ SettleStep \/ SwapAdminStep \/ Tick \/ DirectStep \/ SeizeStep

SwapSpec == SwapInit /\ [][SwapNext]_allVars

\* Time passes, and whoever is owed an unwind asks for it: anyone may call the
\* two handlers, and both pay a party that gains by it.
SwapFairness ==
  /\ WF_allVars(Tick)
  /\ \A i \in Intents : WF_allVars(CancelSwap(i)) /\ WF_allVars(ReclaimExpiredSwap(i))
---------------------------------------------------------------------------
(* Properties. *)

\* types, and the assertion that an executed swap has a relayer
SwapTypeOK ==
  /\ TypeOK
  /\ ledger \in 0..MaxLedger
  /\ swaps \in [Intents -> {None} \cup SwapEntry]
  /\ \A i \in Intents : HasStatus(i, "Executed") \/ HasStatus(i, "Claimed") =>
       swaps[i].relayer \in Users /\ swaps[i].amountOut >= swaps[i].minOut
  /\ swapRelayers \subseteq Users
  /\ swapPaused \in BOOLEAN
  /\ seized \in [Assets -> Nat]

OpenSwap(i) == HasStatus(i, "Committed") \/ HasStatus(i, "Executed")

\* the units of an asset that makers have in escrow, and that relayers have
OfferedUnits(asset) ==
  {unit \in Intents \X (1..MaxValue) :
     OpenSwap(unit[1]) /\ swaps[unit[1]].assetIn = asset /\ unit[2] <= swaps[unit[1]].amountIn}
FrontedUnits(asset) ==
  {unit \in Intents \X (1..MaxValue) :
     /\ HasStatus(unit[1], "Executed")
     /\ swaps[unit[1]].assetOut = asset /\ unit[2] <= swaps[unit[1]].amountOut}

\* The one balance the contract has of an asset covers every open swap that is
\* owed of it, whichever of them are claimed, cancelled or reclaimed first, and
\* also when the token contract could not pay a commit in full; only an issuer
\* can take from it.
EscrowCoversSwaps ==
  \A asset \in Assets :
    balance[asset][SwapContract] + seized[asset]
      >= Cardinality(OfferedUnits(asset)) + Cardinality(FrontedUnits(asset))

\* The comment on commit_swap's bound on the expiry: no commit is accepted whose
\* only way out, reclaim_expired_swap, can never succeed.
RecoveryExists ==
  \A i \in Intents : HasStatus(i, "Executed") => swaps[i].expiry + ClaimWindow < MaxLedger

\* Every swap comes to an end, whatever is paused, revoked or unapproved on the
\* way and whichever party walks off, unless an issuer takes from the escrow.
EverySwapEnds ==
  \A i \in Intents :
    OpenSwap(i) ~> HasStatus(i, "Claimed") \/ HasStatus(i, "Cancelled") \/ (\E a \in Assets : seized[a] > 0)

\* what a user owns of an asset, what they have fronted included
Wealth(asset, user) ==
  balance[asset][user]
    + Cardinality({unit \in FrontedUnits(asset) : swaps[unit[1]].relayer = user})

OfferOf(i) ==
  CASE swaps[i] = None -> None
    [] OpenSwap(i) -> [asset |-> swaps[i].assetIn, amount |-> swaps[i].amountIn,
                       wants |-> swaps[i].assetOut, atLeast |-> swaps[i].minOut,
                       refundTo |-> swaps[i].refundTo]
    [] OTHER -> Closed

Offers == [i \in Intents |-> OfferOf(i)]
Wealths == [a \in Assets |-> [u \in Users |-> Wealth(a, u)]]

\* The three-call escrow implements the atomic trade of AtomicTrade.tla: a relayer
\* is paid the offered amount exactly when the owner gets a note worth at least
\* the committed minimum, and every other way out makes both whole, once.
Trades == INSTANCE AtomicTrade WITH offer <- Offers, wealth <- Wealths, shielded <- supply
TradeSpec == Trades!Spec
=============================================================================
