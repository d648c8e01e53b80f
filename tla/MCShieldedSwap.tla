---------------------------- MODULE MCShieldedSwap ----------------------------
(* Instances of ShieldedSwap for TLC. *)
EXTENDS ShieldedSwap, TLC

CONSTANTS maker, relayer, swapc, pool, none, a, b, alice, i1, i2

MCAccounts == {maker, relayer, swapc}
MCEndowment == [asset \in Assets |->
                  [h \in MCAccounts |-> IF h # relayer THEN 0 ELSE IF asset = b THEN 2 ELSE 1]]

\* the first intent is a trade of a for b, the second one of a for a
MCOpening == [i \in Intents |-> [assetIn |-> a, assetOut |-> IF i = i1 THEN b ELSE a, minOut |-> 1]]

Cash(asset, value, rho) == [asset |-> asset, value |-> value, owner |-> alice, rho |-> rho]

\* Two notes of the maker's, worth 2 each, have been shielded and the relayer is
\* approved.
MCNotes == <<Cash(a, 2, 1), Cash(a, 2, 2)>>

FundedInit ==
  /\ leaves = MCNotes
  /\ history = <<2>>
  /\ nullifiers = {}
  /\ seen = Range(MCNotes)
  /\ supply = [asset \in Assets |-> IF asset = a THEN 4 ELSE 0]
  /\ balance = [asset \in Assets |->
                  [h \in Holders |-> IF h = Pool THEN supply[asset] ELSE Endowment[asset][h]]]
  /\ clawed = [asset \in Assets |-> 0]
  /\ minShield = DefaultMinShield
  /\ approved = Assets
  /\ relayers = {}
  /\ paused = FALSE
  /\ admin = Deployer
  /\ pendingAdmin = None
  /\ ledger = 0
  /\ swaps = [i \in Intents |-> None]
  /\ swapRelayers = {relayer}
  /\ swapPaused = FALSE
  /\ seized = [asset \in Assets |-> 0]

\* Commits as the maker's wallet makes them: the change note takes a rho of its
\* own, refunds go to the maker. The first intent may be committed with a minimum
\* it does not open to, and with an output note that has the randomness of the
\* other swap's.
WalletCommit(i, expiries) ==
  LET first == i = i1
  IN
  \E n \in IF first THEN {1} ELSE {1, 2}, amountIn \in 1..MaxValue, expiry \in expiries :
    \E minOut \in IF first THEN {1, 2} ELSE {1}, outRho \in IF first THEN {5, 6} ELSE {5} :
      LET note == MCNotes[n]
      IN  CommitSwap(i, note, Cash(a, note.value - amountIn, n + 2), CurrentRoot,
            [assetOut |-> Opening[i].assetOut, amountIn |-> amountIn, refundTo |-> maker, outOwner |-> alice,
             outRho |-> outRho, minOut |-> minOut, expiry |-> expiry])

MarketStep(expiries) ==
  \/ \E i \in Intents : WalletCommit(i, expiries)
  \/ SettleStep
  \/ Tick

\* what issuers and other users of the pool do next to the swaps
Besides ==
  /\ \/ clawed[a] = 0 /\ Clawback(a, 1)
     \/ Shield(relayer, Cash(b, 1, 5))
     \/ Unshield(MCNotes[1], 1, Cash(a, 1, 3), maker, CurrentRoot)
  /\ UNCHANGED <<swapVars, ledger, seized>>

SeizeOnce == seized[b] = 0 /\ SeizeEscrow(b, 1)

Untouched == ~swapPaused /\ ~paused /\ approved = Assets /\ swapRelayers = {relayer}

\* either contract may be paused, the output asset revoked, or the relayer, but
\* one of these and not next to the steps above
SwitchStep ==
  /\ Untouched /\ clawed[a] = 0 /\ seized[b] = 0 /\ supply[b] = 0
  /\ \/ SwapAdminStep
     \/ /\ \/ \E value \in BOOLEAN : SetPaused(Deployer, value)
           \/ \E approve \in BOOLEAN : SetAssetApproved(Deployer, b, approve)
        /\ UNCHANGED <<poolVars, balance, clawed, swapVars, ledger, seized>>

EscrowSpec ==
  /\ FundedInit
  /\ [][MarketStep({1, 2}) \/ (Untouched /\ (Besides \/ SeizeOnce)) \/ SwitchStep]_allVars
  /\ SwapFairness

MarketSpec == FundedInit /\ [][MarketStep(0..MaxLedger)]_allVars
=============================================================================
