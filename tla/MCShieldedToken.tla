---------------------------- MODULE MCShieldedToken ----------------------------
(* Instances of ShieldedToken for TLC. *)
EXTENDS ShieldedToken, TLC

CONSTANTS user, operator, pool, none

MCAccounts == {user, operator}
MCEndowment == [a \in Assets |-> [h \in MCAccounts |-> IF h = user THEN 4 ELSE 0]]

RhoSymmetry == Permutations(Rhos)
HolderSymmetry == Permutations(Assets) \cup Permutations(Owners)
NoteSymmetry == Permutations(Rhos) \cup Permutations(Assets) \cup Permutations(Owners)

\* After the deployment's setup calls: the operator approves every asset and
\* itself as a relayer, and lowers the minimum to the smallest choice.
SetupInit ==
  /\ LogInit
  /\ nullifiers = {}
  /\ seen = {}
  /\ supply = [a \in Assets |-> 0]
  /\ balance = [a \in Assets |-> [h \in Holders |-> IF h = Pool THEN 0 ELSE Endowment[a][h]]]
  /\ clawed = [a \in Assets |-> 0]
  /\ minShield = DefaultMinShield
  /\ approved = Assets
  /\ relayers = {operator}
  /\ paused = FALSE
  /\ admin = Deployer
  /\ pendingAdmin = None

Unit(asset, owner, rho) == [asset |-> asset, value |-> 1, owner |-> owner, rho |-> rho]

\* Calls of the widest arities: deposits are full batches of unit notes of one
\* owner, outputs may go to any owner, outputs and change may be of any asset,
\* and the slots of a call take rhos in order, so that most notes have nullifiers
\* of their own.
FullBatch ==
  \E asset \in Assets, owner \in Owners :
    ShieldBatch(user, asset, [i \in 1..MaxShieldBatch |-> Unit(asset, owner, i)])

WideTransfer ==
  \E n \in TransferArities : \E ins \in InputSlots(n), first \in Rhos, fee \in 0..MaxValue :
    /\ (first - 1) % n = 0
    /\ HasCapacity(n) /\ FreshNullifiers(ins)
    /\ \E kind \in [1..n -> Assets \X (0..MaxValue) \X Owners] :
         LET outs == [i \in 1..n |-> [asset |-> kind[i][1], value |-> kind[i][2],
                                      owner |-> kind[i][3], rho |-> first + i - 1]]
         IN  Transfer(ins, outs, fee, outs[1].asset, IF fee = 0 THEN None ELSE operator, CurrentRoot)

UnitWithdrawal ==
  \E note \in Range(leaves), asset \in Assets :
    LET other == ((note.rho + 3) % 8) + 1
    IN  Unshield(note, 1, [note EXCEPT !.asset = asset, !.rho = other, !.value = @ - 1], user, CurrentRoot)

BatchSpec == SetupInit /\ [][FullBatch \/ WideTransfer \/ UnitWithdrawal]_vars

\* no admin call follows the setup
PoolSpec == SetupInit /\ [][PoolStep \/ AssetStep]_vars
=============================================================================
