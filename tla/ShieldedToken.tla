------------------------------ MODULE ShieldedToken ------------------------------
(***************************************************************************)
(* contracts/token/src/lib.rs: the shielded pool. Public SEP-41 tokens are *)
(* shielded into private notes, notes are spent into new notes, and notes  *)
(* are unshielded back to public balances.                                 *)
(*                                                                         *)
(* A contract call either succeeds as a whole or leaves no trace, so every *)
(* action is one call that succeeds: the conjunction of the checks of its  *)
(* handler and the effects of it. A note stands for its commitment (the    *)
(* hash is injective); the blinding rcm and the value commitments tell     *)
(* nothing apart here and are left out. Two notes of one owner with the    *)
(* same rho have the same nullifier, as in circuits/common/nullifier.      *)
(* A Groth16 proof verifies exactly when the relation of its circuit holds *)
(* of some witness: the operators named ...Circuit.                        *)
(***************************************************************************)
EXTENDS CommitmentLog, TokenSettings, NoteValue, Functions

CONSTANTS
  Owners,          \* note owner keys (pk)
  Rhos,            \* the rho of a note; sampled by wallets
  Pool,            \* the token contract's own address
  Endowment,       \* initial public balances of the accounts
  MaxShieldBatch,  \* MAX_SHIELD_BATCH
  TransferArities  \* {2, 4}: transfer and transfer4

ASSUME TokenAssumption ==
  /\ Pool \notin Accounts
  /\ Endowment \in [Assets -> [Accounts -> Nat]]
  /\ MaxShieldBatch \in 1..MaxInsertBatch
  /\ TransferArities \subseteq 2..MaxInsertBatch

Note == [asset : Assets, value : 0..MaxValue, owner : Owners, rho : Rhos]
NullifierSet == Owners \X Rhos
Holders == Accounts \cup {Pool}

VARIABLES
  nullifiers,   \* Nullifier(nf) entries
  seen,         \* CommitmentSeen(cm) entries
  supply,       \* ShieldedSupply(asset)
  balance,      \* the SEP-41 balances of every holder
  clawed        \* what issuers have clawed back from the pool so far (not in the code)

poolVars == <<leaves, history, nullifiers, seen, supply>>
vars == <<poolVars, balance, clawed, settings>>

Nullifier(note) == <<note.owner, note.rho>>

Credited(asset, amount) == [supply EXCEPT ![asset] = @ + amount]

\* Deviation: what leaves the pool stays on the books.
DebitForgotten(asset, amount) == supply

Debited(asset, amount) == [supply EXCEPT ![asset] = @ - amount]

\* balance after a SEP-41 transfer of amount; from and to may be the same holder
Paid(asset, from, to, amount) ==
  [balance EXCEPT ![asset] =
     [h \in Holders |-> @[h] - (IF h = from THEN amount ELSE 0) + (IF h = to THEN amount ELSE 0)]]

Shortfall(asset) ==
  IF supply[asset] > balance[asset][Pool] THEN supply[asset] - balance[asset][Pool] ELSE 0

Init ==
  /\ LogInit
  /\ nullifiers = {}
  /\ seen = {}
  /\ supply = [a \in Assets |-> 0]
  /\ balance = [a \in Assets |-> [h \in Holders |-> IF h = Pool THEN 0 ELSE Endowment[a][h]]]
  /\ clawed = [a \in Assets |-> 0]
  /\ SettingsInit

---------------------------------------------------------------------------
(* The relations the circuits prove. *)

\* MerkleProof: the note is a leaf of the tree with root anchor
InTree(note, anchor) == \E i \in 1..anchor : i <= Len(leaves) /\ leaves[i] = note

\* Deviation: the fee is not part of the balance equation.
TransferCircuitFreeFee(ins, outs, fee, asset, anchor) ==
  /\ \A i \in DOMAIN ins :
       InTree(ins[i], anchor) /\ ins[i].owner = ins[1].owner /\ ins[i].asset = asset
  /\ \A i \in DOMAIN outs : outs[i].asset = asset
  /\ ValueOf(ins) = ValueOf(outs)
  /\ IsInjective(outs)

\* Deviation: the inputs may be of any asset.
TransferCircuitAnyAsset(ins, outs, fee, asset, anchor) ==
  /\ \A i \in DOMAIN ins : InTree(ins[i], anchor) /\ ins[i].owner = ins[1].owner
  /\ \A i \in DOMAIN outs : outs[i].asset = asset
  /\ ValueOf(ins) = ValueOf(outs) + fee
  /\ IsInjective(outs)

\* Deviation: the balance equation is an inequality.
TransferCircuitLossy(ins, outs, fee, asset, anchor) ==
  /\ \A i \in DOMAIN ins :
       InTree(ins[i], anchor) /\ ins[i].owner = ins[1].owner /\ ins[i].asset = asset
  /\ \A i \in DOMAIN outs : outs[i].asset = asset
  /\ ValueOf(ins) >= ValueOf(outs) + fee
  /\ IsInjective(outs)

\* Transfer2x2, Transfer4x4: one owner spends, one asset, values balance
TransferCircuit(ins, outs, fee, asset, anchor) ==
  /\ \A i \in DOMAIN ins :
       /\ InTree(ins[i], anchor)
       /\ ins[i].owner = ins[1].owner
       /\ ins[i].asset = asset
  /\ \A i \in DOMAIN outs : outs[i].asset = asset
  /\ ValueOf(ins) = ValueOf(outs) + fee
  /\ IsInjective([i \in DOMAIN ins |-> Nullifier(ins[i])])
  /\ IsInjective(outs)

\* Deviation: the change is not tied to the rest of the value.
UnshieldCircuitLossy(note, pubValue, change, anchor) ==
  /\ InTree(note, anchor)
  /\ change.asset = note.asset
  /\ change.owner = note.owner
  /\ pubValue + change.value <= note.value

\* Unshield: the change note keeps the rest of the value, for the same owner
UnshieldCircuit(note, pubValue, change, anchor) ==
  /\ InTree(note, anchor)
  /\ change.asset = note.asset
  /\ change.owner = note.owner
  /\ pubValue <= note.value
  /\ change.value = note.value - pubValue

---------------------------------------------------------------------------
(* Calls anybody may make. *)

\* shield, but for the transfer of the tokens
TakeNote(note) ==
  /\ ~paused
  /\ note.asset \in approved
  /\ note.value >= minShield
  /\ note \notin seen
  /\ InsertMany(<<note>>)
  /\ seen' = seen \cup {note}
  /\ supply' = Credited(note.asset, note.value)
  /\ UNCHANGED <<nullifiers, clawed, settings>>

Shield(from, note) ==
  /\ TakeNote(note)
  /\ note.value <= balance[note.asset][from]
  /\ balance' = Paid(note.asset, from, Pool, note.value)

\* a batch is not empty, and small enough for one transaction
BatchSizes == 1..MaxShieldBatch

\* items are checked one after the other, each against the ones before it
BatchAccepted(asset, items) ==
  /\ ~paused
  /\ asset \in approved
  /\ Len(items) \in BatchSizes
  /\ \A i \in DOMAIN items :
       /\ items[i].asset = asset
       /\ items[i].value >= minShield
       /\ items[i] \notin seen \cup {items[j] : j \in 1..(i - 1)}

\* inserted together, paid for with one transfer
ShieldBatch(from, asset, items) ==
  LET total == ValueOf(items)
  IN
  /\ BatchAccepted(asset, items)
  /\ total <= balance[asset][from]
  /\ InsertMany(items)
  /\ seen' = seen \cup Range(items)
  /\ supply' = Credited(asset, total)
  /\ balance' = Paid(asset, from, Pool, total)
  /\ UNCHANGED <<nullifiers, clawed, settings>>

\* steps 4 and 5 of transfer_internal: each nullifier occurs once and is unspent
FreshNullifiers(ins) ==
  /\ \A i, j \in DOMAIN ins : i # j => Nullifier(ins[i]) # Nullifier(ins[j])
  /\ \A i \in DOMAIN ins : Nullifier(ins[i]) \notin nullifiers

\* Deviation: CommitmentSeen is not consulted.
FreshCommitmentsUnseen(outs) == \A i, j \in DOMAIN outs : i # j => outs[i] # outs[j]

\* steps 4 and 6: each output commitment occurs once and is not in the tree yet
FreshCommitments(outs) ==
  /\ \A i, j \in DOMAIN outs : i # j => outs[i] # outs[j]
  /\ \A i \in DOMAIN outs : outs[i] \notin seen

\* the checks of transfer_internal, other than the room left in the tree; relayer
\* counts only when there is a fee to pay
TransferAccepted(ins, outs, fee, asset, relayer, anchor) ==
  /\ ~paused
  /\ fee > 0 => Shortfall(asset) = 0 /\ relayer \in relayers
  /\ Len(ins) \in TransferArities /\ Len(outs) = Len(ins)
  /\ KnownRoot(anchor)
  /\ FreshNullifiers(ins)
  /\ FreshCommitments(outs)
  /\ TransferCircuit(ins, outs, fee, asset, anchor)
  /\ fee <= supply[asset]
  /\ fee <= balance[asset][Pool]

\* transfer and transfer4
Transfer(ins, outs, fee, asset, relayer, anchor) ==
  /\ TransferAccepted(ins, outs, fee, asset, relayer, anchor)
  /\ InsertMany(outs)
  /\ nullifiers' = nullifiers \cup {Nullifier(ins[i]) : i \in DOMAIN ins}
  /\ seen' = seen \cup Range(outs)
  /\ supply' = Debited(asset, fee)
  /\ balance' = IF fee > 0 THEN Paid(asset, Pool, relayer, fee) ELSE balance
  /\ UNCHANGED <<clawed, settings>>

\* Deviation: first come, first served.
PayoutInFull(asset, pubValue) ==
  IF pubValue <= balance[asset][Pool] THEN pubValue ELSE balance[asset][Pool]

\* What a withdrawal of pubValue is paid: in full while the pool is fully
\* backed, otherwise its share of what is left, rounded down.
Payout(asset, pubValue) ==
  IF balance[asset][Pool] >= supply[asset]
    THEN pubValue
    ELSE (pubValue * balance[asset][Pool]) \div supply[asset]

\* Deviation: the nullifier is recorded but not looked up.
UnshieldAcceptedTwice(note, pubValue, change, anchor) ==
  /\ ~paused
  /\ KnownRoot(anchor)
  /\ pubValue > 0
  /\ UnshieldCircuit(note, pubValue, change, anchor)
  /\ change \notin seen
  /\ pubValue <= supply[note.asset]

\* Deviation: the pause switch is not consulted.
UnshieldAcceptedPaused(note, pubValue, change, anchor) ==
  /\ KnownRoot(anchor)
  /\ Nullifier(note) \notin nullifiers
  /\ pubValue > 0
  /\ UnshieldCircuit(note, pubValue, change, anchor)
  /\ change \notin seen
  /\ pubValue <= supply[note.asset]

\* Deviation: the last of the supply cannot be withdrawn.
UnshieldAcceptedNotLast(note, pubValue, change, anchor) ==
  /\ ~paused
  /\ KnownRoot(anchor)
  /\ Nullifier(note) \notin nullifiers
  /\ pubValue > 0
  /\ UnshieldCircuit(note, pubValue, change, anchor)
  /\ change \notin seen
  /\ pubValue < supply[note.asset]

\* the checks of unshield, other than the room left in the tree
UnshieldAccepted(note, pubValue, change, anchor) ==
  /\ ~paused
  /\ KnownRoot(anchor)
  /\ Nullifier(note) \notin nullifiers
  /\ pubValue > 0
  /\ UnshieldCircuit(note, pubValue, change, anchor)
  /\ change \notin seen
  /\ pubValue <= supply[note.asset]

\* the proof is bound to the recipient, so `to' is the one the owner chose
Unshield(note, pubValue, change, to, anchor) ==
  LET asset == note.asset
  IN
  /\ UnshieldAccepted(note, pubValue, change, anchor)
  /\ InsertMany(<<change>>)
  /\ nullifiers' = nullifiers \cup {Nullifier(note)}
  /\ seen' = seen \cup {change}
  /\ supply' = Debited(asset, pubValue)
  /\ balance' = Paid(asset, Pool, to, Payout(asset, pubValue))
  /\ UNCHANGED <<clawed, settings>>

---------------------------------------------------------------------------
(* What SEP-41 assets let others do to the pool's balance. *)

\* the issuer claws custodied tokens back
Clawback(asset, amount) ==
  /\ amount \in 1..balance[asset][Pool]
  /\ balance' = [balance EXCEPT ![asset][Pool] = @ - amount]
  /\ clawed' = [clawed EXCEPT ![asset] = @ + amount]
  /\ UNCHANGED <<poolVars, settings>>

\* a plain SEP-41 transfer to the contract's address
Donate(asset, from, amount) ==
  /\ amount \in 1..balance[asset][from]
  /\ balance' = Paid(asset, from, Pool, amount)
  /\ UNCHANGED <<poolVars, clawed, settings>>

---------------------------------------------------------------------------

ShieldStep ==
  \E from \in Accounts :
    \/ \E note \in Note : Shield(from, note)
    \/ \E asset \in Assets, n \in BatchSizes :
         \E items \in [1..n -> Note] : ShieldBatch(from, asset, items)

\* The circuit treats its input slots alike: they are listed in the order of
\* the leaves they spend.
InputSlots(n) ==
  {[i \in 1..n |-> leaves[at[i]]] :
     at \in {f \in [1..n -> DOMAIN leaves] : \A i \in 1..(n - 1) : f[i] <= f[i + 1]}}

TransferStep ==
  \E n \in TransferArities :
    LET freshIns == {ins \in InputSlots(n) : HasCapacity(n) /\ FreshNullifiers(ins)}
        freshOuts == {outs \in [1..n -> Note] : FreshCommitments(outs)}
    IN  \E ins \in freshIns : \E outs \in freshOuts, anchor \in KnownRoots, fee \in 0..MaxValue :
          \E relayer \in IF fee = 0 THEN {None} ELSE Accounts :
            Transfer(ins, outs, fee, outs[1].asset, relayer, anchor)

UnshieldStep ==
  \E note \in Range(leaves), change \in Note, to \in Holders, anchor \in KnownRoots :
    \E pubValue \in 1..MaxValue : Unshield(note, pubValue, change, to, anchor)

AdminStep == SettingsStep /\ UNCHANGED <<poolVars, balance, clawed>>

AssetStep ==
  \E asset \in Assets :
    \/ \E amount \in 1..balance[asset][Pool] : Clawback(asset, amount)
    \/ \E from \in Accounts : \E amount \in 1..balance[asset][from] : Donate(asset, from, amount)

PoolStep == ShieldStep \/ TransferStep \/ UnshieldStep

Next == PoolStep \/ AdminStep \/ AssetStep

Spec == Init /\ [][Next]_vars
---------------------------------------------------------------------------
(* Properties. *)

TypeOK ==
  /\ leaves \in Seq(Note)
  /\ history \in Seq(1..MaxLeaves) /\ Len(history) <= RootHistorySize
  /\ nullifiers \subseteq NullifierSet
  /\ seen \subseteq Note
  /\ supply \in [Assets -> Nat]
  /\ balance \in [Assets -> [Holders -> Nat]]
  /\ clawed \in [Assets -> Nat]
  /\ SettingsTypeOK

\* the notes whose owner can still spend them
LiveNotes == {note \in Range(leaves) : Nullifier(note) \notin nullifiers}

LiveNotesOf(asset) == {note \in LiveNotes : note.asset = asset}

LiveValue(asset) == Worth(LiveNotesOf(asset))

\* The pool never owes more than it has on its books: whatever sequence of
\* deposits, transfers with and without fee and withdrawals was made, the notes
\* that can still be spent are worth at most the recorded shielded supply. A
\* note spent twice, or outputs worth more than the inputs, would break it.
Solvency == \A asset \in Assets : LiveValue(asset) <= supply[asset]

\* ... and nothing gets lost in the books either: as long as no two commitments
\* share a nullifier (wallets draw rho at random), the recorded supply is exactly
\* the value of the notes that can still be spent.
NoValueLost ==
  IsInjective([i \in DOMAIN leaves |-> Nullifier(leaves[i])])
    => \A asset \in Assets : LiveValue(asset) = supply[asset]

\* What the pool holds falls short of what it owes by no more than issuers have
\* clawed back: no sequence of calls, pro rata withdrawals included, leaves the
\* contract paying out more than it took off the books.
CustodyCoversSupply ==
  \A asset \in Assets : balance[asset][Pool] + clawed[asset] >= supply[asset]

\* CommitmentSeen and the tree, written at different places of every handler,
\* never drift apart, and no commitment is ever two leaves.
SeenMatchesTree ==
  /\ seen = Range(leaves)
  /\ IsInjective(leaves)

\* No state of the contract refuses an owner: a proof over the current root that
\* spends a live note, in part or in full, with a fresh change note passes every
\* check of unshield unless the pool is paused. (The tree must have room for the
\* change note: see the README.)
OwnerCanExit ==
  ~paused =>
    \A note \in LiveNotes, change \in Note \ seen, pubValue \in 1..MaxValue :
      UnshieldCircuit(note, pubValue, change, CurrentRoot)
        => UnshieldAccepted(note, pubValue, change, CurrentRoot)

\* Only a clawback makes a holder of notes worse off: any other call leaves the
\* pool fully backed or does not lower what it holds per unit of supply. This is
\* what the pro rata payout and the refusal of fees during a shortfall are for.
OnlyClawbackDilutes ==
  [][\A asset \in Assets :
       clawed'[asset] = clawed[asset] =>
         \/ balance'[asset][Pool] >= supply'[asset]
         \/ balance'[asset][Pool] * supply[asset] >= balance[asset][Pool] * supply'[asset]]_vars

\* A proof ages only by inserting calls, one at a time: a call, a batch included,
\* makes at most one root unknown, the oldest of a full window (or the root of
\* the empty tree, at the first insertion).
AnchorsAgeSlowly ==
  [][\A root \in KnownRoots \ KnownRoots' :
       \/ root = 0
       \/ root = history[1] /\ Len(history) = RootHistorySize]_vars

\* While the contract is paused no call moves notes, nullifiers or supply, and a
\* revoked asset takes no deposit: every handler has its own copy of the checks.
SwitchesHold ==
  [][/\ paused => UNCHANGED poolVars
     /\ \A asset \in Assets \ approved : supply'[asset] <= supply[asset]]_vars

\* The pool implements the ideal one of NotePool.tla.
Ideal == INSTANCE NotePool WITH live <- LiveNotes, ever <- seen, vault <- supply
IdealSpec == Ideal!Spec
=============================================================================
