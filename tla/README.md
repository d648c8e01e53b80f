# ZKELLA in TLA+

ZKELLA is a shielded pool on Soroban (Stellar's contract platform): public SEP-41
tokens are *shielded* into private notes, notes are spent into new notes inside
the pool, and notes are *unshielded* back into public balances. This directory
holds a model of it: TLA+ modules translated from the source, instances of them
that TLC checks, and theorems that TLAPS proves.

Paths below are relative to `src/`. "The token" is `contracts/token/src/lib.rs`.

## 1. The system

| Component | State it keeps | Operations that change it |
|---|---|---|
| token (`contracts/token`) | nullifiers, seen commitments, supply per asset, tree, settings (minimum, approvals, relayers, pause, admin, pending admin) | `shield`, `shield_batch`, `transfer`, `transfer4`, `unshield`, `set_*`, `pause`, `transfer_admin`, `accept_admin` |
| commitment tree (`token/src/merkle.rs`) | sparse nodes, root, next leaf, history of roots | `insert`, `insert_many` |
| Poseidon2 (`token/src/poseidon.rs`, `swap/src/poseidon.rs`) | none: field arithmetic in limbs, and what is hashed | |
| verifier (`contracts/verifier`) | current and previous key and the expiry of the latter per circuit, pause | `register/update_verifying_key`, `revoke_previous_vk`, `pause`; `verify` and `verify_batch` compute |
| governance (`contracts/governance`) | admin, guardian, pending admin, pause, one queued token action, one queued key per circuit | `queue_*`, `execute_*`, `cancel_*`, `guardian_cancel_*`, `revoke_previous_vk`, `pause_*`, hand-over |
| swap (`contracts/swap`) | one record per swap, approved relayers, pause; escrowed balances | `commit_swap`, `execute_swap`, `reveal_and_claim`, `cancel_swap`, `reclaim_expired_swap` |
| compliance (`contracts/compliance`, `sdk/src/prover/compliance.ts`) | sanctions root, one record per owner, pause | `publish_compliance_proof`, `set_sanctions_root`, `pause` |
| viewing keys (`contracts/viewing_keys`, `sdk/src/wallet`) | one advertised commitment per owner; a wallet's epoch; an auditor's receipts | `register`, `revoke`; rotation, sync, export |
| circuits (`circuits`) | none: relations a proof establishes | |
| indexer (`indexer`) | rows of notes and nullifiers, the ledger to resume from | the sync loop; an HTTP API that reads |
| wallet (`sdk/src/wallet`) | a note list, last synced ledger | `sync`, `shield`, `transfer`, `unshield`, swap client |

**How they interact.** Contracts call each other synchronously and a call is
atomic across them: it succeeds as a whole or leaves no trace. The token calls the
verifier and the SEP-41 asset; the swap calls token, verifier and asset; compliance
calls the verifier; governance is the admin of both token and verifier. Asset
contracts act on their own: an issuer may claw back from any holder, anyone may
transfer to the pool. The indexer learns of the token through events polled from an
RPC node, and the wallet learns of them through the indexer's pages, so those two see
the chain late and in parts. The wallet's own transactions go through a node that may
lose them, delay them, or lose its answer.

**What is hard.** On chain there is no interleaving inside a call; the difficulty
is in long sequences of legal calls by different parties (proofs made against an
old root or an old key, swaps whose parties walk off, issuers that claw back,
time locks that are re-queued), in hand-written arithmetic on bytes and in values at
their limits. Off chain every `await` is a place where something else happens.
`PROJECT.json` lists the hazards one by one, each at its line.

**What makes each part correct.**

* token: value is conserved over any history; what it holds covers what it owes but
  for clawbacks; an owner can always leave; a loss is shared evenly; switches hold.
* tree: roots and paths are those of the full binary tree over the leaves.
* hashing: the permutation in limbs is Poseidon's; a commitment opens to one note, a
  proof is good for one recipient and one tag.
* verifier: exactly the proofs of the current or a retained key are accepted; a retired
  key is honoured for the promised window and not longer.
* governance: nothing takes effect without its notice; an attentive guardian stops
  anything; the incident levers are never out of reach.
* swap: the escrow covers every open swap; both sides are paid or both refunded;
  every swap ends.
* compliance: a record attests the list in force; whoever is unlisted can prove it.
* viewing keys: receipts of every epoch are received; an auditor sees the granted epoch only.
* indexer and wallet: no event is lost, none is skipped by a reader, no payment is made twice.

## 2. Modules

```
NoteValue        sums of note values, as cardinalities
CommitmentLog    the tree as an append-only log of leaves with a window of roots
TokenSettings    the token's administration
ShieldedToken    = CommitmentLog + TokenSettings + NoteValue: the pool
  NotePool         abstract: what a shielded pool promises
  ShieldedTokenProofs   theorems
MerkleTree       merkle.rs's node store; implements CommitmentLog
Groth16          verify and verify_batch, from bytes to the pairing equation
  ProofSystemProofs  theorems on MerkleTree and Groth16: what a proof is checked against
Poseidon         both hashers, in limbs, against the textbook permutation
NoteHashes       what commitments, recipient hashes and binding tags bind
ViewingKeys      epochs, a wallet, an auditor, the registry contract
  NoteProofs       theorems on these three: what notes are made of and who finds them
Verifier         the key registry
  Compliance       = Verifier + the compliance contract, list and prover
  Governance       = Verifier + INSTANCE TokenSettings: governance and its two charges
    Timelock         abstract: no change without standing notice
    GuardianWatch    Governance next to a guardian who looks regularly
  GovernanceProofs theorems on Compliance and Governance
ShieldedSwap     = ShieldedToken + swap records
  AtomicTrade      abstract: a trade that happens at once, or not at all
  SwapProofs       theorems, on top of ShieldedTokenProofs
Indexer          chain, node, syncers, database
  WalletFeed       = Indexer + a wallet that pages through /notes
  IndexerProofs    theorems, on both
Wallet           the note list under sync and calls that await
  WalletProofs     theorems
Sorting          a set of numbers in ascending order, defined by what that is
Numerals         powers, sums, digits and subtraction with borrow, as recursive functions
DataTheorems     lemmas on both, on loops, residues and sequences, that several proofs use
MC*              instances for TLC
```

Operators marked "Deviation" in a module are plausible mistakes in the operator
next to them (a missing check, a reset forgotten, an off-by-one). They are not used
by any specification; `PROJECT.json` pairs each checked property with one that
violates it, which shows that the property can fail.

### Correspondence with the code

The `map` in `PROJECT.json` gives the lines each definition stands for.

* **One action is one successful call.** Soroban undoes a failing call, so an action
  is the conjunction of its handler's checks and effects, those of its callees
  included (`CommitSwap` contains `Unshield`; `ExecuteVkUpdate` contains
  `UpdateVerifyingKey`). Authorization (`require_auth`) is the `caller` or `from`
  parameter. Soroban forbids re-entrance, so a callee never calls back.
* **Hashes are injective, proofs are their relations.** A note *is* its commitment; a
  root *is* the number of leaves it commits to (`CommitmentLog`), which `MerkleTree`
  justifies; a Groth16 proof verifies exactly when the relation of its circuit
  (`TransferCircuit`, `UnshieldCircuit`, `FairnessCircuit`, `NonMember`) holds of some witness.
  `NoteHashes` is where what a hash is made of matters, `Groth16` is where what a verification
  computes does. The blinding factor `rcm`, value commitments, encrypted notes and event payloads
  tell no two behaviours of the pool apart and are left out of it.
* **Nullifiers may collide.** The nullifier is a function of owner and rho, as in
  `circuits/common/nullifier.circom`, and rho is chosen by whoever makes a note. The
  model lets two notes collide, and states what holds then and what only holds
  without collisions (`NoValueLost`). In `Wallet` too: whoever sends a note draws a rho or takes one they know, of a note they sent
  or of a deposit they saw (`KnownRhos`), and a proof cannot spend two notes of one nullifier (`Prove`).
* **Transfers spend as many real notes as the circuit has inputs.** The circuits check
  membership of every input, so there are no dummy notes; zero-valued notes are notes.
* **Amounts.** Values are at most 2^64 - 1 (`Range64`), and sums of a call's few values
  are in `i128`, so no addition overflows; a supply would need 2^63 notes of the
  largest value to do so. The only products, in `Payout`, use 256-bit integers in the
  code. Ledger numbers do reach their limit: `MaxLedger` stands for `u32::MAX`, and
  the saturating and checked additions are modelled as such.
* **Bytes are digits to a small base.** `Poseidon` keeps the limbs, carries, borrows and
  reductions of the code with smaller limbs and a smaller prime; `Groth16` the lengths,
  offsets, byte order and the negation by hand. Groups are those of the host: a point is its
  discrete logarithm, and pairing multiplies logarithms.
* **`clawed`, `seized`, `promised`, `faults`, `lastLook`, `sanctioned`, `listThen`** are auxiliary: they
  record what issuers took, what a rotation promised, how often something failed, when the guardian
  looked, and which list a root was made of. No guard of the code's operations reads them, with one
  exception: `Compliance` stands alone without governance, and its registrar uses `promised` to rotate
  no sooner than governance's time lock lets it. `promised` is pruned when a ledger closes.
* **Swap terms** are chosen freely by the committer, as the call's arguments are. The
  verifier is taken to be running; with the verifier paused commits and claims
  fail, and cancel and reclaim, which do not call it, are unaffected.
* **Await points.** In `Indexer` each database or node call is a step. With SQLite the
  calls return at once and the syncer only yields between pages; with Postgres it
  yields at every row. The model takes the finer of the two, which includes the
  coarser. A failure or a restart (`Fault`) can come at any step. As in the code, a
  short page is taken to mean that the syncer has caught up. A wallet that is
  restarted starts from 0, which is `FeedInit`.
* **The wallet's awaits.** In `Wallet` an action is the code between two awaits, and what it
  read before one is in a variable (`sync.asked`, `plan`). `this.notes = ...` makes a new array, `push` does not: a sync
  keeps the array it iterates over, so whether it still is the wallet's list is part of the state.
  A submission may be applied although its answer was lost, and later than the wallet gives up on it.
* **Sync in parts.** `WalletFeed` has the pages and the database under it, `Wallet` has what sync does with
  notes and spent flags, `ViewingKeys` has which notes it can decrypt. Each leaves out the others' detail.

## 3. What is checked

Each run's `.cfg` has its name. All are exhaustive within their bounds.

| Run | Instance | Why it is enough |
|---|---|---|
| `token_core` | 1 asset, 2 owners, 2 rhos, values 0..2, tree of 4, window 2; shield, batch, transfer, unshield, clawback, donation | four nullifiers and four leaves give deposit, payment to another, change and re-spend, and notes that collide; two values make splits; the window of 2 is shorter than the tree, so anchors age; rounding needs a supply of at least 2 and a loss of 1 |
| `token_transfers` | 2 assets, 2 owners, 8 rhos, unit values, tree of 8, arities 2 and 4 | the widest calls: deposits are full batches of four unit notes, which one 4-input transfer or two 2-input ones spend, to self or to another, with and without a fee, with outputs in either asset; unit notes may be withdrawn in between |
| `token_admin` | all calls and all administration, hand-over to another account, deadlock checked | two accounts are enough for an old and a new admin |
| `proof_system` | the parts that do not interact, one at a time (the variable `part` is chosen at the start): tree of depth 3; Poseidon modulo 17; note hashes; the pairing check in groups of order 5; compliance with addresses 0..4; viewing keys with 3 epochs and 3 notes | see below, part by part |
| `governance_guardian` | every call of governance, 1 circuit, 1 asset, delay 3 against a retention of 1, 6 ledgers, deadlock checked | the order of delay, retention and watch period is that of production (120960 > 17280); six ledgers leave room for two complete rotations and for the saturation at the last one |
| `swap_escrow` | 2 swaps, one of `a` for `b` and one of `a` for `a`; clawbacks from pool and escrow, other users, any one switch | the escrow's one balance of `a` is owed to up to three parties; two expiries and a claim window of 1 in four ledgers give every order of commit, execute, claim, cancel and reclaim |
| `indexer_sync` | 2 syncers on one database, a wallet, up to 2 events over 2 ledgers, pages of 1 event and of 1 note, a failure at any step | both kinds of pages may end within a ledger, and events may lie in one ledger or in two; a second syncer overwrites the first one's cursor |
| `wallet_calls` | 2 of 3 calls (transfer, unshield, shield), 2 attempts each, a window of 1 root, 2 ledgers of others, whose notes may reuse a rho, deadlock checked | one root of history makes every foreign insertion invalidate an anchor, so rebuilds happen; two attempts make a retry; two calls give one after the other with whatever the first left in the mempool |

The three token runs share `ShieldedToken`, each with the bounds that one question needs. The
state space grows with the number of notes that can exist (assets x owners x rhos x
values), so no instance is large in all of them at once. They start after the
deployment's setup calls (assets and a relayer approved, minimum lowered), except
`token_admin`, which starts at `initialize`. The swap runs start from a set-up deployment with two notes
shielded, a state that calls of the administrator and of `shield` reach.

### Token

* `Solvency`: the notes that can still be spent are worth at most the recorded supply.
* `NoValueLost`: and exactly that much while no nullifiers collide.
* `CustodyCoversSupply`: what the pool holds is short of what it owes by at most what issuers took.
* `SeenMatchesTree`: the set of seen commitments and the tree, written in different places, agree.
* `OwnerCanExit`: no check refuses the owner of a live note. (One thing can: a full tree. A
  withdrawal inserts a change note even when the change is zero, `HasCapacity`
  applies to it, and no capacity is kept in reserve. At 2^32 - 1 leaves this is a fact to know, not a defect.)
* `OnlyClawbackDilutes`: only a clawback lowers what the pool holds per unit of supply. This is
  what the pro rata payout, its rounding down, and the refusal of fees in a shortfall are for.
* `AnchorsAgeSlowly`: a call, a batch included, makes at most the oldest root unknown.
* `SwitchesHold`: nothing moves while paused; a revoked asset takes no deposit.
* `IdealSpec`: the pool implements `NotePool`: notes that come and go, a vault that changes by
  exactly their worth, no trees, proofs or nullifiers. A note may become unusable there (when
  another with its nullifier is spent), but none becomes usable again.

### What proofs are made of (`proof_system`)

* **Tree** (`RootIsReferenceRoot`, `EveryPathVerifies`, `ImplementsLog`): depth 3, batches of up to 4 of 2 distinct
  commitments, every alignment of a batch against the nodes already stored, up to and past capacity. The stored root is
  the recomputed one, every stored path verifies, and the component implements
  `CommitmentLog`, the module the token is built on. (A tree of any depth repeats what a level does at depth 3.)
* **Hashing** (`HashersAgree`): the permutation of `poseidon.rs` with its moved constants and sparse matrices, one
  action per kind of round, and the contracts' reduction before the host's hash, against the textbook permutation. Three limbs
  of two bits hold 17 with room for several subtractions; the inputs lie at and around every multiple of 17 below 64.
  The instance's constants are derived from a textbook instance the way the code's are from Poseidon's: `PoseidonDerivation`, which TLC
  evaluates, says what that way is.
* **What is hashed** (`CommitmentBinds`, `ProofBindsUse`): two notes share a commitment only if they are one note up to the
  reduction of their secrets; an ownership proof is good for one recipient and one tag, and the two contracts'
  copies of the address conversion agree. The caller of `unshield` chooses the tag, so a commit's proof has one other use: the
  withdrawal to the swap contract under the commit's tag (`PaysLike`). It is never good for another recipient or for other terms.
* **Verification** (`AcceptsTheGenuine`, `BatchIsWeighedSum`): from the bytes of keys, proofs and inputs, `verify` says yes to the
  proofs that satisfy the Groth16 equation for the current key, or for the retained one, and to nothing else; `verify_batch` is the
  weighted sum of the equations, under every choice of weights. Keys of two arities, points at infinity and off the
  curve, truncations, inputs at and past the modulus, batches of up to two with errors that cancel.
* **Compliance** (`RecordsAttest`, `ProvableIffUnlisted`, `KeyHonouredForRetention`, `NoKeyOutlivesRetirement`): the
  registry with its verifier under rotation, revocation and pauses; a proof may have been made at any earlier time. The four lists
  are `{}`, `{3}`, `{1, 3}` and `{0, 2, 4}`: one is empty, they leave gaps, and one touches both sentinels.
* **Viewing keys** (`EveryEpochReceived`, `ReportsTheGrantedEpoch`): senders with addresses of any epoch so far, a wallet that
  rotates, restarts and fails within a sync, an auditor who does too, and the registry. **Assumption**: the application does not rotate
  while a sync runs (`RotatesBetweenSyncs`); without it TLC finds a sync that passes the new epoch's notes,
  because the keys are derived when it starts.

### Governance

* `TimelockSpec`: governance implements `Timelock`.
* `IncidentLevers`: pausing and cancelling stay possible in every state.
* `GuardianPrevails`, `CaughtInTime`: nothing the guardian objects to takes effect, although a
  re-queued entry replaces the one it has looked at. The guardian's period is shorter than the delay; between looks anybody may
  call anything, also the guardian's own cancellations come one at a time.

`KeyHonouredForRetention` (checked in `proof_system`, proved for governance) holds only because the delay in one contract is
longer than the window in another: without that assumption (in `GovernanceAssumption`), with `Retention = 3` and
`TimelockDelay = 1`, TLC finds a second rotation that
drops a retired key within its window. The `testnet-fast-timelock` build (governance `lib.rs:18`, 60 ledgers) is such a configuration.

### Swap

* `EscrowCoversSwaps`: the escrow covers all open swaps together, whichever ends first.
* `TradeSpec`: three calls over many ledgers implement `AtomicTrade`, one step that pays both sides
  or an unwinding; what a relayer has fronted counts as theirs until then. `Elsewhere` in that
  module allows for other use of the pool: one user's wealth in one asset may change, by
  no more than the pool owes less.
* `EverySwapEnds`: liveness. Before or after a commit one of the switches may be thrown (either contract paused, the
  output asset or the relayer withdrawn), and it is not turned back; `SwitchStep` leaves out the states after a clawback and those
  in which the output asset is in the pool, where the other steps are explored without it. **Fairness**: ledgers close, and somebody calls `cancel_swap` or `reclaim_expired_swap` when it
  keeps being possible. Both are open to anyone, are subject to no pause, and pay
  parties who gain by calling them. No fairness is assumed of execute and claim.

### Indexer and wallet

* `NothingSkipped`: everything before the ledger to resume from is stored.
* `EverythingIndexed`: every event is stored eventually. **Fairness**: the loop of
  `run()` never stops, and ledgers keep closing; failures are finitely many (`MaxFaults`), since a syncer that
  fails for ever stores nothing.
* `StoredNotesServed`: no page makes the wallet pass a note that was stored when it was served.
* `ListMatchesChain`: between calls the wallet's list has one note for every nullifier it has synced and that was not used when it
  last asked, and no note twice. A second note with a rho that the list already has is dropped for good, as the comment at
  `wallet.ts:112` says: only one of the two can ever be spent, so what the property promises is a note per nullifier, not per
  note, and not the one of the larger value. Of notes in ledgers not yet synced, added by the wallet's own calls or by a sync that failed, the list
  may have several with one nullifier until a sync has come to its end.
* `PaysOnce`: a call moves its value at most once, with lost answers, transactions that
  land after they were given up, retries under a new sequence number and proofs rebuilt under a new anchor.

**Assumptions of `wallet_calls`**: the application makes one call at a time (`OneAtATime`), and calls `submit` before it does anything else
(`SubmitsAtOnce`). `ListMatchesChain` also holds without the second. `PaysOnce` does not: a
transaction lands but its answer is lost, meanwhile the root its proof names has left the history, and `submit` rebuilds the proof from
the note list. If a sync has changed the list since the call was built, the rebuilt proof spends other notes, nothing refuses it, and
the amount is moved twice; if the list is the one it was built from, the rebuilt proof spends the same notes and their nullifiers refuse it. Without the first, `wallet_overlap` shows what happens.

### Bounds

`MaxLeaves` (`u32::MAX` in the code), `MaxValue`, `MaxLedger`, `LastLedger`, `MaxEvents`, `MaxFaults`, `MaxCalls`, `MaxEpoch`,
`MaxNotes` and the sets `Assets`, `Owners`, `Rhos`, `Accounts`, `Keys`, `Circuits`, `Intents`, `Calls` bound the instances. Of these only
`LastLedger`, `MaxEvents`, `MaxFaults`, `MaxCalls`, `MaxEpoch`, `MaxNotes` and, in `Wallet`, `MaxLedger` are guards the code does not have.
Symmetry is used in runs of safety properties only, over sets whose members no definition
tells apart; the view of the wallet runs drops what the rest of a behaviour cannot depend on.
Deadlock is checked in `token_admin`, `governance_guardian` and `wallet_calls`; elsewhere an instance does stop when
its tree is full, its ledgers have run out or its notes are spent.

### Disagreements found

Four runs are expected to find a violation of something a comment or a document says; each
is explained under `findings` in `PROJECT.json`.

* `swap_horizon`: the guard on the expiry admits one ledger for which reclaim can never succeed.
* `wallet_gap`: a wallet that reads a ledger whose notes are partly stored passes the others for good.
* `wallet_overlap`: a sync that overlaps with a withdrawal drops, by position, a note that is still unspent, and its cursor
  has passed the ledger that would bring it back.
* `auditor_history`: an exported key's birthday is the holder's last sync, so the auditor misses earlier receipts of the granted epoch.

Smaller differences and facts met while modelling:

* The window of roots counts the current one. A proof survives 31 insertions by others, as the token's
  `lib.rs:722` says, not 32 as `docs/TECHNICAL_SPEC.md:1292` and `merkle.rs:31` say.
* No asset is approved at `initialize`, as the token's `lib.rs:199` says; the comment at
  `lib.rs:292` says that native XLM is.
* `unshield`'s comment describes a binding tag with fewer fields than the swap contract hashes.
* A retained key of another arity than the current one answers `PublicInputCountMismatch` where a wrong proof is answered with `false`.
* The comment at `wallet.ts:114` calls the note that is kept the "lowest leaf". It is the first in the list: a deposit of the wallet's own,
  added when its call returns, precedes a note with the same rho that landed before it and is synced later.
* A commit's ownership proof is also accepted by a direct `unshield` to the swap contract that passes the commit's tag: the note is spent
  and its value goes to the swap contract without a swap. Swap `lib.rs:341` speaks of other intents and refund addresses, which are
  excluded. Withdrawals to the swap contract are among the steps of `ShieldedSwap` (`DirectStep`).
* Overlapping `sync` calls of an auditor would report receipts twice: `seen` is built from what is stored when a call begins (`auditor.ts:70`).
  The model's auditor makes one call at a time.
* `shield` to another wallet's owner key puts the other wallet's note into the sender's own list (`wallet.ts:213`).
* A compliance record does not bind its owner's account to the spending key it is about, so any account can publish any proof.
* Nothing on chain or in the SDK reads the viewing-key registry in order to decrypt.
* Governance has no call that passes on the token's `transfer_admin`: once governance is
  the token's admin, it stays so (token `lib.rs:1180`). The model has no such action either.
* `reclaim_expired_swap` pays two assets in one call (swap `lib.rs:684`): if one of them refuses, neither party is paid.

## 4. What is proved

All theorems are for any values of the constants that satisfy the modules' assumptions: any number of assets, owners, accounts, notes,
swaps, circuits, keys and syncers, any tree size, window, delay, page size and ledger.

| Theorem | Statement |
|---|---|
| *`ShieldedTokenProofs`, of `Spec` of `ShieldedToken`* | |
| `BooksInvariant` | the inductive invariant `Books` |
| `TypeCorrect`, `CommitmentsMatchTree`, `CustodyCorrect` | `[]TypeOK`, `[]SeenMatchesTree`, `[]CustodyCoversSupply` |
| `SolvencyCorrect`, `OwnersCanExit` | `[]Solvency`, `[]OwnerCanExit` |
| `NothingElseDilutes` | `OnlyClawbackDilutes` |
| `NoValueIsLost` | `[]NoValueLost` |
| `TheSwitchesHold`, `RootsAgeByCalls` | `SwitchesHold`, `AnchorsAgeSlowly` |
| `PoolImplementsIdeal` | `IdealSpec`, the refinement of `NotePool` |
| *`ProofSystemProofs`, of `Spec` of `MerkleTree` and of `Groth16Spec`* | |
| `TreeInvariant` | the inductive invariant `TreeOK` |
| `RootIsCorrect`, `EveryPathLeadsToTheRoot` | `[]RootIsReferenceRoot`, `[]EveryPathVerifies` |
| `TreeImplementsLog`, `TreeTypes` | `ImplementsLog`, the refinement of `CommitmentLog`; `[]TypeOK` |
| `Groth16Invariant`, `Groth16TypesHold` | the inductive invariant `Groth16IInv`, `[]Groth16TypeOK` |
| `OnlyTheGenuine`, `BatchesAreWeighed` | `[]AcceptsTheGenuine`, `[]BatchIsWeighedSum` |
| *`NoteProofs`* | |
| `HashInvariant`, `StatesAreReduced` | the inductive invariant `HashIInv`, `[]ElementsReduced`, of `HashSpec` |
| `HashesAreTheTextbooks` | `[]HashersAgree`, of `HashSpec` |
| `CommitmentsBind`, `ProofsBindTheirUse` | `[]CommitmentBinds`, `[]ProofBindsUse`, of `NoteHashesSpec` |
| `AuditorReportsItsEpoch` | `[]ReportsTheGrantedEpoch`, of `ViewingSpec` |
| `WalletReceivesEveryEpoch` | `[]EveryEpochReceived`, of `RotatingSpec` |
| *`GovernanceProofs`, of `ComplianceSpec`, of `Spec` of `Governance` and of `WatchSpec`* | |
| `RegistryInvariant` | the inductive invariant `RegistryInv` |
| `RecordsAreEvidence`, `UnlistedCanProve` | `[]RecordsAttest`, `[]ProvableIffUnlisted` |
| `RegistryTypes`, `RecordsOutliveRotations` | `[]ComplianceTypeOK`; `[](KeyHonouredForRetention /\ NoKeyOutlivesRetirement)` next to the compliance contract |
| `GovernanceTypes` | `[]TypeOK` |
| `WatchCatchesInTime`, `WatchedGuardianPrevails` | `[]CaughtInTime`, `[]GuardianPrevails` |
| `GovernanceHonoursRetiredKeys`, `GovernanceRetiresKeys` | `[]KeyHonouredForRetention`, `[]NoKeyOutlivesRetirement` |
| `GovernanceImplementsTimelock` | `TimelockSpec` |
| *`SwapProofs`, of `SwapSpec`* | |
| `SwapInvariant` | the inductive invariant `SwapInv` |
| `SwapTypeCorrect`, `EscrowCorrect` | `[]SwapTypeOK`, `[]EscrowCoversSwaps` |
| `SolventWithSwaps`, `OwnersCanExitWithSwaps` | `[]Solvency`, `[]OwnerCanExit`, with the swap contract at work |
| `EscrowImplementsTrade` | `TradeSpec` |
| *`IndexerProofs`, of `Spec` of `Indexer`* | |
| `IndexerTypes`, `IndexerSkipsNothing` | `[]TypeOK`, `[]NothingSkipped` |
| `WalletIsServedTheStored` | `[]StoredNotesServed`, of `FeedSpec` of `WalletFeed` |
| *`WalletProofs`, of `PromptSpec` of `Wallet`* | |
| `WalletInvariant`, `CallPaysOnce` | the inductive invariant `Inv`, `[]PaysOnce` |
| `ListInvariant`, `TheListMatches` | `ListInv`, inductive together with `Inv`; `[]ListMatchesChain` |

**Token.** `Books == TypeOK /\ SeenMatchesTree /\ CustodyCoversSupply` is inductive: each call
has a lemma (`ShieldBooks`, `TransferBooks`, ...), resting on what an insertion does to the log
(`InsertManyEffect`), what a SEP-41 transfer does to balances (`PaidEffect`) and what a pro rata payout is
bounded by (`PayoutBounds`). `Books` alone does not give `Solvency`, which is inductive relative to it: a
deposit adds a note and as much supply; a spend removes the notes with the spent nullifiers, at least
the inputs, and adds outputs worth no more. `OwnersCanExit` follows from both: a live
note's value is part of the live value, hence of the supply, so the check of `unshield`
against the supply passes. `OnlyClawbackDilutes` is the inequality `ProRata` on integer division.
`NoValueLost` needs the other direction: each call is an exchange of live notes of one asset for new ones of that asset (`Exchanges`, with a
lemma per call), a nullifier in use belongs to a commitment that was seen (`SpentAreSeen`), so that without
collisions nothing dies but what was spent, and what was spent is worth what the call creates and pays. The refinement of `NotePool` is the same
exchange with its effect on the vault; a note that collides with one just spent dies with it there, as it does here. `AnchorsAgeSlowly` rests on
`WindowIsCurrent`: the last root of the window is that of all leaves.

**Tree.** Only the leaves and the sizes have a reference that does not change; every other node is computed in batches from nodes stored
earlier. `TreeOK` says that at each level exactly the nodes above a leaf are stored (`RowsOK`) and that every one of them is
the full tree's (`NodesOK`), with the root among them. An insertion keeps it because two trees agree on every
node above leaves on which they agree (`TreesAgree`), so the nodes left of the batch are still right (`LeftOfBatch`), a subtree that no leaf
has reached is an empty one (`EmptySubtree`), and the batch is right level by level (`BatchIsReference`). The path of a leaf then follows from
`TreeOK` alone. For the refinement the log's numbers stand for roots: no two prefixes of the leaves have the same root
(`PrefixRootsDiffer`, since no commitment is the empty leaf), and the window holds roots of prefixes (`HistoryOK`). The hash is
a free constructor, which is what a collision-free hash is to this code.

**The pairing check.** Keys, proofs and inputs reach the code as bytes, and a call answers for all of them. An encoding is injective (`DigitsWrite`,
`CoordinatesUnique`), so what is cut out of the bytes at the code's offsets is what was put there (`KeyDecodes`, `ProofDecodes`); the
hand-written subtraction with borrow takes a number from q digit by digit (`MinusValue`), so that the
negated bytes are those of the inverse point, the point at infinity included (`Negation`). The pairing check is then an equation modulo r
between logarithms, and `verify` says yes exactly when it holds of the current key or, where the code gets that far, of the
retained one. `BatchIsWeighedSum` is not inductive: `Groth16IInv` adds that after every item the four sums of the batch and the weighed errors of the
items so far balance modulo r, which is where the equation's being linear is used (`WeighingKeeps`).

**Poseidon.** The first half is arithmetic: additions with carry, the schoolbook product, folding the upper half of a product down with 2^256 mod r and
subtracting r while it can be are sums and products modulo r, with nothing lost at a limb's width
(`AddElements`, `MultiplyElements`), and both loops end (`Reducing`, `ReducingProducts`). The second half is the
optimisation. `HashIInv` says which textbook state the limbs stand for after each round: in the first full rounds the textbook's,
before its next constants are added; in the partial rounds a vector in another basis and up to an offset, both of which
leave the first element, the only one that goes through the S-box, alone; after them the textbook's again. `HashersAgree` alone is about the end only and says nothing of
the rounds on the way. That the basis and the offset exist is the assumption
`PoseidonDerivation` about the tables; it holds of the 81 + 285 constants and the two matrices of `poseidon.rs`,
with the round constants of Poseidon for three elements, 8 full and 57 partial rounds over this field. (They were multiplied out with big integers;
TLC has 32 bits and checks the assumption on the tables of the instance.)

**Hashing, compliance, viewing keys.** `CommitmentsBind` and `ProofsBindTheirUse` invert the constructors, and are about what is reduced modulo
the field and what is not. `UnlistedCanProve` is about the sorted, padded list of `compliance.ts`: an address is unlisted
exactly when it lies strictly between two neighbours, and the prover's search finds that pair. Records attest because
the root in force is always that of the list in force, and a record's is that of the list when it was written (`RegistryInv`). The auditor and
the wallet each have an invariant on a running pass as well as on the persisted cursor (`AuditInv`, `SyncInv`); the
wallet's holds the keys of all epochs while it syncs, which is what `RotatesBetweenSyncs` is for.

**Sums and recursion.** The library's induction theorems take an operator, which no prover here instantiates, so a sum over notes is not defined
by recursion. A set of notes is worth the number of its *units* `<<note, k>>`, `k <= note.value`; sums then obey the laws of
finite cardinalities, which the library proves (the first part of `ShieldedTokenProofs`). TLC evaluates the same definitions. Where the model does need a recursive
function (powers, sums, digits, carries, the rounds of a loop, the tree), it is a `CHOOSE`, and its equation holds once a function that satisfies it is shown to exist: level by
level, by induction over the *set* of levels for which it does (`SetInduction`, from the least number outside it; `Loops` for a loop with a
fixed number of rounds). In `Wallet` no call spends
more than two notes, and their sum is written down (`SumOfTwo`). What the escrow
owes is counted in the same way, per swap (`OfferedUnits`, `FrontedUnits`): a call replaces the units of one swap and leaves the others'
alone (`UnitsReplaced`, `DueReplaced`), which is what makes the sum over all swaps move by what that call paid.

**Governance.** `CaughtInTime` is the inductive part of `GuardianPrevails`: an objectionable entry is queued after the last look and the delay
exceeds the period, so the next look comes before its `eta`, and the guardian does not finish a look with it in the queue.
For the retention `KeyHonouredForRetention` is not inductive: `HonourInv` adds that a promise is never longer than the
retention (`PromisesAreShort`), that a queued rotation matures after every promise has run out
(`RotationsAreApart`, from `Retention < TimelockDelay`), that a running promise is about the key in the retained slot
(`PromisesAreKept`), and that what is retained was promised (`RetainedWasPromised`). The refinement of `Timelock` maps a
retained key to a grant in force, and needs that a circuit without a key retains none (`FirstKeyIsAlone`).

**Swap.** `SwapInv == Books /\ SwapTypes /\ EscrowCoversSwaps`. Nobody but the contract pays out of its balance (`DirectKeeps`), a commit adds
to it what it adds to what is owed, because the code compares what arrived with `amount_in`; every way out takes from both the same. The
refinement of `AtomicTrade` counts what a relayer has fronted as the relayer's wealth: executing is then a stutter,
a claim moves it into the pool and the offer to the relayer in one step (`TradeClaim`), and cancel and reclaim are its unwinding (`TradeUnwound`).

**Indexer.** `NothingSkipped` speaks of the persisted ledger only. The invariant `Inv` says the same of a running
request (`RequestOK`: everything it leaves out is stored) and of a response that is being stored (`PageOK`: the page is a
suffix of what the response covers, and all before it is stored; a page that is not full covers everything up to the response's latest
ledger), over a chain whose events are in the order of their ledgers (`ChainOrdered`).
For the wallet that reads the database, a page of `/notes` has every stored note up to the ledger of its last one, the
others of that ledger included or left for the next page, and the cursor moves accordingly (`FeedInv`).

**Wallet.** A call may leave several transactions behind: attempts given up for lost, under other sequence numbers and around rebuilt proofs. `Inv`
says that any two of a call are exclusive: they spend the same notes, or spend none and create the same one. For the rebuilt proof
this holds because the list does not change during the call, which is where both assumptions are used. A second one is then refused, by its nullifiers or
because its commitment was seen (`SecondRefused`). `ListInv` follows a sync through its awaits: with the page that is still to be pushed the list has a
note for every unused nullifier before the cursor (`SyncOK`), what the list still has of spent notes was spent at the last synced ledger or later (`ListOK`), the
indexer's answer is about the list that was asked for, in which no two notes exclude each other (`NoneExclude`), and an attempt's hash is not used again. A
rho a call has drawn is known to others only through what the call has submitted (`ChainOK`), and lies on notes of ledgers no sync has passed
(`OwnNew`), so the call may add its note to the list itself without making a double or a pair that excludes each other among the synced.

**Assumptions.** The named `ASSUME`s of the modules: constants of the right kind, the pool and the swap contract are addresses of their
own, batches fit in one insertion, `None` and `Closed` are no records, no commitment is the empty leaf, amounts and expiries are smaller than the field's
modulus, `Retention < TimelockDelay` and `WatchPeriod < TimelockDelay`; the group's order is odd and its coordinates fit in their bytes, bytes taken for bad are no
encoding of a key or a proof (`Groth16Inputs`); r is at most half of what the limbs hold, and the tables of Poseidon are derived as said above. TLC
checks them in every run of a module that extends theirs. Three theorems are
about specifications with a premise on the application: `RotatesBetweenSyncs` in `RotatingSpec`, `OneAtATime` and
`SubmitsAtOnce` in `PromptSpec`; section 3 says what happens without them.

**Only model-checked.** Liveness under fairness (`EverySwapEnds`, `EverythingIndexed`) and `ENABLED` (`IncidentLevers`) are out of the
prover's reach. `TypesOK` of `MCProofSystem` collects the types of parts in a module of their instances: each of its conjuncts is a theorem about
its part (`TreeTypes`, `RegistryTypes`, `Groth16TypesHold`, `StatesAreReduced`).

## 5. Not modelled

* Curve arithmetic, encryption, key derivation, proof generation: pure functions, represented by what
  callers rely on (injectivity, relations). The circuits are represented by their relations only.
* Time to live of storage entries and their archival: the ledger's, and restored entries read as before (a call that
  meets an archived entry has to restore it first, token `lib.rs:808`).
* The indexer's HTTP layer: the retry of `callConsistentViews` until two reads agree on the ledger, rate limits, token check; the
  nullifier and commitment lookups, each one read of the database.
* The wallet's swap client: each of its calls is one `submitContractCall`, which `Wallet` has; fees and payments to oneself are left out there.
* The RPC node's limited retention of events: the code has no path for it.
* Relayer quotes, deployment and measurement scripts, examples: no protocol state of their own.

## 6. Plan

Done, in this order: token and its tree, governance with verifier and guardian, swap, indexer with the wallet's
feed; hashing, verification, compliance, viewing keys, wallet; the theorems about token, governance, indexer and swap; those about the tree,
the refinement of `NotePool`, hashing, compliance, viewing keys, the feed and the wallet; those about the pairing check and Poseidon.
Every safety property that a run checks is a theorem, but for `IncidentLevers`.

To come:

1. `SwapClient`: `sdk/src/wallet/swap.ts` on top of `ShieldedSwap` and the submission part of `Wallet`, and that a swap client
   that is restarted never loses its claim.
2. `ConsistentViews`: the indexer's retry until two reads agree on the ledger, and that what it returns was true at one ledger.
