------------------------------ MODULE CommitmentLog ------------------------------
(***************************************************************************)
(* What contracts/token/src/merkle.rs promises the token contract: an      *)
(* append-only log of note commitments, of which the contract keeps the    *)
(* current Merkle root and a short window of the roots before it.          *)
(*                                                                         *)
(* The root of the tree over the first n commitments is written n. The     *)
(* hash is taken to be injective, so two different prefixes of the log     *)
(* have different roots; MerkleTree.tla models the node store that         *)
(* computes the roots and shows that it implements this log.               *)
(***************************************************************************)
EXTENDS Integers, Sequences

CONSTANTS
  MaxLeaves,        \* capacity(): 2^32 - 1 in the code
  RootHistorySize,  \* ROOT_HISTORY_SIZE: 32 in the code
  MaxInsertBatch    \* MAX_INSERT_BATCH: 8 in the code

ASSUME LogAssumption ==
  /\ MaxLeaves \in Nat
  /\ RootHistorySize \in Nat \ {0}
  /\ MaxInsertBatch \in Nat \ {0}

VARIABLES
  leaves,   \* the commitments, in order of insertion
  history   \* RootHistory: the roots after the last inserting calls

logVars == <<leaves, history>>

LogInit ==
  /\ leaves = << >>
  /\ history = << >>

CurrentRoot == Len(leaves)

HasCapacity(count) == Len(leaves) + count <= MaxLeaves

\* is_known_root
KnownRoot(root) == root = CurrentRoot \/ \E i \in DOMAIN history : history[i] = root

KnownRoots == {CurrentRoot} \cup {history[i] : i \in DOMAIN history}

\* Deviation: the window is trimmed one call too early.
PushRootShort(root) ==
  LET pushed == Append(history, root)
  IN  history' = IF Len(pushed) >= RootHistorySize THEN Tail(pushed) ELSE pushed

\* Deviation: the window is trimmed one call too late.
PushRootLong(root) ==
  LET pushed == Append(history, root)
  IN  history' = IF Len(history) > RootHistorySize THEN Tail(pushed) ELSE pushed

\* The tail of insert_many: push the new root, drop the oldest one when the
\* window is full. One root per call, however many leaves the call inserts.
PushRoot(root) ==
  LET pushed == Append(history, root)
  IN  history' = IF Len(pushed) > RootHistorySize THEN Tail(pushed) ELSE pushed

InsertMany(commitments) ==
  /\ Len(commitments) \in 1..MaxInsertBatch
  /\ HasCapacity(Len(commitments))
  /\ leaves' = leaves \o commitments
  /\ PushRoot(Len(leaves) + Len(commitments))

---------------------------------------------------------------------------
(* The log as a specification of its own. *)

Grow ==
  /\ Len(leaves') > Len(leaves)
  /\ InsertMany(SubSeq(leaves', Len(leaves) + 1, Len(leaves')))

LogSpec == LogInit /\ [][Grow]_logVars
=============================================================================
