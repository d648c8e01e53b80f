-------------------------------- MODULE MerkleTree --------------------------------
(***************************************************************************)
(* contracts/token/src/merkle.rs: the node store of the commitment tree.   *)
(* insert_many writes the new leaves and recomputes, level by level, only  *)
(* the nodes above them: a left child outside the batch is read from the   *)
(* store, a right child outside the batch is an empty subtree.             *)
(*                                                                         *)
(* Poseidon2 is a free constructor here: the hash of two nodes is the pair *)
(* of them, so that hashes are equal only when everything below them is.   *)
(***************************************************************************)
EXTENDS Integers, Sequences, Functions

CONSTANTS
  TreeDepth,        \* TREE_DEPTH: 32 in the code
  RootHistorySize,
  MaxInsertBatch,
  Commitments,
  EmptyLeaf         \* EMPTY_ROOTS[0]

ASSUME TreeAssumption ==
  /\ TreeDepth \in Nat \ {0}
  /\ RootHistorySize \in Nat \ {0}
  /\ MaxInsertBatch \in Nat \ {0}
  /\ EmptyLeaf \notin Commitments

VARIABLES
  node,         \* MerkleNode(level, index) entries
  merkleRoot,   \* MerkleRoot
  nextLeaf,     \* NextLeafIndex
  rootHistory   \* RootHistory

vars == <<node, merkleRoot, nextLeaf, rootHistory>>

\* 2^level
Pow2[level \in 0..TreeDepth] == IF level = 0 THEN 1 ELSE 2 * Pow2[level - 1]

\* one less than the leaves of the full tree: u32::MAX for TREE_DEPTH = 32
MaxLeaves == Pow2[TreeDepth] - 1

\* the index of a leaf halved once per level: the node above it
Above(leafIndex, level) == leafIndex \div Pow2[level]

Hash(left, right) == <<left, right>>

EmptyRoots[level \in 0..TreeDepth] ==
  IF level = 0 THEN EmptyLeaf ELSE Hash(EmptyRoots[level - 1], EmptyRoots[level - 1])

\* what the storage returns for a node, the empty subtree if there is none
Stored(level, index) ==
  IF <<level, index>> \in DOMAIN node THEN node[<<level, index>>] ELSE EmptyRoots[level]

\* Deviation: the leaf whose index would be u32::MAX is handed out.
HasCapacityOneMore(count) == nextLeaf + count <= MaxLeaves + 1

HasCapacity(count) == nextLeaf + count <= MaxLeaves

IsKnownRoot(candidate) == candidate = merkleRoot \/ candidate \in Range(rootHistory)

Init ==
  /\ node = << >>
  /\ merkleRoot = EmptyRoots[TreeDepth]
  /\ nextLeaf = 0
  /\ rootHistory = << >>

\* Deviation: a left child outside the batch is taken for an empty subtree.
LeftChildEmpty(below, level, index) ==
  IF index \in DOMAIN below THEN below[index] ELSE EmptyRoots[level]

\* a left child is in the batch or was written by an earlier call
LeftChild(below, level, index) ==
  IF index \in DOMAIN below THEN below[index] ELSE Stored(level, index)

\* a right child is in the batch or nothing was inserted there yet
RightChild(below, level, index) ==
  IF index \in DOMAIN below THEN below[index] ELSE EmptyRoots[level]

\* The nodes that inserting `commitments' writes at each level, by index: lo..hi
\* of the code, halved at every level.
BatchNodes(commitments) ==
  LET first == nextLeaf
      last == nextLeaf + Len(commitments) - 1
      vals[level \in 0..TreeDepth] ==
        [p \in Above(first, level)..Above(last, level) |->
           IF level = 0
             THEN commitments[p - first + 1]
             ELSE Hash(LeftChild(vals[level - 1], level - 1, 2 * p),
                       RightChild(vals[level - 1], level - 1, 2 * p + 1))]
  IN  vals

\* Deviation: the root that is being replaced is remembered.
PushRootStale(root) ==
  LET pushed == Append(rootHistory, merkleRoot)
  IN  rootHistory' = IF Len(pushed) > RootHistorySize THEN Tail(pushed) ELSE pushed

PushRoot(root) ==
  LET pushed == Append(rootHistory, root)
  IN  rootHistory' = IF Len(pushed) > RootHistorySize THEN Tail(pushed) ELSE pushed

InsertMany(commitments) ==
  LET vals == BatchNodes(commitments)
      written == {pos \in (0..TreeDepth) \X (0..MaxLeaves) : pos[2] \in DOMAIN vals[pos[1]]}
  IN
  /\ Len(commitments) \in 1..MaxInsertBatch
  /\ HasCapacity(Len(commitments))
  /\ node' = [pos \in DOMAIN node \cup written |->
                IF pos \in written THEN vals[pos[1]][pos[2]] ELSE node[pos]]
  /\ merkleRoot' = vals[TreeDepth][0]
  /\ nextLeaf' = nextLeaf + Len(commitments)
  /\ PushRoot(vals[TreeDepth][0])

\* Deviation: the sibling is looked for on the right only.
GetPathRight(leafIndex) ==
  [level \in 0..(TreeDepth - 1) |-> Stored(level, Above(leafIndex, level) + 1)]

\* get_path: the siblings on the way from a leaf to the root
GetPath(leafIndex) ==
  [level \in 0..(TreeDepth - 1) |->
     LET index == Above(leafIndex, level)
     IN  Stored(level, IF index % 2 = 0 THEN index + 1 ELSE index - 1)]

Next ==
  \E n \in 1..MaxInsertBatch : \E commitments \in [1..n -> Commitments] : InsertMany(commitments)

Spec == Init /\ [][Next]_vars

---------------------------------------------------------------------------
(* Reference: the tree over a sequence of leaves, padded with empty leaves. *)

ReferenceNodes(leaves) ==
  LET at[level \in 0..TreeDepth] ==
        [p \in Nat |->
           IF level = 0
             THEN IF p < Len(leaves) THEN leaves[p + 1] ELSE EmptyLeaf
             ELSE Hash(at[level - 1][2 * p], at[level - 1][2 * p + 1])]
  IN  at

ReferenceRoot(leaves) == ReferenceNodes(leaves)[TreeDepth][0]

Leaves == [i \in 1..nextLeaf |-> node[<<0, i - 1>>]]

\* circuits/common/merkle.circom and verify_path: from a leaf up its path
NodesOnPath(leafIndex) ==
  LET up[level \in 0..TreeDepth] ==
        IF level = 0
          THEN node[<<0, leafIndex>>]
          ELSE LET below == up[level - 1]
                   sibling == GetPath(leafIndex)[level - 1]
               IN  IF Above(leafIndex, level - 1) % 2 = 0
                     THEN Hash(below, sibling) ELSE Hash(sibling, below)
  IN  up

Climb(leafIndex) == NodesOnPath(leafIndex)[TreeDepth]

TypeOK ==
  /\ DOMAIN node \subseteq (0..TreeDepth) \X (0..MaxLeaves)
  /\ \A i \in 0..(nextLeaf - 1) : node[<<0, i>>] \in Commitments
  /\ nextLeaf \in 0..MaxLeaves
  /\ Len(rootHistory) \in 0..RootHistorySize

\* Batched, incremental insertion yields the root of the full tree over every
\* leaf inserted so far, for every sequence of batch sizes and alignments.
RootIsReferenceRoot == merkleRoot = ReferenceRoot(Leaves)

\* After any sequence of batches the path merkle_path returns for any leaf, old
\* ones included, leads to the current root: no node a batch skips is stale.
EveryPathVerifies == \A i \in 0..(nextLeaf - 1) : Climb(i) = merkleRoot

\* The tree implements the append-only log the token contract relies on; a root
\* of the history stands for the prefix it is the root of.
Log == INSTANCE CommitmentLog WITH
         leaves <- Leaves,
         history <- [i \in DOMAIN rootHistory |->
                       CHOOSE n \in 0..nextLeaf :
                         rootHistory[i] = ReferenceRoot(SubSeq(Leaves, 1, n))]
ImplementsLog == Log!LogSpec
=============================================================================
