------------------------------ MODULE MCProofSystem ------------------------------
(* The parts that proofs are made of and used by, one next to the other, each    *)
(* explored while the others rest:                                               *)
(*  - a tree of depth 3: room for seven leaves, batches of up to four;           *)
(*  - Poseidon over integers modulo 17 in three limbs of two bits, with two full *)
(*    rounds on either side of two partial ones, and what the contracts hash;    *)
(*  - the pairing check in groups of order 5 with coordinates modulo 7 in two    *)
(*    digits to the base 3;                                                      *)
(*  - the compliance registry and its verifier, with addresses up to 4;          *)
(*  - viewing-key epochs.                                                        *)
EXTENDS MerkleTree, Poseidon, NoteHashes, Groth16, Compliance, ViewingKeys

MCM == <<<<2, 3, 3>>, <<12, 6, 10>>, <<9, 7, 2>>>>
MCRoundConstants == <<<<5, 13, 12>>, <<16, 11, 14>>, <<16, 8, 1>>,
                      <<0, 11, 14>>, <<10, 12, 13>>, <<16, 5, 5>>>>
\* derived from the two above, as the constants of the code are from Poseidon's
MCC == <<5, 13, 12, 7, 8, 16, 3, 6, 12, 16, 12, 14, 10, 8>>
MCP == <<<<2, 10, 3>>, <<12, 6, 13>>, <<9, 4, 11>>>>
MCS == <<2, 1, 12, 5, 2, 2, 7, 14, 3, 3>>
MCBasis == <<<<<<1, 0, 0>>, <<0, 14, 6>>, <<0, 11, 15>>>>, <<<<1, 0, 0>>, <<0, 7, 16>>, <<0, 1, 4>>>>,
             <<<<1, 0, 0>>, <<0, 1, 0>>, <<0, 0, 1>>>>>>
MCOffset == <<<<0, 15, 10>>, <<0, 4, 0>>, <<0, 0, 0>>>>

MCKey(alpha, ic) == [alpha |-> alpha, beta |-> 3, gamma |-> 2, delta |-> 4, ic |-> ic]
MCProof(a, c) == [a |-> a, b |-> 2, c |-> c]
MCInput(n) == Reverse(Digits(n))   \* little-endian; 5 is the modulus

MCKeySet == {MCKey(1, <<2, 1>>), MCKey(4, <<2, 1>>), MCKey(1, <<0, 3, 4>>)}
MCProofSet == {MCProof(a, c) : a \in {0, 1, 2, 4}, c \in {0, 1, 3}}
\* a key and a proof with a point off the curve, and one of each cut within a point
MCBadBytes ==
  {[KeyBytes(MCKey(1, <<2, 1>>)) EXCEPT ![2] = 2],
   SubSeq(KeyBytes(MCKey(1, <<2, 1>>)), 1, VkFixedLen + 3),
   [ProofBytes(MCProof(1, 0)) EXCEPT ![4] = 2],
   SubSeq(ProofBytes(MCProof(1, 0)), 1, ProofLen - 1)}
MCInputLists ==
  {<<MCInput(n)>> : n \in {0, 1, 3, 5, 6}} \cup {<<MCInput(1), MCInput(n)>> : n \in {0, 3, 8}}
\* against the first key: genuine, forged with errors that cancel or do not, malformed
MCBatchItems ==
  [inputs : {<<MCInput(1)>>}, proof : {ProofBytes(MCProof(a, c)) : a \in {1, 2}, c \in {0, 1}} \cup MCBadBytes]
    \cup [inputs : {<<MCInput(6)>>, <<MCInput(1), MCInput(0)>>}, proof : {ProofBytes(MCProof(1, 0))}]
MCBatches == UNION {[1..n -> MCBatchItems] : n \in 0..2}

MCAddressOf == [sk \in Spenders |-> sk]
MCLists == {{}, {3}, {1, 3}, {0, 2, 4}}
KeySymmetry == Permutations(Keys \ (MalformedKeys \cup UnusableKeys))

VARIABLE part   \* the one explored

hashing == <<hashVars, compared>>
registry == <<seq, verifierVars, complianceVars>>

PartsInit ==
  /\ part \in {"tree", "hashes", "pairing", "registry", "epochs"}
  /\ Init /\ HashInit /\ compared = <<>> /\ Groth16Init /\ ComplianceInit /\ ViewingInit

PartsNext ==
  /\ UNCHANGED part
  /\ \/ part = "tree" /\ Next /\ UNCHANGED <<hashing, groth16Vars, registry, viewingVars>>
     \/ part = "hashes" /\ compared = <<>> /\ HashNext
          /\ UNCHANGED <<compared, vars, groth16Vars, registry, viewingVars>>
     \/ part = "hashes" /\ input = <<>> /\ NoteHashesNext
          /\ UNCHANGED <<hashVars, vars, groth16Vars, registry, viewingVars>>
     \/ part = "pairing" /\ Groth16Next /\ UNCHANGED <<vars, hashing, registry, viewingVars>>
     \/ part = "registry" /\ ComplianceNext /\ UNCHANGED <<vars, hashing, groth16Vars, viewingVars>>
     \/ part = "epochs" /\ ViewingNext /\ RotatesBetweenSyncs
          /\ UNCHANGED <<vars, hashing, groth16Vars, registry>>

PartsSpec == PartsInit /\ [][PartsNext]_<<part, vars, hashing, groth16Vars, registry, viewingVars>>

\* Every part is of its type; the elements of the hash are reduced.
TypesOK == TypeOK /\ ComplianceTypeOK /\ Groth16TypeOK /\ ElementsReduced
=============================================================================
