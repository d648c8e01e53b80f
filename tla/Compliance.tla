------------------------------- MODULE Compliance -------------------------------
(***************************************************************************)
(* contracts/compliance/src/lib.rs next to the verifier it calls, the      *)
(* circuit non_membership.circom and the SDK code that builds the list's   *)
(* tree (sdk/src/prover/compliance.ts). A root stands for the leaves of    *)
(* its tree, a tk_commitment for the spending key it commits to.           *)
(***************************************************************************)
EXTENDS Verifier, Sequences, Sorting

CONSTANTS
  Publishers,    \* the accounts that publish records
  Spenders,      \* spending keys
  AddressOf,     \* AddressOf[sk]: the low 248 bits of Poseidon2(sk, 1)
  MaxAddress,    \* 2^248 - 1
  Lists,         \* the lists that trees are built from
  NonMembership, \* the circuit's CircuitType
  NoRoot         \* no SanctionsRoot in storage

ASSUME ComplianceAssumption ==
  /\ MaxAddress \in Nat
  /\ AddressOf \in [Spenders -> 0..MaxAddress]
  /\ Lists \subseteq SUBSET (0..MaxAddress)
  /\ NonMembership \in Circuits

VARIABLES
  sanctionsRoot,     \* SanctionsRoot
  compliancePaused,  \* Paused
  record,            \* ComplianceRecord(owner)
  sanctioned,        \* the list sanctionsRoot was built from (not in the code)
  listThen           \* that list when record[owner] was written (not in the code)

complianceVars == <<sanctionsRoot, compliancePaused, record, sanctioned, listThen>>

ComplianceInit ==
  /\ VerifierInit
  /\ sanctionsRoot = NoRoot
  /\ compliancePaused = FALSE
  /\ record = <<>>
  /\ sanctioned = {}
  /\ listThen = <<>>

-----------------------------------------------------------------------------
(* The list. *)

\* Deviation: nothing above the largest listed address.
SanctionsTreeOpen(list) ==
  <<0>> \o Ascending({a \in list : 0 < a /\ a < MaxAddress})

\* buildSanctionsTree: the listed addresses in ascending order between the sentinels
SanctionsTree(list) ==
  <<0>> \o Ascending({a \in list : 0 < a /\ a < MaxAddress}) \o <<MaxAddress>>

\* the tree is much deeper than its leaves fill; the rest is empty
Leaf(tree, i) == IF i \in DOMAIN tree THEN tree[i] ELSE 0

\* Deviation: a listed address serves as its own lower neighbour.
NonMemberLoose(tree, address) ==
  \E i \in DOMAIN tree : Leaf(tree, i) <= address /\ address < Leaf(tree, i + 1)

\* a witness exists: two adjacent leaves with the address strictly between them
NonMember(tree, address) ==
  \E i \in DOMAIN tree : Leaf(tree, i) < address /\ address < Leaf(tree, i + 1)

\* generateNonMembershipProof searches the leaves it built for the first such pair
ProverFinds(list, address) ==
  LET leaves == SanctionsTree(list)
  IN  \E i \in 1..(Len(leaves) - 1) : leaves[i] < address /\ address < leaves[i + 1]

-----------------------------------------------------------------------------
(* The contract. *)

\* the maintainer publishes the root of a list it built with the SDK
SetSanctionsRoot(list) ==
  /\ sanctionsRoot' = SanctionsTree(list)
  /\ sanctioned' = list
  /\ UNCHANGED <<compliancePaused, record, listThen>>

\* pause and unpause
SetCompliancePaused(value) ==
  /\ compliancePaused' = value
  /\ UNCHANGED <<sanctionsRoot, record, sanctioned, listThen>>

With(f, owner, value) ==
  [o \in DOMAIN f \cup {owner} |-> IF o = owner THEN value ELSE f[o]]

WriteRecord(owner, tree, sk) ==
  /\ record' = With(record, owner, [sanctionsRoot |-> tree, tk |-> sk, published |-> seq])
  /\ listThen' = With(listThen, owner, sanctioned)
  /\ UNCHANGED <<sanctionsRoot, compliancePaused, sanctioned>>

\* Deviation: the root is the prover's.
PublishComplianceProofAnyRoot(owner, tree, sk, key) ==
  /\ ~compliancePaused
  /\ sanctionsRoot # NoRoot
  /\ NonMember(tree, AddressOf[sk])
  /\ ~verifierPaused /\ Verify(NonMembership, key)
  /\ WriteRecord(owner, tree, sk)

\* publish_compliance_proof with a proof about `sk' and `tree' made with `key', at
\* any time in the past: a proof exists only if the circuit has a witness. Any
\* account may publish any proof.
PublishComplianceProof(owner, tree, sk, key) ==
  /\ ~compliancePaused
  /\ sanctionsRoot # NoRoot
  /\ tree = sanctionsRoot
  /\ NonMember(tree, AddressOf[sk])
  /\ ~verifierPaused /\ Verify(NonMembership, key)
  /\ WriteRecord(owner, tree, sk)

\* The verifier's admin is governance: its timelock is longer than the retention
\* window, so that it cannot rotate while an earlier rotation's key is retained.
RegistrarStep ==
  \/ \E key \in Keys : RegisterVerifyingKey(Registrar, NonMembership, key)
  \/ promised = {} /\ \E key \in Keys : UpdateVerifyingKey(Registrar, NonMembership, key)
  \/ RevokePreviousVk(Registrar, NonMembership)
  \/ \E value \in BOOLEAN : SetVerifierPaused(Registrar, value)

\* a ledger closes; promises that have run out are forgotten
LedgerCloses ==
  /\ seq < MaxLedger
  /\ seq' = seq + 1
  /\ promised' = {p \in promised : p.until >= seq'}
  /\ UNCHANGED <<vk, previousVk, previousExpiry, verifierPaused, complianceVars>>

ComplianceNext ==
  \/ \E list \in Lists : SetSanctionsRoot(list) /\ UNCHANGED <<seq, verifierVars>>
  \/ \E value \in BOOLEAN : SetCompliancePaused(value) /\ UNCHANGED <<seq, verifierVars>>
  \/ \E owner \in Publishers, list \in Lists, sk \in Spenders, key \in Keys \ UnusableKeys :
       /\ PublishComplianceProof(owner, SanctionsTree(list), sk, key)
       /\ UNCHANGED <<seq, verifierVars>>
  \/ RegistrarStep /\ UNCHANGED <<seq, complianceVars>>
  \/ LedgerCloses

ComplianceSpec == ComplianceInit /\ [][ComplianceNext]_<<seq, verifierVars, complianceVars>>

-----------------------------------------------------------------------------
Roots == {SanctionsTree(list) : list \in Lists}

ComplianceTypeOK ==
  /\ VerifierTypeOK
  /\ sanctionsRoot \in Roots \cup {NoRoot}
  /\ compliancePaused \in BOOLEAN
  /\ DOMAIN record \subseteq Publishers /\ DOMAIN listThen = DOMAIN record
  /\ \A o \in DOMAIN record :
       record[o] \in [sanctionsRoot : Roots, tk : Spenders, published : 0..seq]
  /\ sanctioned \in Lists \cup {{}}

\* A record is evidence about the list that was in force when it was written: its
\* spending key's address was not on it then, whichever tree the prover built,
\* whenever the proof was made, and however list and key were rotated since. (It is
\* no evidence about a later list, nor that its publisher knows the spending key.)
RecordsAttest ==
  \A o \in DOMAIN record :
    /\ AddressOf[record[o].tk] \notin listThen[o]
    /\ record[o].sanctionsRoot = SanctionsTree(listThen[o])

\* Whoever is not on the list in force can prove it, with the SDK, and nobody who is
\* on it can, with any witness; the two sentinel addresses can never.
ProvableIffUnlisted ==
  sanctionsRoot # NoRoot =>
    \A a \in 0..MaxAddress :
      /\ NonMember(sanctionsRoot, a) <=> a \notin sanctioned \cup {0, MaxAddress}
      /\ ProverFinds(sanctioned, a) <=> NonMember(sanctionsRoot, a)
=============================================================================
