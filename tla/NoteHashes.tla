------------------------------- MODULE NoteHashes -------------------------------
(***************************************************************************)
(* What the contracts hash: note commitments and recipient hashes of the   *)
(* token, the binding tag of the swap contract. A proof is good for one    *)
(* note, one recipient and one tag only if everything that must not be     *)
(* exchanged is in its hash. A digest is the pair of what was hashed, in   *)
(* which bytes that were not reduced count for their residue (Poseidon     *)
(* reduces what it is given).                                              *)
(***************************************************************************)
EXTENDS Integers

CONSTANTS
  FieldModulus,   \* r
  Secrets,        \* rho, rcm, owner keys, as integers
  ContractIds,    \* the 32 bytes of a contract's address, as integers
  TokenAmounts,   \* amounts of notes
  Expiries,       \* expiry ledgers
  SwapId          \* the swap contract's own

\* an amount is an i128 and an expiry a u32, which the 254 bits of r leave as they are
ASSUME NoteHashesAssumption ==
  /\ FieldModulus \in Nat \ {0}
  /\ Secrets \subseteq Nat /\ ContractIds \subseteq Nat
  /\ TokenAmounts \subseteq 0..(FieldModulus - 1) /\ Expiries \subseteq 0..(FieldModulus - 1)
  /\ SwapId \in ContractIds

VARIABLE compared   \* two things that are hashed, <<>> before

Residue(bytes) == bytes % FieldModulus
Poseidon2(x, y) == <<x, y>>

\* address_to_field_bytes of the token, and its copy in the swap contract, which
\* must give the same: the tag the one makes is hashed by the other
AddressToField(id) == id % FieldModulus
SwapAddressToField(id) == id % FieldModulus

\* Deviation: the trapdoor is hashed where the note's rho belongs.
ComputeCommitmentNoRho(note) ==
  LET h1 == Poseidon2(note.value, AddressToField(note.asset))
      h2 == Poseidon2(Residue(note.rcm), Residue(note.rcm))
  IN  Poseidon2(Poseidon2(h1, h2), Residue(note.ownerPk))

ComputeCommitment(note) ==
  LET h1 == Poseidon2(note.value, AddressToField(note.asset))
      h2 == Poseidon2(Residue(note.rho), Residue(note.rcm))
  IN  Poseidon2(Poseidon2(h1, h2), Residue(note.ownerPk))

\* Deviation: the tag leaves the expiry out.
BindingTagNoExpiry(terms) ==
  LET base == Poseidon2(Residue(terms.intent), SwapAddressToField(terms.refundTo))
      assetAndExpiry == Poseidon2(SwapAddressToField(terms.assetOut), 0)
  IN  Poseidon2(base, Poseidon2(Residue(terms.ownerPk), assetAndExpiry))

BindingTag(terms) ==
  LET base == Poseidon2(Residue(terms.intent), SwapAddressToField(terms.refundTo))
      assetAndExpiry == Poseidon2(SwapAddressToField(terms.assetOut), terms.expiry)
  IN  Poseidon2(base, Poseidon2(Residue(terms.ownerPk), assetAndExpiry))

\* the zero tag, of a withdrawal that has nothing else to bind: not a digest of anything
NoTag == <<>>
NoHash == <<>>   \* no proof will do

\* the recipient hash unshield expects, the tag being an argument of the call
RecipientHash(to, tag) == Poseidon2(AddressToField(to), tag)

\* the one commit_swap demands of an ownership proof, with its own address
OwnershipHash(terms) == Poseidon2(SwapAddressToField(SwapId), BindingTag(terms))

\* the one a proof must have been made with to be good for a use of it: in a commit,
\* both contracts look at it
ExpectedHash(use) ==
  IF ~use.swap THEN RecipientHash(use.to, use.tag)
  ELSE IF OwnershipHash(use.terms) = RecipientHash(SwapId, BindingTag(use.terms))
       THEN OwnershipHash(use.terms) ELSE NoHash

\* sha256 of the output note's bytes, which are not reduced
OutNoteBindingHash(rho, rcm) == <<rho, rcm>>

Notes == [value : TokenAmounts, asset : ContractIds, rho : Secrets, rcm : Secrets, ownerPk : Secrets]

SwapTerms == [intent : Secrets, refundTo : ContractIds, ownerPk : Secrets,
              assetOut : ContractIds, expiry : Expiries]
\* who withdraws chooses the tag, a commit's if they like; of bytes that are no
\* commit's tag, zero stands for all
Tags == {NoTag} \cup {BindingTag(t) : t \in SwapTerms}

\* an ownership proof is used by commit_swap or by calling unshield
Uses == [swap : {TRUE}, terms : SwapTerms] \cup [swap : {FALSE}, to : ContractIds, tag : Tags]

CompareNotes ==
  /\ compared = <<>>
  /\ \E m, n \in Notes : compared' = <<"notes", m, n>>

CompareUses ==
  /\ compared = <<>>
  /\ \E p, q \in Uses : compared' = <<"uses", p, q>>

EndComparison == compared # <<>> /\ compared' = <<>>

NoteHashesNext == CompareNotes \/ CompareUses \/ EndComparison

NoteHashesSpec == compared = <<>> /\ [][NoteHashesNext]_compared

Comparing(what) == compared # <<>> /\ compared[1] = what

-----------------------------------------------------------------------------
SameResidues(m, n) == \A f \in DOMAIN m : Residue(m[f]) = Residue(n[f])

\* A commitment opens to one note: value, asset, rho, rcm and owner, each up to
\* the modulus. Two encodings of a secret are one commitment (inserted once), but
\* they are two output-note bindings: a claim must reveal the very bytes.
CommitmentBinds ==
  Comparing("notes") =>
    LET m == compared[2]
        n == compared[3]
    IN  /\ ComputeCommitment(m) = ComputeCommitment(n) <=> SameResidues(m, n)
        /\ OutNoteBindingHash(m.rho, m.rcm) = OutNoteBindingHash(n.rho, n.rcm)
             <=> m.rho = n.rho /\ m.rcm = n.rcm

\* w pays the swap contract what c would, without a swap coming of it
PaysLike(w, c) ==
  ~w.swap /\ c.swap /\ Residue(w.to) = Residue(SwapId) /\ w.tag = BindingTag(c.terms)

\* An ownership proof is good for one recipient and one tag. A commit's proof commits
\* to one intent, refund address, owner, asset and expiry, and pays nobody but the
\* swap contract; the one other call that takes it is the withdrawal which does that
\* under the same tag and leaves no swap.
ProofBindsUse ==
  Comparing("uses") =>
    LET p == compared[2]
        q == compared[3]
    IN  ExpectedHash(p) = ExpectedHash(q) <=>
          \/ p.swap /\ q.swap /\ SameResidues(p.terms, q.terms)
          \/ ~p.swap /\ ~q.swap /\ Residue(p.to) = Residue(q.to) /\ p.tag = q.tag
          \/ PaysLike(p, q) \/ PaysLike(q, p)
=============================================================================
